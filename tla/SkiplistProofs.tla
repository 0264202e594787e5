--------------------------- MODULE SkiplistProofs ---------------------------
(***************************************************************************)
(* The concurrent skiplist, for any number of threads, leaves, levels and  *)
(* calls: types, the locks and cursors of the threads, and the levels,     *)
(* none of which runs in a circle or loses a live leaf.                    *)
(***************************************************************************)
EXTENDS Skiplist, SkiplistLeafProofs

(* Levels *)

\* The leaves that are, or were when they died, on level l: nothing takes the
\* way back from them.
Linked(l) == {n \in Leaves : prev[n][l] # NoNode}
On(l) == Linked(l) \cup {HeadNode}

Linking(t) == pc[t] \in {"link", "linklock", "linkback"}

\* Links stay on their level, which a leaf comes to from below; every leaf is
\* on all of its levels, except one being linked.
LinksInv ==
  /\ \A l \in Levels, n \in Nodes :
       next[n][l] \in Linked(l) \cup {NoNode} /\ prev[n][l] \in On(l) \cup {NoNode}
  /\ \A l \in Levels :
       /\ prev[HeadNode][l] # HeadNode
       /\ \A n \in Leaves \ Linked(l) : next[n][l] = NoNode
       /\ \A n \in Linked(l) :
            n \in used /\ l <= height[n] /\ \A k \in 0..l : n \in Linked(k)
  /\ \A n \in used :
       \/ \A l \in 0..height[n] : n \in Linked(l)
       \/ \E t \in Threads : Linking(t) /\ th[t].new = n

\* The links of level l follow an order of the nodes, those that threads are
\* about to set included.
Ranks(l, N, rank) ==
  /\ N \in Nat /\ rank \in [Nodes -> 0..N]
  /\ \A n \in Nodes : next[n][l] # NoNode => rank[n] < rank[next[n][l]]
  /\ \A n \in Leaves : prev[n][l] # NoNode => rank[prev[n][l]] < rank[n]
  /\ \A t \in Threads : th[t].i = l /\ th[t].nx # NoNode =>
       /\ pc[t] = "linkback" => rank[th[t].new] < rank[th[t].nx]
       /\ pc[t] = "eraseback" => rank[th[t].pr] < rank[th[t].nx]

RankInv == \A l \in Levels : \E N, rank : Ranks(l, N, rank)

\* Every live leaf on level l is the next one of a live node.
ChainInv ==
  \A l \in Levels : \A n \in Linked(l) \ dead :
    \E b \in On(l) \ dead : LiveNext(b, l) = n

-----------------------------------------------------------------------------
(* Threads *)

Holds(t, n) == n \in Nodes /\ lock[n] = t
Has(t, n) == Holds(t, n) /\ n \notin dead

\* The cursor has nothing but live nodes that t has locked, each on the levels
\* it stands for.
CursorHeld(t) ==
  \A k \in 0..MaxLevel :
    th[t].cur[k] # NoNode =>
      /\ k \in Levels /\ k <= th[t].pending
      /\ Has(t, th[t].cur[k]) /\ th[t].cur[k] \in On(k)

\* p is the node to link behind on level k, or the cursor has one.
Ready(t, k) ==
  IF th[t].p # HeadNode /\ k <= height[th[t].p] THEN th[t].p \in Linked(k)
  ELSE Has(t, th[t].cur[k]) /\ th[t].cur[k] \in On(k)

\* In an insertion that may still allocate a leaf, it has been preloaded.
Preloaded(t) ==
  /\ th[t].token \in 1..MaxLevel - 1
  /\ preload[t][th[t].token] \in 0..th[t].pending
  /\ th[t].pending \in Levels

InsertPcs ==
  {"fast", "fastlock", "again", "headlock", "skip", "walk", "walklock", "compare",
   "recheck", "homelock", "down", "verifyprev", "verifynode", "verifynext",
   "overlap", "split", "empty"}
SearchPcs ==
  {"top", "seek", "examine", "stable", "grab", "holecheck", "holelock",
   "holewalk", "holenext"}
WalkPcs == {"skip", "walk", "walklock", "compare", "recheck", "homelock", "down"}
VerifyPcs == {"verifyprev", "verifynode", "verifynext"}
ErasePcs ==
  {"erase", "eraseprev", "erasenode", "erasegrab", "erasenext", "eraseback"}
PlacePcs == {"overlap", "store", "split"}
Labels ==
  InsertPcs \cup SearchPcs \cup ErasePcs
    \cup {"rest", "store", "link", "linklock", "linkback", "shrink", "oops"}

\* t has preloaded a leaf and may still need it.
MayAllocate(t) == pc[t] \in InsertPcs \/ (pc[t] \in SearchPcs /\ th[t].op = "hole")

PreloadInv(t) == MayAllocate(t) => Preloaded(t)

\* No locks are needed later, or none held at all.
FreshInv(t) ==
  /\ pc[t] \in SearchPcs \cup VerifyPcs \cup {"fast", "fastlock", "again", "headlock"} =>
       /\ th[t].cur = NoCursor
       /\ pc[t] \notin VerifyPcs => th[t].pr = NoNode
  /\ pc[t] \in (InsertPcs \ PlacePcs) \cup SearchPcs => th[t].ins = NoNode
  /\ pc[t] = "fastlock" => th[t].leaf \in Linked(0)
  /\ pc[t] = "headlock" =>
       /\ th[t].p = HeadNode
       /\ th[t].level \in 0..listLevel
       /\ th[t].level <= th[t].pending /\ th[t].pending <= th[t].level + 1
  /\ MayAllocate(t) => th[t].pending <= listLevel + 1

\* The walk with locks: p is locked, and the cursor complete above this level.
CursorInv(t) ==
  LET level == th[t].level
      cur == th[t].cur
  IN  /\ Has(t, th[t].p)
      /\ CursorHeld(t)
      /\ \A k \in 0..MaxLevel : k < level => cur[k] = NoNode
      /\ \A k \in 0..MaxLevel : level < k /\ k <= th[t].pending => cur[k] # NoNode
      /\ cur[level] # NoNode =>
           \A k \in 0..MaxLevel :
             level <= k /\ k <= th[t].pending => cur[k] = cur[level]
      /\ th[t].p = HeadNode => \A k \in 0..MaxLevel : cur[k] \in {NoNode, HeadNode}

NoLeaf == Linked(0) \subseteq dead

WalkInv(t) ==
  pc[t] \in WalkPcs =>
    /\ th[t].level \in 0..listLevel
    /\ th[t].p \in On(th[t].level)
    /\ th[t].pr = NoNode
    /\ IF Locking(t) THEN CursorInv(t) ELSE th[t].cur = NoCursor
    /\ pc[t] = "skip" =>
         /\ th[t].p = HeadNode
         /\ Locking(t) => th[t].cur[th[t].level] = HeadNode
    /\ pc[t] \in {"walklock", "compare", "recheck", "homelock"} =>
         th[t].leaf \in Linked(th[t].level)
    /\ pc[t] = "walklock" => Locking(t)
    /\ pc[t] \in {"recheck", "homelock"} => ~ Locking(t)
    /\ pc[t] = "compare" /\ Locking(t) =>
         /\ Has(t, th[t].leaf) /\ th[t].leaf # th[t].p
         /\ th[t].leaf \notin CursorNodes(t)
    /\ pc[t] = "down" /\ th[t].level = 0 => th[t].p = HeadNode /\ NoLeaf

VerifyInv(t) ==
  pc[t] \in VerifyPcs =>
    LET l == th[t].level + 1
    IN  /\ th[t].level \in 0..listLevel - 1 /\ th[t].level = th[t].pending
        /\ th[t].p \in On(l)
        /\ pc[t] = "verifyprev" => th[t].p # HeadNode /\ th[t].pr \in On(l)
        /\ pc[t] = "verifynode" =>
             IF th[t].p = HeadNode THEN th[t].pr = NoNode
             ELSE th[t].pr \in On(l) /\ Holds(t, th[t].pr)
        /\ pc[t] = "verifynext" => Has(t, th[t].p) /\ th[t].nx \in Linked(l)

EmptyInv(t) ==
  pc[t] = "empty" =>
    /\ th[t].p = HeadNode /\ Holds(t, HeadNode)
    /\ \A k \in 0..MaxLevel :
         th[t].cur[k] = IF k <= th[t].pending THEN HeadNode ELSE NoNode
    /\ NoLeaf

\* The leaf the range goes into is locked.  It may have died before, but then
\* it is empty, and takes the range; it does not have to be split.
PlaceInv(t) ==
  LET me == th[t]
      p == me.p
  IN  pc[t] \in PlacePcs =>
        /\ p \in Linked(0) /\ Holds(t, p)
        /\ me.ins \in {NoNode, p}
        /\ CursorHeld(t)
        /\ pc[t] = "overlap" =>
             /\ p \in dead => min[p] <= me.key /\ me.key < max[p]
             /\ Len(slots[p]) = Cap => \A k \in 0..me.pending : Ready(t, k)
        /\ pc[t] \in {"store", "split"} => me.slot \in 1..Len(slots[p]) + 1
        /\ pc[t] = "store" => Len(slots[p]) < Cap /\ (p \in dead => slots[p] = <<>>)
        /\ pc[t] = "split" =>
             Len(slots[p]) = Cap /\ p \notin dead /\ \A k \in 0..me.pending : Ready(t, k)

\* The new leaf comes to its levels from below, behind nodes that are locked;
\* in a list found empty, nothing else is on the levels to come.
LinkInv(t) ==
  LET me == th[t]
      new == me.new
  IN  Linking(t) \/ pc[t] = "shrink" =>
        /\ new \in used /\ me.i \in 0..height[new]
        /\ Has(t, me.p)
        /\ me.ins \in {NoNode, me.p}
        /\ CursorHeld(t)
        /\ me.p # HeadNode =>
             /\ me.p \in Linked(0)
             /\ me.slot \in 1..Cap + 1 /\ Len(slots[me.p]) = Cap
             /\ Has(t, new) /\ new # me.p /\ new \notin CursorNodes(t)
        /\ Linking(t) => \A k \in me.i..height[new] : Ready(t, k)
        /\ Linking(t) => \A k \in Levels :
             /\ k < me.i => new \in Linked(k)
             /\ k > me.i => new \notin Linked(k)
             /\ k > me.i /\ me.p = HeadNode => Linked(k) \subseteq dead
        /\ pc[t] \in {"link", "linklock"} =>
             /\ new \notin Linked(me.i)
             /\ me.p = HeadNode => Linked(me.i) \subseteq dead
        /\ pc[t] = "linklock" => me.nx \in Linked(me.i)
        /\ pc[t] = "linkback" =>
             /\ new \in Linked(me.i)
             /\ me.nx # NoNode =>
                  /\ me.nx \in Linked(me.i) /\ Holds(t, me.nx)
                  /\ me.nx \notin CursorNodes(t) \cup {me.p, new}
        /\ pc[t] = "shrink" => me.p # HeadNode /\ me.slot <= Cap

SearchInv(t) ==
  LET me == th[t]
  IN  /\ pc[t] \in {"seek", "examine", "stable", "holecheck"} =>
           me.level \in 0..listLevel /\ me.p \in On(me.level)
      /\ pc[t] \in {"examine", "stable", "grab", "holecheck"} => me.leaf \in Linked(0)
      /\ pc[t] = "examine" => me.leaf \in Linked(me.level)
      /\ pc[t] \in {"holelock", "holewalk", "holenext"} => me.p \in On(0)
      /\ pc[t] \in {"holecheck", "holelock", "holewalk", "holenext"} => me.op = "hole"
      /\ pc[t] \in {"holewalk", "holenext"} => Holds(t, me.p)
      /\ pc[t] = "holenext" => me.leaf \in Linked(0)

EraseInv(t) ==
  LET me == th[t]
  IN  pc[t] \in ErasePcs =>
        /\ me.leaf \in Linked(0) \cap dead
        /\ me.i \in 0..height[me.leaf]
        /\ pc[t] = "eraseprev" => me.pr \in On(me.i)
        /\ pc[t] \in {"erasenode", "erasegrab", "erasenext", "eraseback"} =>
             me.pr \in On(me.i) /\ Holds(t, me.pr)
        /\ pc[t] \in {"erasegrab", "erasenext", "eraseback"} =>
             Has(t, me.pr) /\ Holds(t, me.leaf)
        /\ pc[t] = "erasenext" => me.nx \in Linked(me.i)
        /\ pc[t] = "eraseback" /\ me.nx # NoNode =>
             me.nx \in Linked(me.i) /\ Holds(t, me.nx)

ThreadInv(t) ==
  /\ PreloadInv(t) /\ FreshInv(t) /\ WalkInv(t) /\ VerifyInv(t) /\ EmptyInv(t)
  /\ PlaceInv(t) /\ LinkInv(t) /\ SearchInv(t) /\ EraseInv(t)

\* No two threads link the same leaf.
NewInv ==
  \A t, u \in Threads :
    Linking(t) /\ Linking(u) /\ th[t].new = th[u].new => t = u

\* A dead leaf is empty, or has the one range that was stored into it since.
DeadInv ==
  \A n \in dead :
    \/ slots[n] = <<>>
    \/ Len(slots[n]) = 1 /\ min[n] = slots[n][1].key /\ max[n] = End(slots[n][1])

\* What a call is about is among the ranges.
ArgInv(t) == pc[t] # "rest" => Arg(t) \in Ranges

TypeInv ==
  /\ TypeOK
  /\ th \in [Threads -> Locals] /\ pc \in [Threads -> Labels]
  /\ slots \in [Leaves -> Seq(Ranges)]
  /\ toFill \in Seq(Named)
  /\ todo \in [Threads -> Seq([op : {"insert", "hole", "delete", "lookup"}, r : Named])]
  /\ \A t \in Threads, k \in Levels : preload[t][k] <= k

SkiplistInv ==
  /\ TypeInv /\ LinksInv /\ RankInv /\ ChainInv /\ NewInv /\ DeadInv
  /\ \A t \in Threads : ThreadInv(t) /\ ArgInv(t)

-----------------------------------------------------------------------------
(* Walks along a level *)

\* Past the nodes of dd that the links nx lead to from m.
Body(nx, dd, l, f, m) == IF m = NoNode \/ m \notin dd THEN m ELSE f[nx[m][l]]
Ends(nx, dd, l) == CHOOSE f : f = [m \in Nodes \cup {NoNode} |-> Body(nx, dd, l, f, m)]

LEMMA LiveNextEnds ==
  ASSUME NEW n, NEW l
  PROVE  LiveNext(n, l) = Ends(next, dead, l)[next[n][l]]
BY DEF LiveNext, Ends, Body

LEMMA LivePrevEnds ==
  ASSUME NEW n, NEW l, n # HeadNode
  PROVE  LivePrev(n, l) = Ends(prev, dead, l)[prev[n][l]]
BY DEF LivePrev, Ends, Body

\* The links of the dead nodes follow an order, here a measure that goes down.
Falls(nx, dd, l, N, mu) ==
  /\ N \in Nat /\ mu \in [Nodes -> 0..N] /\ dd \subseteq Nodes
  /\ \A m \in dd : nx[m][l] \in Maybe
  /\ \A m \in dd : nx[m][l] # NoNode => mu[nx[m][l]] < mu[m]

\* The walk as SkiplistLeafProofs has it.
Hop(nx, dd, l) == [m \in Maybe |-> IF m \in dd THEN nx[m][l] ELSE m]
Depth(mu) == [m \in Maybe |-> IF m = NoNode THEN 0 ELSE mu[m] + 1]
Itself == [m \in Maybe |-> m]

LEMMA NoNodeApart ==
  /\ NoNode \notin Nodes /\ Maybe = Nodes \cup {NoNode}
  /\ HeadNode \in Nodes /\ HeadNode \notin Leaves /\ Leaves \subseteq Nodes
  /\ NoNode # HeadNode /\ NoNode \notin Leaves
BY SkiplistAssumption DEF Maybe, Nodes

LEMMA LevelsDown ==
  /\ \A l \in Levels : l \in Nat /\ l < MaxLevel /\ \A k \in 0..l : k \in Levels
  /\ 0 \in Levels /\ MaxLevel \in Nat /\ MaxLevel >= 2
BY SkiplistAssumption DEF Levels

LEMMA FallsDescends ==
  ASSUME NEW nx, NEW dd, NEW l, NEW N, NEW mu, Falls(nx, dd, l, N, mu)
  PROVE  Descends(Maybe, Maybe \ dd, Hop(nx, dd, l), N + 1, Depth(mu))
<1> DEFINE step == Hop(nx, dd, l)
           nu == Depth(mu)
<1>1. step \in [Maybe -> Maybe]
  BY DEF Falls, Hop
<1>2. nu \in [Maybe -> 0..N + 1]
  BY NoNodeApart DEF Falls, Depth
<1>3. ASSUME NEW m \in dd PROVE nu[step[m]] < nu[m]
  <2>1. /\ m \in Nodes /\ step[m] = nx[m][l] /\ nu[m] = mu[m] + 1 /\ mu[m] \in Nat
        /\ m \in Maybe
    BY NoNodeApart DEF Falls, Hop, Depth
  <2>2. CASE nx[m][l] = NoNode
    BY <2>1, <2>2, NoNodeApart DEF Depth
  <2>3. CASE nx[m][l] # NoNode
    <3>1. nx[m][l] \in Nodes /\ mu[nx[m][l]] < mu[m] /\ mu[nx[m][l]] \in Nat
      BY <2>1, <2>3, NoNodeApart DEF Falls
    <3>2. nu[nx[m][l]] = mu[nx[m][l]] + 1
      BY <3>1, NoNodeApart, <2>3 DEF Depth
    <3>3. QED
      BY <3>1, <3>2, <2>1
  <2>4. QED
    BY <2>2, <2>3
<1>4. QED
  BY <1>1, <1>2, <1>3 DEF Descends, Falls

\* The function exists.
LEMMA EndsIs ==
  ASSUME NEW nx, NEW dd, NEW l, NEW N, NEW mu, Falls(nx, dd, l, N, mu)
  PROVE  \A m \in Maybe :
           Ends(nx, dd, l)[m] = IF m \in dd THEN Ends(nx, dd, l)[nx[m][l]] ELSE m
<1>1. PICK g : Follows(g, Maybe, Maybe \ dd, Itself, Hop(nx, dd, l))
  BY FallsDescends, WalkExists
<1>2. ASSUME NEW m \in Maybe PROVE g[m] = IF m \in dd THEN g[nx[m][l]] ELSE m
  BY <1>1 DEF Follows, Itself, Hop
<1>3. \E f : f = [m \in Nodes \cup {NoNode} |-> Body(nx, dd, l, f, m)]
  <2> DEFINE f == [m \in Nodes \cup {NoNode} |-> g[m]]
  <2>1. ASSUME NEW m \in Nodes \cup {NoNode} PROVE f[m] = Body(nx, dd, l, f, m)
    <3>1. m \in Maybe /\ f[m] = g[m]
      BY NoNodeApart
    <3>2. m \in dd => m # NoNode /\ nx[m][l] \in Nodes \cup {NoNode}
      BY NoNodeApart DEF Falls
    <3>3. QED
      BY <3>1, <3>2, <1>2 DEF Body
  <2>2. QED
    BY <2>1
<1>4. Ends(nx, dd, l) = [m \in Nodes \cup {NoNode} |-> Body(nx, dd, l, Ends(nx, dd, l), m)]
  BY <1>3 DEF Ends
<1>5. ASSUME NEW m \in Maybe
      PROVE  Ends(nx, dd, l)[m] = IF m \in dd THEN Ends(nx, dd, l)[nx[m][l]] ELSE m
  <2>1. Ends(nx, dd, l)[m] = Body(nx, dd, l, Ends(nx, dd, l), m)
    BY <1>4, NoNodeApart
  <2>2. m \in dd => m # NoNode
    BY NoNodeApart DEF Falls
  <2>3. QED
    BY <2>1, <2>2 DEF Body
<1>6. QED
  BY <1>5

\* Where the walk ends is not dead, and what its steps keep holds there.
LEMMA EndsIn ==
  ASSUME NEW nx, NEW dd, NEW l, NEW N, NEW mu, Falls(nx, dd, l, N, mu),
         NEW P \in SUBSET Maybe, \A m \in P : m \in dd => nx[m][l] \in P,
         NEW s \in P
  PROVE  Ends(nx, dd, l)[s] \in P \ dd
<1>1. Follows(Ends(nx, dd, l), Maybe, Maybe \ dd, Itself, Hop(nx, dd, l))
  <2>1. \A m \in Maybe :
          Ends(nx, dd, l)[m] = IF m \in dd THEN Ends(nx, dd, l)[nx[m][l]] ELSE m
    BY EndsIs
  <2> DEFINE E == Ends(nx, dd, l)
  <2> HIDE DEF E
  <2>2. QED
    BY <2>1 DEF Follows, Itself, Hop, E
<1>2. \A m \in P \ (Maybe \ dd) : Hop(nx, dd, l)[m] \in P
  BY DEF Hop
<1>3. \E y \in P \cap (Maybe \ dd) : Ends(nx, dd, l)[s] = Itself[y]
  <2>1. Descends(Maybe, Maybe \ dd, Hop(nx, dd, l), N + 1, Depth(mu))
    BY FallsDescends
  <2>2. PICK f, step, M, nu, S :
          /\ f = Ends(nx, dd, l) /\ step = Hop(nx, dd, l) /\ M = N + 1 /\ nu = Depth(mu)
          /\ S = Maybe \ dd
    OBVIOUS
  <2>3. Follows(f, Maybe, S, Itself, step) /\ Descends(Maybe, S, step, M, nu)
    BY <1>1, <2>1, <2>2
  <2>4. \A m \in P \ S : step[m] \in P
    BY <1>2, <2>2
  <2>5. \E y \in P \cap S : f[s] = Itself[y]
    BY <2>3, <2>4, WalkEnds
  <2>6. QED
    BY <2>2, <2>5
<1>4. QED
  BY <1>3 DEF Itself

\* Links and deaths that the walk does not meet do not change where it ends.
LEMMA EndsSame ==
  ASSUME NEW nx, NEW dd, NEW l, NEW N, NEW mu, Falls(nx, dd, l, N, mu),
         NEW nx1, NEW dd1, NEW N1, NEW mu1, Falls(nx1, dd1, l, N1, mu1),
         NEW P \in SUBSET Maybe,
         \A m \in P : m \in dd => nx[m][l] \in P /\ m \in dd1 /\ nx1[m][l] = nx[m][l],
         NEW s \in P
  PROVE  Ends(nx1, dd1, l)[s] = Ends(nx1, dd1, l)[Ends(nx, dd, l)[s]]
<1> DEFINE E == Ends(nx1, dd1, l)
           Q == {m \in P : E[m] = E[s]}
<1>1. ASSUME NEW m \in Q, m \in dd PROVE nx[m][l] \in Q
  <2>1. nx[m][l] \in P /\ m \in dd1 /\ nx1[m][l] = nx[m][l] /\ m \in Maybe
    BY <1>1
  <2>2. E[m] = E[nx[m][l]]
    BY <2>1, EndsIs
  <2>3. QED
    BY <2>1, <2>2
<1>2. s \in Q /\ Q \in SUBSET Maybe
  OBVIOUS
<1>3. Ends(nx, dd, l)[s] \in Q
  <2> HIDE DEF Q
  <2>1. QED BY <1>1, <1>2, EndsIn
<1>4. QED
  BY <1>3

\* The order of a level lets the walks along it end.
LEMMA NextFalls ==
  ASSUME NEW nx, NEW dd \in SUBSET Nodes, NEW l, NEW N \in Nat,
         NEW rank \in [Nodes -> 0..N],
         \A m \in dd : nx[m][l] \in Maybe,
         \A m \in dd : nx[m][l] # NoNode => rank[m] < rank[nx[m][l]]
  PROVE  Falls(nx, dd, l, N, [m \in Nodes |-> N - rank[m]])
<1> DEFINE mu == [m \in Nodes |-> N - rank[m]]
<1>1. mu \in [Nodes -> 0..N]
  OBVIOUS
<1>2. ASSUME NEW m \in dd, nx[m][l] # NoNode PROVE mu[nx[m][l]] < mu[m]
  <2>1. nx[m][l] \in Nodes /\ m \in Nodes
    BY <1>2, NoNodeApart
  <2>2. rank[m] \in 0..N /\ rank[nx[m][l]] \in 0..N /\ rank[m] < rank[nx[m][l]]
    BY <2>1, <1>2
  <2>3. QED
    BY <2>1, <2>2
<1>3. QED
  BY <1>1, <1>2 DEF Falls

LEMMA LevelFalls ==
  ASSUME dead \subseteq Leaves, LinksInv,
         NEW l \in Levels, NEW N, NEW rank, Ranks(l, N, rank)
  PROVE  /\ \E mu : Falls(next, dead, l, N, mu)
         /\ Falls(prev, dead, l, N, rank)
<1>1. dead \subseteq Nodes /\ Linked(l) \subseteq Nodes /\ On(l) \subseteq Nodes
  BY NoNodeApart DEF Linked, On
<1>2. \A m \in dead : next[m][l] \in Maybe /\ prev[m][l] \in Maybe
  BY <1>1, NoNodeApart DEF LinksInv
<1>3. Falls(next, dead, l, N, [m \in Nodes |-> N - rank[m]])
  BY <1>1, <1>2, NextFalls DEF Ranks
<1>4. Falls(prev, dead, l, N, rank)
  BY <1>1, <1>2 DEF Falls, Ranks
<1>5. QED
  BY <1>3, <1>4

\* What find_live_next() and find_live_prev() find is on the level, live, and
\* behind or in front of the node.
LEMMA LiveNextIs ==
  ASSUME dead \subseteq Leaves, LinksInv,
         NEW l \in Levels, NEW N, NEW rank, Ranks(l, N, rank), NEW n \in Nodes
  PROVE  /\ LiveNext(n, l) \in (Linked(l) \ dead) \cup {NoNode}
         /\ LiveNext(n, l) # NoNode => rank[n] < rank[LiveNext(n, l)]
<1> DEFINE P == {m \in Linked(l) : rank[n] < rank[m]} \cup {NoNode}
<1>1. NoNode \notin dead /\ Linked(l) \subseteq Leaves
  BY NoNodeApart DEF Linked
<1>2. P \in SUBSET Maybe
  BY <1>1, NoNodeApart
<1>3. next[n][l] \in P
  BY <1>1, NoNodeApart DEF LinksInv, Ranks
<1>4. ASSUME NEW m \in P, m \in dead PROVE next[m][l] \in P
  <2>1. m \in Linked(l) /\ m \in Nodes /\ rank[n] < rank[m]
    BY <1>4, <1>1, NoNodeApart
  <2>2. CASE next[m][l] = NoNode
    BY <2>2
  <2>3. CASE next[m][l] # NoNode
    <3>1. next[m][l] \in Linked(l) /\ rank[m] < rank[next[m][l]]
      BY <2>1, <2>3 DEF LinksInv, Ranks
    <3>2. rank[n] \in Nat /\ rank[m] \in Nat /\ rank[next[m][l]] \in Nat
      BY <3>1, <2>1, <1>1, NoNodeApart DEF Ranks
    <3>3. QED
      BY <3>1, <3>2, <2>1
  <2>4. QED
    BY <2>2, <2>3
<1>5. LiveNext(n, l) \in P \ dead
  <2> HIDE DEF P
  <2>1. Ends(next, dead, l)[next[n][l]] \in P \ dead
    <3>1. PICK mu : Falls(next, dead, l, N, mu)
      BY LevelFalls
    <3>2. QED
      BY <1>2, <1>3, <1>4, <3>1, EndsIn
  <2>2. QED
    BY <2>1, LiveNextEnds
<1>6. QED
  BY <1>5, <1>1

LEMMA LivePrevIs ==
  ASSUME dead \subseteq Leaves, LinksInv,
         NEW l \in Levels, NEW N, NEW rank, Ranks(l, N, rank), NEW n \in Leaves
  PROVE  /\ LivePrev(n, l) \in (On(l) \ dead) \cup {NoNode}
         /\ n \in Linked(l) => LivePrev(n, l) # NoNode
<1>1. NoNode \notin dead /\ On(l) \subseteq Nodes /\ NoNode \notin On(l)
  BY NoNodeApart DEF On, Linked
<1>2. n # HeadNode /\ n \in Nodes
  BY NoNodeApart
<1>3. ASSUME NEW m \in On(l), m \in dead PROVE prev[m][l] \in On(l)
  <2>1. m \in Linked(l) /\ m \in Nodes
    BY <1>3, <1>1, NoNodeApart DEF On
  <2>2. QED
    BY <2>1 DEF Linked, LinksInv
<1>4. prev[n][l] \in On(l) \/ (prev[n][l] = NoNode /\ n \notin Linked(l))
  BY <1>2 DEF LinksInv, Linked
<1>5. CASE prev[n][l] \in On(l)
  <2>1. On(l) \in SUBSET Maybe
    BY <1>1, NoNodeApart
  <2>2. Ends(prev, dead, l)[prev[n][l]] \in On(l) \ dead
    <3>1. Falls(prev, dead, l, N, rank)
      BY LevelFalls
    <3>2. QED
      BY <1>3, <1>5, <2>1, <3>1, EndsIn
  <2>3. QED
    BY <2>2, <1>1, <1>2, LivePrevEnds
<1>6. CASE prev[n][l] = NoNode /\ n \notin Linked(l)
  <2>1. Ends(prev, dead, l)[NoNode] = NoNode
    <3>1. Falls(prev, dead, l, N, rank)
      BY LevelFalls
    <3>2. QED
      BY <3>1, <1>1, EndsIs, NoNodeApart
  <2>2. QED
    BY <2>1, <1>2, <1>6, LivePrevEnds
<1>7. QED
  BY <1>4, <1>5, <1>6

\* A level whose head has no live node behind it has no live leaf.
LEMMA NoneLive ==
  ASSUME dead \subseteq Leaves, LinksInv, RankInv, ChainInv,
         NEW l \in Levels, LiveNext(HeadNode, l) = NoNode
  PROVE  Linked(l) \subseteq dead
<1>1. PICK N, rank : Ranks(l, N, rank)
  BY DEF RankInv
<1>2. SUFFICES ASSUME Linked(l) \ dead # {} PROVE FALSE
  OBVIOUS
<1> DEFINE T == {rank[n] : n \in Linked(l) \ dead}
<1>3. Linked(l) \subseteq Nodes /\ On(l) = Linked(l) \cup {HeadNode}
  BY NoNodeApart DEF Linked, On
<1>4. T \subseteq Nat /\ T # {}
  BY <1>1, <1>2, <1>3 DEF Ranks
<1>5. PICK r \in T : \A s \in T : r <= s
  BY <1>4, LeastNatural
<1>6. PICK n \in Linked(l) \ dead : rank[n] = r
  OBVIOUS
<1>7. PICK b \in On(l) \ dead : LiveNext(b, l) = n
  BY <1>6 DEF ChainInv
<1>8. b \in Nodes /\ n # NoNode /\ n \in Nodes
  BY <1>3, <1>6, NoNodeApart
<1>9. rank[b] < rank[n]
  BY <1>7, <1>8, <1>1, LiveNextIs
<1>10. CASE b = HeadNode
  BY <1>10, <1>7, <1>8
<1>11. CASE b \in Linked(l) \ dead
  <2>1. rank[b] \in T
    BY <1>11
  <2>2. rank[n] <= rank[b] /\ rank[b] \in Nat /\ rank[n] \in Nat
    BY <2>1, <1>5, <1>6, <1>4
  <2>3. QED
    BY <2>2, <1>9
<1>12. QED
  BY <1>7, <1>10, <1>11, <1>3

-----------------------------------------------------------------------------
(* A leaf comes to a level *)

\* new between b and nx, as in LinkForward.
LinkAt(i, b, new, nx) ==
  /\ next' = [next EXCEPT ![new][i] = nx, ![b][i] = new]
  /\ prev' = [prev EXCEPT ![new][i] = b]
  /\ UNCHANGED <<dead, used, height>>

\* new is still to come to level i, and nx is what is behind b.
MayLink(i, b, new, nx) ==
  /\ i \in Levels /\ b \in On(i) \ dead /\ new \in used \ Linked(i)
  /\ i <= height[new] /\ \A k \in 0..i : k < i => new \in Linked(k)
  /\ nx = LiveNext(b, i)

LinkTypes ==
  /\ next \in [Nodes -> [Levels -> Maybe]] /\ prev \in [Nodes -> [Levels -> Maybe]]
  /\ dead \subseteq used /\ used \subseteq Leaves /\ height \in [Leaves -> Levels]

LEMMA LinkPoints ==
  ASSUME LinkTypes, NEW i, NEW b, NEW new, NEW nx, LinkAt(i, b, new, nx),
         MayLink(i, b, new, nx)
  PROVE  /\ b \in Nodes /\ new \in Leaves /\ new \in Nodes /\ b # new
         /\ next[new] \in [Levels -> Maybe]
         /\ \A m \in Nodes, k \in Levels :
              /\ next'[m][k] = IF m = b /\ k = i THEN new
                               ELSE IF m = new /\ k = i THEN nx ELSE next[m][k]
              /\ prev'[m][k] = IF m = new /\ k = i THEN b ELSE prev[m][k]
<1>1. b \in Nodes /\ new \in Leaves /\ new \in Nodes /\ b # new
  BY NoNodeApart DEF MayLink, LinkTypes, On, Linked
<1>2. ASSUME NEW m \in Nodes, NEW k \in Levels
      PROVE  next'[m][k] = IF m = b /\ k = i THEN new
                           ELSE IF m = new /\ k = i THEN nx ELSE next[m][k]
  BY <1>1 DEF LinkAt, MayLink, LinkTypes
<1>3. ASSUME NEW m \in Nodes, NEW k \in Levels
      PROVE  prev'[m][k] = IF m = new /\ k = i THEN b ELSE prev[m][k]
  BY <1>1 DEF LinkAt, MayLink, LinkTypes
<1>4. QED
  BY <1>1, <1>2, <1>3 DEF LinkTypes

LEMMA LinkLinked ==
  ASSUME LinkTypes, NEW i, NEW b, NEW new, NEW nx, LinkAt(i, b, new, nx),
         MayLink(i, b, new, nx)
  PROVE  \A l \in Levels :
           Linked(l)' = IF l = i THEN Linked(l) \cup {new} ELSE Linked(l)
<1>1. b # NoNode
  BY LinkPoints, NoNodeApart
<1>2. QED
  BY <1>1, LinkPoints, NoNodeApart DEF Linked

LEMMA LinkLinks ==
  ASSUME LinkTypes, LinksInv, RankInv,
         NEW i, NEW b, NEW new, NEW nx, LinkAt(i, b, new, nx),
         MayLink(i, b, new, nx),
         \A u \in Threads : Linking(u) => Linking(u)' /\ th'[u].new = th[u].new
  PROVE  LinksInv'
<1>1. PICK N, rank : Ranks(i, N, rank)
  BY DEF MayLink, RankInv
<1>2. i \in Levels /\ dead \subseteq Leaves
  BY DEF MayLink, LinkTypes
<1>3. nx \in Linked(i) \cup {NoNode}
  BY <1>1, <1>2, LinkPoints, LiveNextIs DEF MayLink
<1>4. \A l \in Levels : Linked(l)' = IF l = i THEN Linked(l) \cup {new} ELSE Linked(l)
  BY LinkLinked
<1>5. \A l \in Levels : On(l)' = IF l = i THEN On(l) \cup {new} ELSE On(l)
  BY <1>4 DEF On
<1>6. b \in On(i) /\ new \in Leaves /\ b # new
  BY LinkPoints DEF MayLink
<1>7. ASSUME NEW l \in Levels, NEW n \in Nodes
      PROVE  /\ next'[n][l] \in Linked(l)' \cup {NoNode}
             /\ prev'[n][l] \in On(l)' \cup {NoNode}
  BY <1>3, <1>4, <1>5, <1>6, LinkPoints DEF LinksInv
<1>8. ASSUME NEW l \in Levels
      PROVE  /\ prev'[HeadNode][l] # HeadNode
             /\ \A n \in Leaves \ Linked(l)' : next'[n][l] = NoNode
             /\ \A n \in Linked(l)' :
                  /\ n \in used' /\ l <= height'[n]
                  /\ \A k \in 0..l : n \in Linked(k)'
  <2>1. prev'[HeadNode][l] = prev[HeadNode][l]
    BY <1>6, LinkPoints, NoNodeApart
  <2>2. ASSUME NEW n \in Leaves \ Linked(l)' PROVE next'[n][l] = NoNode
    <3>1. n \in Leaves \ Linked(l) /\ ~ (n = new /\ l = i) /\ n \in Nodes
      BY <1>4, <2>2, NoNodeApart
    <3>2. ~ (n = b /\ l = i)
      BY <3>1, <1>6, <2>2, NoNodeApart DEF On
    <3>3. next'[n][l] = next[n][l]
      BY <3>1, <3>2, LinkPoints
    <3>4. QED
      BY <3>1, <3>3 DEF LinksInv
  <2>3. ASSUME NEW n \in Linked(l)'
        PROVE  n \in used /\ l <= height[n] /\ \A k \in 0..l : n \in Linked(k)'
    <3>1. \A k \in 0..l : k \in Levels
      BY LevelsDown
    <3>2. CASE n \in Linked(l)
      BY <3>1, <3>2, <1>4 DEF LinksInv
    <3>3. CASE n = new /\ l = i
      <4>1. ASSUME NEW k \in 0..i PROVE n \in Linked(k)'
        <5>1. k = i \/ k < i
          BY <1>2, LevelsDown
        <5>2. QED
          BY <5>1, <3>1, <3>3, <1>4 DEF MayLink
      <4>2. QED
        BY <4>1, <3>3 DEF MayLink
    <3>4. QED
      BY <3>2, <3>3, <1>4
  <2>4. QED
    BY <2>1, <2>2, <2>3 DEF LinksInv, LinkAt
<1>9. ASSUME NEW n \in used'
      PROVE  \/ \A l \in 0..height'[n] : n \in Linked(l)'
             \/ \E u \in Threads : Linking(u)' /\ th'[u].new = n
  <2>1. n \in used /\ height'[n] = height[n] /\ n \in Leaves
    BY DEF LinkAt, LinkTypes
  <2>2. \A l \in 0..height[n] : l \in Levels
    BY <2>1, LevelsDown DEF LinkTypes
  <2>3. QED
    BY <2>1, <2>2, <1>4 DEF LinksInv
<1>10. QED
  BY <1>7, <1>8, <1>9 DEF LinksInv

\* The order makes room for new right behind b.
Shifted(rank, b, new) ==
  [m \in Nodes |-> IF m = new THEN rank[b] + 1
                   ELSE IF rank[m] > rank[b] THEN rank[m] + 1 ELSE rank[m]]

LEMMA ShiftedOrder ==
  ASSUME NEW N \in Nat, NEW rank \in [Nodes -> 0..N], NEW b \in Nodes,
         NEW new \in Nodes, b # new
  PROVE  /\ Shifted(rank, b, new) \in [Nodes -> 0..N + 1]
         /\ Shifted(rank, b, new)[b] < Shifted(rank, b, new)[new]
         /\ \A m \in Nodes \ {new} : rank[b] < rank[m] =>
              Shifted(rank, b, new)[new] < Shifted(rank, b, new)[m]
         /\ \A m, n \in Nodes \ {new} : rank[m] < rank[n] =>
              Shifted(rank, b, new)[m] < Shifted(rank, b, new)[n]
BY DEF Shifted

LEMMA LinkRank ==
  ASSUME LinkTypes, LinksInv, RankInv, NewInv,
         \A u \in Threads : LinkInv(u) /\ EraseInv(u),
         NEW t \in Threads, NEW i, NEW b, NEW new, NEW nx, LinkAt(i, b, new, nx),
         MayLink(i, b, new, nx),
         Linking(t), th[t].new = new, th'[t].new = new, th'[t].nx = nx,
         th'[t].i = i, pc'[t] = "linkback",
         \A u \in Threads \ {t} : th'[u] = th[u] /\ pc'[u] = pc[u]
  PROVE  RankInv'
<1>1. PICK N, rank : Ranks(i, N, rank)
  BY DEF MayLink, RankInv
<1>2. i \in Levels /\ dead \subseteq Leaves
  BY DEF MayLink, LinkTypes
<1>3. nx \in Linked(i) \cup {NoNode} /\ (nx # NoNode => rank[b] < rank[nx])
  BY <1>1, <1>2, LinkPoints, LiveNextIs DEF MayLink
<1>4. b \in Nodes /\ new \in Nodes /\ b # new /\ new \notin On(i) /\ b \in On(i)
  BY LinkPoints, NoNodeApart DEF MayLink, On
<1>5. On(i) \subseteq Nodes \ {new} /\ Linked(i) \subseteq Nodes \ {new}
  BY <1>4, NoNodeApart DEF On, Linked
<1> DEFINE new_rank == Shifted(rank, b, new)
<1>6. /\ N \in Nat /\ rank \in [Nodes -> 0..N] /\ N + 1 \in Nat
      /\ new_rank \in [Nodes -> 0..N + 1]
      /\ new_rank[b] < new_rank[new]
      /\ \A m \in Nodes \ {new} : rank[b] < rank[m] => new_rank[new] < new_rank[m]
      /\ \A m, n \in Nodes \ {new} : rank[m] < rank[n] => new_rank[m] < new_rank[n]
  BY <1>1, <1>4, ShiftedOrder DEF Ranks
<1> HIDE DEF new_rank
<1>7. ASSUME NEW n \in Nodes, next'[n][i] # NoNode
      PROVE  new_rank[n] < new_rank[next'[n][i]]
  <2>1. CASE n = b
    BY <2>1, <1>2, <1>4, <1>6, LinkPoints
  <2>2. CASE n = new
    BY <2>2, <1>2, <1>3, <1>4, <1>5, <1>6, <1>7, LinkPoints
  <2>3. CASE n # b /\ n # new
    <3>1. next'[n][i] = next[n][i]
      BY <2>3, <1>2, LinkPoints
    <3>2. next[n][i] \in Linked(i) /\ rank[n] < rank[next[n][i]]
      BY <3>1, <1>1, <1>2, <1>7 DEF LinksInv, Ranks
    <3>3. QED
      BY <3>1, <3>2, <2>3, <1>5, <1>6
  <2>4. QED
    BY <2>1, <2>2, <2>3
<1>8. ASSUME NEW n \in Leaves, prev'[n][i] # NoNode
      PROVE  new_rank[prev'[n][i]] < new_rank[n]
  <2>1. CASE n = new
    BY <2>1, <1>2, <1>4, <1>6, LinkPoints
  <2>2. CASE n # new
    <3>1. prev'[n][i] = prev[n][i] /\ n \in Nodes \ {new}
      BY <2>2, <1>2, LinkPoints, NoNodeApart
    <3>2. prev[n][i] \in On(i) /\ rank[prev[n][i]] < rank[n]
      BY <3>1, <1>1, <1>2, <1>8 DEF LinksInv, Ranks
    <3>3. QED
      BY <3>1, <3>2, <1>5, <1>6
  <2>3. QED
    BY <2>1, <2>2
<1>9. ASSUME NEW u \in Threads, th'[u].i = i, th'[u].nx # NoNode
      PROVE  /\ pc'[u] = "linkback" => new_rank[th'[u].new] < new_rank[th'[u].nx]
             /\ pc'[u] = "eraseback" => new_rank[th'[u].pr] < new_rank[th'[u].nx]
  <2>1. CASE u = t
    BY <2>1, <1>9, <1>3, <1>5, <1>6
  <2>2. CASE u # t
    <3>1. th'[u] = th[u] /\ pc'[u] = pc[u] /\ th[u].i = i /\ th[u].nx # NoNode
      BY <2>2, <1>9
    <3>2. ASSUME pc[u] = "linkback"
          PROVE  new_rank[th[u].new] < new_rank[th[u].nx]
      <4>1. Linking(u)
        BY <3>2 DEF Linking
      <4>2. th[u].new # new
        BY <4>1, <2>2 DEF NewInv
      <4>3. th[u].new \in Linked(i) /\ th[u].nx \in Linked(i)
        BY <3>1, <3>2, <4>1 DEF LinkInv
      <4>4. rank[th[u].new] < rank[th[u].nx]
        BY <3>1, <3>2, <1>1 DEF Ranks
      <4>5. QED
        BY <4>3, <4>4, <1>5, <1>6
    <3>3. ASSUME pc[u] = "eraseback"
          PROVE  new_rank[th[u].pr] < new_rank[th[u].nx]
      <4>1. th[u].pr \in On(i) /\ th[u].nx \in Linked(i)
        BY <3>1, <3>3 DEF EraseInv, ErasePcs
      <4>2. rank[th[u].pr] < rank[th[u].nx]
        BY <3>1, <3>3, <1>1 DEF Ranks
      <4>3. QED
        BY <4>1, <4>2, <1>5, <1>6
    <3>4. QED
      BY <3>1, <3>2, <3>3
  <2>3. QED
    BY <2>1, <2>2
<1>10. Ranks(i, N + 1, new_rank)'
  BY <1>6, <1>7, <1>8, <1>9 DEF Ranks
<1>11. ASSUME NEW l \in Levels, l # i PROVE \E M, r : Ranks(l, M, r)'
  <2>1. PICK M, r : Ranks(l, M, r)
    BY DEF RankInv
  <2>2. \A n \in Nodes : next'[n][l] = next[n][l] /\ prev'[n][l] = prev[n][l]
    BY <1>11, LinkPoints
  <2>3. \A u \in Threads : th'[u].i = l => th'[u] = th[u] /\ pc'[u] = pc[u]
    BY <1>11
  <2>4. Ranks(l, M, r)'
    BY <2>1, <2>2, <2>3, NoNodeApart DEF Ranks
  <2>5. QED
    BY <2>4
<1>12. QED
  BY <1>10, <1>11 DEF RankInv

\* On every level, the walks along the forward links end.
WalksEnd == \A l \in Levels : \E N, mu : Falls(next, dead, l, N, mu)

LEMMA NextWalksEnd == dead \subseteq Leaves /\ LinksInv /\ RankInv => WalksEnd
<1> SUFFICES ASSUME dead \subseteq Leaves, LinksInv, RankInv, NEW l \in Levels
             PROVE  \E N, mu : Falls(next, dead, l, N, mu)
  BY DEF WalksEnd
<1>1. PICK N, rank : Ranks(l, N, rank)
  BY DEF RankInv
<1>2. \E mu : Falls(next, dead, l, N, mu)
  BY <1>1, LevelFalls
<1>3. QED
  BY <1>2

\* A walk along a level that meets neither a new link nor a node that has come
\* back ends where it ended before, or goes on from there.
LEMMA LiveNextStays ==
  ASSUME dead \subseteq Leaves, LinksInv, RankInv,
         (dead \subseteq Leaves)', LinksInv', RankInv',
         NEW l \in Levels, NEW P \in SUBSET Maybe,
         \A m \in P : m \in dead =>
           next[m][l] \in P /\ m \in dead' /\ next'[m][l] = next[m][l],
         NEW n \in Nodes, next'[n][l] = next[n][l], next[n][l] \in P
  PROVE  /\ LiveNext(n, l)' = Ends(next', dead', l)[LiveNext(n, l)]
         /\ LiveNext(n, l) \in P
         /\ LiveNext(n, l) \notin dead' => LiveNext(n, l)' = LiveNext(n, l)
<1>1. PICK N, mu : Falls(next, dead, l, N, mu)
  BY NextWalksEnd DEF WalksEnd
<1>2. PICK N1, mu1 : Falls(next', dead', l, N1, mu1)
  <2>1. (dead \subseteq Leaves /\ LinksInv /\ RankInv => WalksEnd)'
    BY NextWalksEnd, PTL
  <2>2. QED
    BY <2>1 DEF WalksEnd
<1>3. LiveNext(n, l) = Ends(next, dead, l)[next[n][l]]
  BY LiveNextEnds
<1>4. LiveNext(n, l)' = Ends(next', dead', l)[next[n][l]]
  BY DEF LiveNext, Ends, Body
<1>5. Ends(next', dead', l)[next[n][l]]
      = Ends(next', dead', l)[Ends(next, dead, l)[next[n][l]]]
  BY <1>1, <1>2, EndsSame
<1>6. Ends(next, dead, l)[next[n][l]] \in P
  BY <1>1, EndsIn
<1>7. LiveNext(n, l) \in P /\ LiveNext(n, l) \in Maybe
  BY <1>3, <1>6
<1>8. LiveNext(n, l) \notin dead' =>
        Ends(next', dead', l)[LiveNext(n, l)] = LiveNext(n, l)
  BY <1>2, <1>7, EndsIs
<1>9. QED
  BY <1>3, <1>4, <1>5, <1>7, <1>8

\* The links lead to nodes or nowhere.
LEMMA LinksType ==
  LinksInv => \A m \in Nodes, l \in Levels : next[m][l] \in Maybe /\ prev[m][l] \in Maybe
<1> SUFFICES ASSUME LinksInv, NEW m \in Nodes, NEW l \in Levels
             PROVE  next[m][l] \in Maybe /\ prev[m][l] \in Maybe
  OBVIOUS
<1>1. Linked(l) \subseteq Nodes /\ On(l) \subseteq Nodes
  BY NoNodeApart DEF Linked, On
<1>2. QED
  BY <1>1, NoNodeApart DEF LinksInv

\* A new leaf that has died already comes to a level without live leaves.
LEMMA LinkChain ==
  ASSUME LinkTypes, LinksInv, RankInv, ChainInv, LinksInv', RankInv',
         NEW i, NEW b, NEW new, NEW nx, LinkAt(i, b, new, nx),
         MayLink(i, b, new, nx), new \in dead => Linked(i) \subseteq dead
  PROVE  ChainInv'
<1>1. /\ dead \subseteq Leaves /\ dead' = dead /\ (dead \subseteq Leaves)'
      /\ i \in Levels /\ b \in On(i) /\ b \notin dead /\ new \notin Linked(i)
  BY DEF LinkTypes, LinkAt, MayLink
<1>2. /\ b \in Nodes /\ new \in Leaves /\ new \in Nodes /\ b # new
      /\ \A m \in Nodes, k \in Levels :
           next'[m][k] = IF m = b /\ k = i THEN new
                         ELSE IF m = new /\ k = i THEN nx ELSE next[m][k]
  BY LinkPoints
<1>3. \A l \in Levels : Linked(l)' = IF l = i THEN Linked(l) \cup {new} ELSE Linked(l)
  BY LinkLinked
<1>4. \A l \in Levels : Linked(l) \subseteq Nodes /\ On(l) \subseteq Nodes
  BY NoNodeApart DEF Linked, On
<1>5. PICK N, mu : Falls(next', dead', i, N, mu)
  <2>1. (dead \subseteq Leaves /\ LinksInv /\ RankInv => WalksEnd)'
    BY NextWalksEnd, PTL
  <2>2. QED
    BY <2>1, <1>1 DEF WalksEnd
<1>6. \A n \in Nodes : LiveNext(n, i)' = Ends(next', dead', i)[next'[n][i]]
  BY DEF LiveNext, Ends, Body
<1>7. \A m \in Maybe : Ends(next', dead', i)[m] =
        IF m \in dead THEN Ends(next', dead', i)[next'[m][i]] ELSE m
  BY <1>1, <1>5, EndsIs
<1>8. nx = LiveNext(b, i)
  BY DEF MayLink
<1>9. nx \in (Linked(i) \ dead) \cup {NoNode}
  <2>1. PICK M, rank : Ranks(i, M, rank)
    BY <1>1 DEF RankInv
  <2>2. QED
    BY <2>1, <1>1, <1>2, <1>8, LiveNextIs
<1>10. ASSUME NEW l \in Levels, NEW n \in Linked(l)' \ dead
       PROVE  \E c \in On(l)' \ dead : LiveNext(c, l)' = n
  <2>1. CASE l = i /\ n = new
    <3>1. LiveNext(b, i)' = new
      BY <1>1, <1>2, <1>6, <1>7, <1>10, <2>1, NoNodeApart
    <3>2. b \in On(i)' \ dead
      BY <1>1, <1>3 DEF On
    <3>3. QED
      BY <3>1, <3>2, <2>1
  <2>2. CASE l = i /\ n # new /\ n = nx
    <3>1. n \in Linked(i) \ dead
      BY <1>1, <1>3, <1>10, <2>2
    <3>2. new \notin dead
      BY <3>1
    <3>3. nx \in Maybe /\ new \in Maybe
      BY <1>2, <3>1, <2>2, <1>1, <1>4, NoNodeApart
    <3>4. LiveNext(new, i)' = nx
      BY <1>1, <1>2, <1>6, <1>7, <3>1, <3>3, <2>2
    <3>5. new \in On(i)' \ dead
      BY <1>1, <1>3, <3>2 DEF On
    <3>6. QED
      BY <3>4, <3>5, <2>2
  <2>3. CASE ~ (l = i /\ (n = new \/ n = nx))
    <3>1. n \in Linked(l) \ dead
      BY <1>3, <1>10, <2>3
    <3>2. PICK c \in On(l) \ dead : LiveNext(c, l) = n
      BY <3>1 DEF ChainInv
    <3>3. c \in Nodes /\ (l = i => c # b /\ c # new)
      BY <3>2, <1>1, <1>2, <1>4, <1>8, <2>3, NoNodeApart DEF On
    <3>4. next'[c][l] = next[c][l]
      BY <3>3, <1>2
    <3> DEFINE P == {m \in Maybe : l = i => m # new}
    <3>5. ASSUME NEW m \in Nodes PROVE next[m][l] \in P
      BY <1>1, <1>2, LinksType, NoNodeApart DEF LinksInv
    <3>6. ASSUME NEW m \in P, m \in dead
          PROVE  next[m][l] \in P /\ next'[m][l] = next[m][l]
      <4>1. m \in Nodes /\ (l = i => m # new /\ m # b)
        BY <3>6, <1>1, NoNodeApart
      <4>2. QED
        BY <4>1, <3>5, <1>2
    <3>7. P \in SUBSET Maybe /\ next[c][l] \in P
      BY <3>3, <3>5
    <3> HIDE DEF P
    <3>8. LiveNext(c, l) \notin dead' => LiveNext(c, l)' = LiveNext(c, l)
      BY <1>1, <3>3, <3>4, <3>6, <3>7, LiveNextStays
    <3>9. c \in On(l)' \ dead
      BY <3>2, <1>3 DEF On
    <3>10. QED
      BY <3>1, <3>2, <3>8, <3>9, <1>1
  <2>4. QED
    BY <2>1, <2>2, <2>3
<1>11. QED
  BY <1>1, <1>10 DEF ChainInv

-----------------------------------------------------------------------------
(* What else happens to the levels *)

Others(t) == \A u \in Threads \ {t} : th'[u] = th[u] /\ pc'[u] = pc[u]

\* t is not about to set a link, and its new leaf is linked or still being
\* linked; leaves allocated now are being linked too.
Settled(t) ==
  /\ Others(t)
  /\ pc'[t] \notin {"linkback", "eraseback"}
  /\ Linking(t) =>
       \/ Linking(t)' /\ th'[t].new = th[t].new
       \/ \A l \in 0..height[th[t].new] : th[t].new \in Linked(l)
  /\ used \subseteq used' /\ \A n \in used : height'[n] = height[n]
  /\ \A n \in used' \ used : Linking(t)' /\ th'[t].new = n

LEMMA SettledLinks ==
  ASSUME LinkTypes, LinksInv, NEW t \in Threads, Settled(t), next' = next,
         \A l \in Levels : Linked(l)' = Linked(l),
         \A l \in Levels, n \in Nodes : prev'[n][l] \in On(l) \cup {NoNode},
         \A l \in Levels : prev'[HeadNode][l] # HeadNode
  PROVE  LinksInv'
<1>1. \A l \in Levels : On(l)' = On(l)
  BY DEF On
<1>2. ASSUME NEW l \in Levels, NEW n \in Linked(l)'
      PROVE  n \in used' /\ l <= height'[n] /\ \A k \in 0..l : n \in Linked(k)'
  BY <1>2, LevelsDown DEF LinksInv, Settled
<1>3. ASSUME NEW n \in used'
      PROVE  \/ \A l \in 0..height'[n] : n \in Linked(l)'
             \/ \E u \in Threads : Linking(u)' /\ th'[u].new = n
  <2>1. CASE n \in used' \ used
    BY <2>1 DEF Settled
  <2>2. CASE n \in used
    <3>1. height'[n] = height[n] /\ \A l \in 0..height[n] : l \in Levels
      BY <2>2, LevelsDown DEF Settled, LinkTypes
    <3>2. CASE \A l \in 0..height[n] : n \in Linked(l)
      BY <3>1, <3>2
    <3>3. CASE \E u \in Threads : Linking(u) /\ th[u].new = n
      <4>1. PICK u \in Threads : Linking(u) /\ th[u].new = n
        BY <3>3
      <4>2. CASE u = t
        BY <3>1, <4>1, <4>2 DEF Settled
      <4>3. CASE u # t
        BY <4>1, <4>3 DEF Settled, Others, Linking
      <4>4. QED
        BY <4>2, <4>3
    <3>4. QED
      BY <3>2, <3>3, <2>2 DEF LinksInv
  <2>3. QED
    BY <2>1, <2>2
<1>4. QED
  BY <1>1, <1>2, <1>3 DEF LinksInv

\* Links as they were, or with one way back that follows the order.
LEMMA SettledRank ==
  ASSUME RankInv, NEW t \in Threads, Settled(t), next' = next,
         \A l \in Levels : \A N, rank : Ranks(l, N, rank) =>
           \A n \in Leaves : prev'[n][l] # NoNode => rank[prev'[n][l]] < rank[n]
  PROVE  RankInv'
<1>1. ASSUME NEW l \in Levels PROVE \E N, rank : Ranks(l, N, rank)'
  <2>1. PICK N, rank : Ranks(l, N, rank)
    BY DEF RankInv
  <2>2. \A u \in Threads : pc'[u] \in {"linkback", "eraseback"} =>
          th'[u] = th[u] /\ pc'[u] = pc[u]
    BY DEF Settled, Others
  <2>3. \A n \in Leaves : prev'[n][l] # NoNode => rank[prev'[n][l]] < rank[n]
    BY <2>1
  <2>4. Ranks(l, N, rank)'
    BY <2>1, <2>2, <2>3 DEF Ranks
  <2>5. QED
    BY <2>4
<1>2. QED
  BY <1>1 DEF RankInv

LEMMA SameChain ==
  ASSUME LinkTypes, ChainInv, next' = next, dead' = dead,
         \A l \in Levels : Linked(l)' = Linked(l)
  PROVE  /\ ChainInv'
         /\ \A n, l : LiveNext(n, l)' = LiveNext(n, l)
<1>1. \A n, l : LiveNext(n, l)' = LiveNext(n, l)
  BY DEF LiveNext
<1>2. \A l \in Levels : On(l)' = On(l)
  BY DEF On
<1>3. QED
  BY <1>1, <1>2 DEF ChainInv

\* The levels stay as they are.
LEMMA LevelsKept ==
  ASSUME LinkTypes, LinksInv, RankInv, NEW t \in Threads, Settled(t),
         UNCHANGED links
  PROVE  LinksInv' /\ RankInv' /\ \A l \in Levels : Linked(l)' = Linked(l)
<1>1. next' = next /\ prev' = prev
  BY DEF links
<1>2. \A l \in Levels : Linked(l)' = Linked(l)
  BY <1>1 DEF Linked
<1>3. LinksInv'
  BY <1>1, <1>2, SettledLinks, NoNodeApart DEF LinksInv
<1>4. \A l \in Levels : \A N, rank : Ranks(l, N, rank) =>
        \A n \in Leaves : prev'[n][l] # NoNode => rank[prev'[n][l]] < rank[n]
  BY <1>1 DEF Ranks
<1>5. RankInv'
  BY <1>1, <1>4, SettledRank
<1>6. QED
  BY <1>2, <1>3, <1>5

\* One way back changes, as in LinkBack and EraseBack.
LEMMA BackKept ==
  ASSUME LinkTypes, LinksInv, RankInv, ChainInv, NEW t \in Threads, Settled(t),
         next' = next, dead' = dead,
         NEW i \in Levels, NEW n, NEW v, prev' = [prev EXCEPT ![n][i] = v],
         \/ n = HeadNode /\ v \in Linked(i) \cup {NoNode}
         \/ /\ n \in Linked(i) /\ v \in On(i)
            /\ \A N, rank : Ranks(i, N, rank) => rank[v] < rank[n]
  PROVE  /\ LinksInv' /\ RankInv' /\ ChainInv'
         /\ \A l \in Levels : Linked(l)' = Linked(l)
<1>1. Linked(i) \subseteq Leaves /\ NoNode \notin On(i) /\ n \in Nodes
  BY NoNodeApart DEF Linked, On
<1>2. \A m \in Nodes, l \in Levels :
        prev'[m][l] = IF m = n /\ l = i THEN v ELSE prev[m][l]
  BY <1>1 DEF LinkTypes
<1>3. \A l \in Levels : Linked(l)' = Linked(l)
  BY <1>1, <1>2, NoNodeApart DEF Linked
<1>4. \A l \in Levels, m \in Nodes : prev'[m][l] \in On(l) \cup {NoNode}
  BY <1>2 DEF LinksInv, On
<1>5. \A l \in Levels : prev'[HeadNode][l] # HeadNode
  BY <1>1, <1>2, NoNodeApart DEF LinksInv
<1>6. LinksInv'
  BY <1>3, <1>4, <1>5, SettledLinks
<1>7. ASSUME NEW l \in Levels, NEW N, NEW rank, Ranks(l, N, rank),
             NEW m \in Leaves, prev'[m][l] # NoNode
      PROVE  rank[prev'[m][l]] < rank[m]
  BY <1>2, <1>7, NoNodeApart DEF Ranks
<1>8. RankInv'
  BY <1>7, SettledRank
<1>9. QED
  BY <1>3, <1>6, <1>8, SameChain

\* An unlocked way past the dead, as in Bypass.
LEMMA BypassKept ==
  ASSUME LinkTypes, LinksInv, RankInv, ChainInv, NEW t \in Threads, Others(t),
         ~ Linking(t), pc'[t] = "eraseback",
         NEW i \in Levels, NEW pr \in On(i) \ dead, NEW nx, nx = LiveNext(pr, i),
         next' = [next EXCEPT ![pr][i] = nx],
         UNCHANGED <<prev, dead, used, height>>,
         th'[t].i = i, th'[t].pr = pr, th'[t].nx = nx
  PROVE  /\ LinksInv' /\ RankInv' /\ ChainInv'
         /\ \A l \in Levels : Linked(l)' = Linked(l)
<1>1. /\ dead \subseteq Leaves /\ dead' = dead /\ (dead \subseteq Leaves)'
      /\ \A l \in Levels : Linked(l) \subseteq Nodes /\ On(l) \subseteq Nodes
      /\ pr \in Nodes
  BY NoNodeApart DEF LinkTypes, Linked, On
<1>2. \A m \in Nodes, l \in Levels :
        next'[m][l] = IF m = pr /\ l = i THEN nx ELSE next[m][l]
  BY <1>1 DEF LinkTypes
<1>3. \A l \in Levels : Linked(l)' = Linked(l) /\ On(l)' = On(l)
  BY DEF Linked, On
<1>4. PICK N, rank : Ranks(i, N, rank)
  BY DEF RankInv
<1>5. nx \in (Linked(i) \ dead) \cup {NoNode} /\ (nx # NoNode => rank[pr] < rank[nx])
  BY <1>1, <1>4, LiveNextIs
<1>6. LinksInv'
  <2>1. \A l \in Levels, n \in Nodes :
          next'[n][l] \in Linked(l)' \cup {NoNode} /\ prev'[n][l] \in On(l)' \cup {NoNode}
    BY <1>2, <1>3, <1>5 DEF LinksInv
  <2>2. \A l \in Levels : \A n \in Leaves \ Linked(l)' : next'[n][l] = NoNode
    BY <1>1, <1>2, <1>3, NoNodeApart DEF LinksInv, On
  <2>3. ASSUME NEW l \in Levels, NEW n \in Linked(l)'
        PROVE  n \in used /\ l <= height[n] /\ \A k \in 0..l : n \in Linked(k)'
    BY <1>3, <2>3, LevelsDown DEF LinksInv
  <2>4. ASSUME NEW n \in used
        PROVE  \/ \A l \in 0..height[n] : n \in Linked(l)'
               \/ \E u \in Threads : Linking(u)' /\ th'[u].new = n
    <3>1. \A l \in 0..height[n] : l \in Levels
      BY <2>4, LevelsDown DEF LinkTypes
    <3>2. \A u \in Threads : Linking(u) => Linking(u)' /\ th'[u].new = th[u].new
      BY DEF Others, Linking
    <3>3. QED
      BY <3>1, <3>2, <1>3 DEF LinksInv
  <2>5. QED
    BY <2>1, <2>2, <2>3, <2>4 DEF LinksInv
<1>7. RankInv'
  <2>1. Ranks(i, N, rank)'
    <3>1. \A n \in Nodes : next'[n][i] # NoNode => rank[n] < rank[next'[n][i]]
      BY <1>2, <1>4, <1>5 DEF Ranks
    <3>2. ASSUME NEW u \in Threads, th'[u].i = i, th'[u].nx # NoNode
          PROVE  /\ pc'[u] = "linkback" => rank[th'[u].new] < rank[th'[u].nx]
                 /\ pc'[u] = "eraseback" => rank[th'[u].pr] < rank[th'[u].nx]
      BY <3>2, <1>4, <1>5 DEF Ranks, Others
    <3>3. QED
      BY <1>4, <3>1, <3>2 DEF Ranks
  <2>2. ASSUME NEW l \in Levels, l # i PROVE \E M, r : Ranks(l, M, r)'
    <3>1. PICK M, r : Ranks(l, M, r)
      BY DEF RankInv
    <3>2. \A n \in Nodes : next'[n][l] = next[n][l]
      BY <1>2, <2>2
    <3>3. \A u \in Threads : th'[u].i = l => th'[u] = th[u] /\ pc'[u] = pc[u]
      BY <2>2 DEF Others
    <3>4. Ranks(l, M, r)'
      BY <3>1, <3>2, <3>3, NoNodeApart DEF Ranks
    <3>5. QED
      BY <3>4
  <2>3. QED
    BY <2>1, <2>2 DEF RankInv
<1>8. ASSUME NEW l \in Levels, NEW n \in Linked(l)' \ dead
      PROVE  \E c \in On(l)' \ dead : LiveNext(c, l)' = n
  <2>1. PICK c \in On(l) \ dead : LiveNext(c, l) = n
    BY <1>3, <1>8 DEF ChainInv
  <2>2. CASE c = pr /\ l = i
    <3>1. PICK M, mu : Falls(next', dead', i, M, mu)
      <4>1. (dead \subseteq Leaves /\ LinksInv /\ RankInv => WalksEnd)'
        BY NextWalksEnd, PTL
      <4>2. QED
        BY <4>1, <1>1, <1>6, <1>7 DEF WalksEnd
    <3>2. nx \in Maybe /\ nx \notin dead'
      BY <2>1, <2>2, <1>1, <1>3, <1>8, NoNodeApart
    <3>3. Ends(next', dead', i)[nx] = nx
      BY <3>1, <3>2, EndsIs
    <3>4. LiveNext(c, l)' = Ends(next', dead', l)[next'[c][l]]
      BY DEF LiveNext, Ends, Body
    <3>5. LiveNext(c, l)' = n
      <4>1. n = nx
        BY <2>1, <2>2
      <4>2. next'[c][l] = nx
        BY <2>2, <1>1, <1>2
      <4>3. QED
        BY <4>1, <4>2, <3>3, <3>4, <2>2
    <3>6. QED
      BY <3>5, <2>1, <1>3
  <2>3. CASE ~ (c = pr /\ l = i)
    <3>1. \A m \in Maybe : m \in dead =>
            next[m][l] \in Maybe /\ m \in dead' /\ next'[m][l] = next[m][l]
      BY <1>1, <1>2, LinksType, NoNodeApart
    <3>2. next'[c][l] = next[c][l] /\ next[c][l] \in Maybe /\ c \in Nodes
      BY <2>1, <2>3, <1>1, <1>2, LinksType
    <3>3. LiveNext(c, l) \notin dead' => LiveNext(c, l)' = LiveNext(c, l)
      BY <3>1, <3>2, <1>1, <1>6, <1>7, LiveNextStays
    <3>4. QED
      BY <3>3, <2>1, <1>1, <1>3, <1>8
  <2>4. QED
    BY <2>2, <2>3
<1>9. QED
  BY <1>1, <1>3, <1>6, <1>7, <1>8 DEF ChainInv

\* A leaf dies, as in Grab: whatever was behind it is behind the node in front.
LEMMA GrabChain ==
  ASSUME LinkTypes, LinksInv, RankInv, ChainInv, LinksInv', RankInv',
         (dead \subseteq Leaves)', UNCHANGED links, NEW n \in Leaves \ dead,
         dead' = dead \cup {n}
  PROVE  ChainInv'
<1>1. /\ dead \subseteq Leaves /\ next' = next /\ prev' = prev
      /\ \A l \in Levels : Linked(l)' = Linked(l) /\ On(l)' = On(l)
      /\ \A l \in Levels : Linked(l) \subseteq Nodes /\ On(l) \subseteq Nodes
  BY NoNodeApart DEF LinkTypes, Linked, On, links
<1>2. ASSUME NEW l \in Levels, NEW c \in Nodes
      PROVE  /\ LiveNext(c, l)' = Ends(next', dead', l)[LiveNext(c, l)]
             /\ LiveNext(c, l) \in Maybe
             /\ LiveNext(c, l) # n => LiveNext(c, l)' = LiveNext(c, l)
  <2>1. \A m \in Maybe : m \in dead =>
          next[m][l] \in Maybe /\ m \in dead' /\ next'[m][l] = next[m][l]
    BY <1>1, LinksType, NoNodeApart
  <2>2. next'[c][l] = next[c][l] /\ next[c][l] \in Maybe
    BY <1>1, LinksType
  <2>3. /\ LiveNext(c, l)' = Ends(next', dead', l)[LiveNext(c, l)]
        /\ LiveNext(c, l) \in Maybe
        /\ LiveNext(c, l) \notin dead' => LiveNext(c, l)' = LiveNext(c, l)
    BY <2>1, <2>2, <1>1, LiveNextStays
  <2>4. LiveNext(c, l) \notin dead
    <3>1. PICK N, rank : Ranks(l, N, rank)
      BY DEF RankInv
    <3>2. QED
      BY <3>1, <1>1, LiveNextIs, NoNodeApart
  <2>5. QED
    BY <2>3, <2>4
<1>3. ASSUME NEW l \in Levels, NEW m \in Linked(l)' \ dead'
      PROVE  \E c \in On(l)' \ dead' : LiveNext(c, l)' = m
  <2>1. m \in Linked(l) \ dead /\ m # n /\ m \in Nodes
    BY <1>1, <1>3
  <2>2. PICK b \in On(l) \ dead : LiveNext(b, l) = m
    BY <2>1 DEF ChainInv
  <2>3. CASE b # n
    BY <2>1, <2>2, <2>3, <1>1, <1>2
  <2>4. CASE b = n
    <3>1. n \in Linked(l) \ dead
      BY <2>2, <2>4, NoNodeApart DEF On
    <3>2. PICK c \in On(l) \ dead : LiveNext(c, l) = n
      BY <3>1 DEF ChainInv
    <3>3. c # n
      <4>1. PICK N, rank : Ranks(l, N, rank)
        BY DEF RankInv
      <4>2. c \in Nodes /\ n # NoNode /\ rank[c] \in Nat
        BY <4>1, <3>2, <1>1, NoNodeApart DEF Ranks
      <4>3. rank[c] < rank[n]
        BY <4>1, <4>2, <3>2, <1>1, LiveNextIs
      <4>4. QED
        BY <4>2, <4>3
    <3>4. LiveNext(c, l)' = Ends(next', dead', l)[n]
      BY <3>2, <1>1, <1>2
    <3>5. PICK M, mu : Falls(next', dead', l, M, mu)
      <4>1. (dead \subseteq Leaves /\ LinksInv /\ RankInv => WalksEnd)'
        BY NextWalksEnd, PTL
      <4>2. QED
        BY <4>1 DEF WalksEnd
    <3>6. Ends(next', dead', l)[n] = Ends(next', dead', l)[next'[n][l]]
      <4>1. n \in Maybe /\ n \in dead'
        BY NoNodeApart
      <4>2. QED
        BY <4>1, <3>5, EndsIs
    <3>7. LiveNext(n, l)' = Ends(next', dead', l)[next'[n][l]]
      BY DEF LiveNext, Ends, Body
    <3>8. LiveNext(n, l)' = m
      BY <2>1, <2>2, <2>4, <1>1, <1>2
    <3>9. LiveNext(c, l)' = m
      BY <3>4, <3>6, <3>7, <3>8
    <3>10. QED
      BY <3>2, <3>3, <3>9, <1>1
  <2>5. QED
    BY <2>3, <2>4
<1>4. QED
  BY <1>3 DEF ChainInv

-----------------------------------------------------------------------------
(* What a thread may rely on while the others take their steps *)

\* Nobody takes a lock from u, kills or changes what it has locked, moves a node
\* to another level or takes it from one, links the leaf u is linking, or
\* revives a level whose head u has locked.
Rely(u) ==
  /\ th'[u] = th[u] /\ pc'[u] = pc[u] /\ preload'[u] = preload[u]
  /\ listLevel' \in Levels /\ listLevel <= listLevel'
  /\ used \subseteq used' /\ dead \subseteq dead'
  /\ \A n \in Nodes : lock[n] = u => lock'[n] = u /\ (n \in dead' => n \in dead)
  /\ \A n \in used : height'[n] = height[n]
  /\ \A n \in used : lock[n] = u =>
       slots'[n] = slots[n] /\ min'[n] = min[n] /\ max'[n] = max[n]
  /\ \A l \in Levels :
       /\ Linked(l) \subseteq Linked(l)'
       /\ Linking(u) /\ th[u].new \in Linked(l)' => th[u].new \in Linked(l)
       /\ lock[HeadNode] = u /\ Linked(l) \subseteq dead => Linked(l)' \subseteq dead'

LEMMA HeldStay ==
  ASSUME NEW u \in Threads, Rely(u)
  PROVE  /\ \A n : Holds(u, n) => Holds(u, n)'
         /\ \A n : Has(u, n) => Has(u, n)'
         /\ \A l \in Levels : On(l) \subseteq On(l)'
         /\ CursorHeld(u) => CursorHeld(u)'
         /\ CursorNodes(u)' = CursorNodes(u)
<1>1. \A n : (Holds(u, n) => Holds(u, n)') /\ (Has(u, n) => Has(u, n)')
  BY DEF Rely, Holds, Has
<1>2. \A l \in Levels : On(l) \subseteq On(l)'
  BY DEF Rely, On
<1>3. CursorHeld(u) => CursorHeld(u)'
  BY <1>1, <1>2 DEF CursorHeld, Rely
<1>4. QED
  BY <1>1, <1>2, <1>3 DEF Rely, CursorNodes

LEMMA ReadyStay ==
  ASSUME NEW u \in Threads, Rely(u), th[u].p # HeadNode => th[u].p \in used,
         NEW k \in Levels, Ready(u, k)
  PROVE  Ready(u, k)'
<1>1. th'[u] = th[u] /\ (th[u].p # HeadNode => height'[th[u].p] = height[th[u].p])
  BY DEF Rely
<1>2. CASE th[u].p # HeadNode /\ k <= height[th[u].p]
  BY <1>1, <1>2 DEF Ready, Rely
<1>3. CASE ~ (th[u].p # HeadNode /\ k <= height[th[u].p])
  <2>1. Has(u, th[u].cur[k]) /\ th[u].cur[k] \in On(k)
    BY <1>3 DEF Ready
  <2>2. \A n : Has(u, n) => Has(u, n)'
    BY HeldStay
  <2>3. On(k) \subseteq On(k)'
    BY HeldStay
  <2>4. Has(u, th[u].cur[k])' /\ th'[u].cur[k] \in On(k)'
    BY <2>1, <2>2, <2>3, <1>1
  <2>5. QED
    BY <2>4, <1>1, <1>3 DEF Ready
<1>4. QED
  BY <1>2, <1>3

LEMMA WalkStays ==
  ASSUME NEW u \in Threads, Rely(u), listLevel \in Levels, th[u].pending \in Nat,
         WalkInv(u)
  PROVE  WalkInv(u)'
<1>1. /\ th'[u] = th[u] /\ pc'[u] = pc[u] /\ listLevel' \in Levels
      /\ listLevel <= listLevel'
  BY DEF Rely
<1>2. SUFFICES ASSUME pc[u] \in WalkPcs PROVE WalkInv(u)'
  BY <1>1 DEF WalkInv
<1>3. th[u].level \in 0..listLevel /\ th[u].level \in Levels /\ 0 \in Levels
  BY <1>2, LevelsDown DEF WalkInv
<1>4. th[u].level \in 0..listLevel'
  BY <1>1, <1>3, LevelsDown
<1>5. /\ On(th[u].level) \subseteq On(th[u].level)'
      /\ Linked(th[u].level) \subseteq Linked(th[u].level)'
  BY <1>3, HeldStay DEF Rely
<1>6. Has(u, th[u].p) => Has(u, th[u].p)'
  BY HeldStay, <1>1
<1>7. Has(u, th[u].leaf) => Has(u, th[u].leaf)'
  BY HeldStay, <1>1
<1>8. CursorInv(u) => CursorInv(u)'
  BY <1>1, <1>6, HeldStay DEF CursorInv
<1>9. Locking(u)' <=> Locking(u)
  BY <1>1 DEF Locking
<1>10. ASSUME pc[u] = "down", th[u].level = 0 PROVE th[u].p = HeadNode /\ NoLeaf'
  <2>1. th[u].p = HeadNode /\ NoLeaf
    BY <1>2, <1>10 DEF WalkInv
  <2>2. lock[HeadNode] = u
    BY <1>2, <1>10, <2>1 DEF WalkInv, CursorInv, Has, Holds, Locking
  <2>3. QED
    BY <2>1, <2>2, <1>3 DEF Rely, NoLeaf
<1>11. CursorNodes(u)' = CursorNodes(u)
  BY HeldStay
<1>12. WalkInv(u)'
  BY <1>1, <1>2, <1>4, <1>5, <1>7, <1>8, <1>9, <1>10, <1>11 DEF WalkInv
<1>13. QED
  BY <1>12

LEMMA OthersStay ==
  ASSUME NEW u \in Threads, Rely(u), listLevel \in Levels,
         th[u].pending \in Nat, th[u].level \in Int
  PROVE  /\ PreloadInv(u) => PreloadInv(u)'
         /\ FreshInv(u) => FreshInv(u)'
         /\ VerifyInv(u) => VerifyInv(u)'
         /\ EmptyInv(u) => EmptyInv(u)'
         /\ SearchInv(u) => SearchInv(u)'
<1>1. /\ th'[u] = th[u] /\ pc'[u] = pc[u] /\ listLevel' \in Levels
      /\ listLevel <= listLevel' /\ preload'[u] = preload[u]
      /\ listLevel \in Int /\ listLevel' \in Int
  BY LevelsDown DEF Rely
<1>2. \A l \in Levels : Linked(l) \subseteq Linked(l)' /\ On(l) \subseteq On(l)'
  BY HeldStay DEF Rely
<1>3. 0 \in Levels
  BY LevelsDown
<1>4. PreloadInv(u) => PreloadInv(u)'
  BY <1>1 DEF PreloadInv, MayAllocate, Preloaded
<1>5. FreshInv(u) => FreshInv(u)'
  <2>1. SUFFICES ASSUME FreshInv(u) PROVE FreshInv(u)'
    OBVIOUS
  <2>2. MayAllocate(u)' <=> MayAllocate(u)
    BY <1>1 DEF MayAllocate
  <2>3. pc[u] = "headlock" => th[u].level \in 0..listLevel'
    BY <1>1, <2>1 DEF FreshInv
  <2>4. MayAllocate(u) => th[u].pending <= listLevel' + 1
    BY <1>1, <2>1 DEF FreshInv
  <2>5. QED
    BY <1>1, <1>2, <1>3, <2>1, <2>2, <2>3, <2>4 DEF FreshInv
<1>6. VerifyInv(u) => VerifyInv(u)'
  <2>1. SUFFICES ASSUME VerifyInv(u), pc[u] \in VerifyPcs PROVE VerifyInv(u)'
    BY <1>1 DEF VerifyInv
  <2>2. th[u].level \in 0..listLevel - 1 /\ th[u].level \in 0..listLevel' - 1
        /\ th[u].level + 1 \in Levels
    BY <1>1, <2>1, LevelsDown DEF VerifyInv, Levels
  <2>3. /\ Holds(u, th[u].pr) => Holds(u, th[u].pr)'
        /\ Has(u, th[u].p) => Has(u, th[u].p)'
    BY <1>1, HeldStay
  <2>4. QED
    BY <1>1, <1>2, <2>1, <2>2, <2>3 DEF VerifyInv
<1>7. EmptyInv(u) => EmptyInv(u)'
  <2>1. Holds(u, HeadNode) => Holds(u, HeadNode)'
    BY HeldStay
  <2>2. lock[HeadNode] = u /\ NoLeaf => NoLeaf'
    BY <1>3 DEF Rely, NoLeaf
  <2>3. QED
    BY <1>1, <2>1, <2>2 DEF EmptyInv, Holds
<1>8. SearchInv(u) => SearchInv(u)'
  <2>1. \A l : l \in 0..listLevel => l \in Levels /\ l \in 0..listLevel'
    BY <1>1, LevelsDown
  <2>2. Holds(u, th[u].p) => Holds(u, th[u].p)'
    BY <1>1, HeldStay
  <2>3. QED
    BY <1>1, <1>2, <1>3, <2>1, <2>2 DEF SearchInv
<1>9. QED
  BY <1>4, <1>5, <1>6, <1>7, <1>8

LEMMA PlaceStays ==
  ASSUME NEW u \in Threads, Rely(u), LinksInv, PreloadInv(u), used \subseteq Leaves,
         pc[u] = "overlap" => th[u].pending \in Levels,
         PlaceInv(u)
  PROVE  PlaceInv(u)'
<1>1. th'[u] = th[u] /\ pc'[u] = pc[u]
  BY DEF Rely
<1>2. SUFFICES ASSUME pc[u] \in PlacePcs PROVE PlaceInv(u)'
  BY <1>1 DEF PlaceInv
<1> DEFINE p == th[u].p
<1>3. p \in Linked(0) /\ Holds(u, p) /\ CursorHeld(u) /\ th[u].ins \in {NoNode, p}
  BY <1>2 DEF PlaceInv
<1>4. p \in used /\ p \in Leaves /\ lock[p] = u /\ 0 \in Levels
  BY <1>3, LevelsDown DEF LinksInv, Linked, Holds
<1>5. p \in Linked(0)' /\ Holds(u, p)' /\ CursorHeld(u)'
  BY <1>3, <1>4, <1>1, HeldStay DEF Rely
<1>6. /\ slots'[p] = slots[p] /\ min'[p] = min[p] /\ max'[p] = max[p]
      /\ (p \in dead' <=> p \in dead)
  BY <1>4, NoNodeApart DEF Rely
<1>7. ASSUME pc[u] \in {"overlap", "split"}, NEW k \in 0..th[u].pending, Ready(u, k)
      PROVE  Ready(u, k)'
  <2>1. th[u].pending \in Levels
    BY <1>7 DEF PreloadInv, MayAllocate, InsertPcs, Preloaded
  <2>2. k \in Levels
    BY <2>1, LevelsDown
  <2>3. QED
    BY <2>2, <1>4, <1>7, ReadyStay
<1>8. QED
  BY <1>1, <1>2, <1>3, <1>5, <1>6, <1>7 DEF PlaceInv

LEMMA LinkStays ==
  ASSUME NEW u \in Threads, Rely(u), LinksInv, used \subseteq Leaves,
         height \in [Leaves -> Levels], LinkInv(u)
  PROVE  LinkInv(u)'
<1>1. th'[u] = th[u] /\ pc'[u] = pc[u] /\ used \subseteq used'
  BY DEF Rely
<1>2. SUFFICES ASSUME Linking(u) \/ pc[u] = "shrink" PROVE LinkInv(u)'
  BY <1>1 DEF LinkInv, Linking
<1> DEFINE new == th[u].new
           i == th[u].i
<1>3. /\ new \in used /\ i \in 0..height[new] /\ Has(u, th[u].p)
      /\ th[u].ins \in {NoNode, th[u].p} /\ CursorHeld(u)
  BY <1>2 DEF LinkInv
<1> DEFINE p == th[u].p
           nx == th[u].nx
<1>17. /\ p # HeadNode =>
            /\ p \in Linked(0) /\ th[u].slot \in 1..Cap + 1 /\ Len(slots[p]) = Cap
            /\ Has(u, new) /\ new # p /\ new \notin CursorNodes(u)
       /\ Linking(u) => \A k \in Levels :
            /\ k < i => new \in Linked(k)
            /\ k > i => new \notin Linked(k)
            /\ k > i /\ p = HeadNode => Linked(k) \subseteq dead
       /\ pc[u] \in {"link", "linklock"} =>
            new \notin Linked(i) /\ (p = HeadNode => Linked(i) \subseteq dead)
       /\ pc[u] = "linklock" => nx \in Linked(i)
       /\ pc[u] = "linkback" =>
            /\ new \in Linked(i)
            /\ nx # NoNode =>
                 /\ nx \in Linked(i) /\ Holds(u, nx)
                 /\ nx \notin CursorNodes(u) \cup {p, new}
       /\ pc[u] = "shrink" => p # HeadNode /\ th[u].slot <= Cap
  BY <1>2 DEF LinkInv
<1>4. height'[new] = height[new] /\ new \in Leaves /\ i \in Levels
      /\ \A k \in 0..height[new] : k \in Levels
  BY <1>3, LevelsDown DEF Rely
<1>5. Has(u, p)' /\ CursorHeld(u)' /\ CursorNodes(u)' = CursorNodes(u)
      /\ (Has(u, new) => Has(u, new)') /\ (Holds(u, nx) => Holds(u, nx)')
  BY <1>1, <1>3, HeldStay
<1>6. ASSUME p # HeadNode
      PROVE  /\ p \in used /\ p \in Linked(0)' /\ p \in Leaves
             /\ slots'[p] = slots[p]
  BY <1>3, <1>6, <1>17, LevelsDown DEF LinksInv, Linked, Rely, Has, Holds
<1>7. ASSUME Linking(u), NEW k \in i..height[new] PROVE Ready(u, k)'
  <2>1. Ready(u, k) /\ k \in Levels
    BY <1>3, <1>4, <1>7, LevelsDown DEF LinkInv
  <2>2. QED
    BY <2>1, <1>6, ReadyStay
<1>8. ASSUME Linking(u), NEW k \in Levels
      PROVE  /\ new \in Linked(k)' <=> new \in Linked(k)
             /\ p = HeadNode /\ Linked(k) \subseteq dead => Linked(k)' \subseteq dead'
  BY <1>3, <1>8 DEF Rely, Has, Holds
<1>9. \A k \in Levels : Linked(k) \subseteq Linked(k)'
  BY DEF Rely
<1>10. Linking(u)' <=> Linking(u)
  BY <1>1 DEF Linking
<1>11. new \in used' /\ i \in 0..height'[new]
  BY <1>1, <1>3, <1>4
<1>12. p # HeadNode =>
         /\ th[u].slot \in 1..Cap + 1 /\ Len(slots'[p]) = Cap
         /\ Has(u, new)' /\ new # p /\ new \notin CursorNodes(u)'
  BY <1>5, <1>6, <1>17
<1>13. Linking(u) => \A k \in Levels :
         /\ k < i => new \in Linked(k)'
         /\ k > i => new \notin Linked(k)'
         /\ k > i /\ p = HeadNode => Linked(k)' \subseteq dead'
  BY <1>8, <1>17
<1>14. pc[u] \in {"link", "linklock"} =>
         /\ new \notin Linked(i)'
         /\ p = HeadNode => Linked(i)' \subseteq dead'
  BY <1>1, <1>4, <1>8, <1>17 DEF Linking
<1>15. pc[u] = "linklock" => nx \in Linked(i)'
  BY <1>1, <1>4, <1>9, <1>17
<1>16. pc[u] = "linkback" =>
         /\ new \in Linked(i)'
         /\ nx # NoNode =>
              /\ nx \in Linked(i)' /\ Holds(u, nx)'
              /\ nx \notin CursorNodes(u)' \cup {p, new}
  BY <1>1, <1>4, <1>5, <1>9, <1>17
<1>18. QED
  BY <1>1, <1>3, <1>4, <1>5, <1>6, <1>7, <1>10, <1>11, <1>12, <1>13, <1>14, <1>15, <1>16,
     <1>17
     DEF LinkInv

LEMMA EraseStays ==
  ASSUME NEW u \in Threads, Rely(u), LinksInv, used \subseteq Leaves,
         height \in [Leaves -> Levels], EraseInv(u)
  PROVE  EraseInv(u)'
<1>1. th'[u] = th[u] /\ pc'[u] = pc[u] /\ dead \subseteq dead'
  BY DEF Rely
<1>2. SUFFICES ASSUME pc[u] \in ErasePcs PROVE EraseInv(u)'
  BY <1>1 DEF EraseInv
<1> DEFINE n == th[u].leaf
           i == th[u].i
<1>3. n \in Linked(0) /\ n \in dead /\ i \in 0..height[n] /\ 0 \in Levels
  BY <1>2, LevelsDown DEF EraseInv
<1>4. height'[n] = height[n] /\ i \in Levels
  BY <1>3, LevelsDown DEF Rely, LinksInv
<1>5. /\ Linked(0) \subseteq Linked(0)' /\ Linked(i) \subseteq Linked(i)'
      /\ On(i) \subseteq On(i)'
  BY <1>3, <1>4, HeldStay DEF Rely
<1>6. /\ Holds(u, th[u].pr) => Holds(u, th[u].pr)'
      /\ Has(u, th[u].pr) => Has(u, th[u].pr)'
      /\ Holds(u, n) => Holds(u, n)'
      /\ Holds(u, th[u].nx) => Holds(u, th[u].nx)'
  BY <1>1, HeldStay
<1>7. n \in Linked(0)' \cap dead' /\ i \in 0..height'[n]
  BY <1>1, <1>3, <1>4, <1>5
<1>8. /\ pc[u] = "eraseprev" => th[u].pr \in On(i)'
      /\ pc[u] \in {"erasenode", "erasegrab", "erasenext", "eraseback"} =>
           th[u].pr \in On(i)' /\ Holds(u, th[u].pr)'
      /\ pc[u] \in {"erasegrab", "erasenext", "eraseback"} =>
           Has(u, th[u].pr)' /\ Holds(u, n)'
  BY <1>2, <1>5, <1>6 DEF EraseInv
<1>9. /\ pc[u] = "erasenext" => th[u].nx \in Linked(i)'
      /\ pc[u] = "eraseback" /\ th[u].nx # NoNode =>
           th[u].nx \in Linked(i)' /\ Holds(u, th[u].nx)'
  BY <1>2, <1>5, <1>6 DEF EraseInv
<1>10. QED
  BY <1>1, <1>7, <1>8, <1>9 DEF EraseInv

LEMMA ThreadStays ==
  ASSUME NEW u \in Threads, Rely(u), TypeOK, LinksInv, ThreadInv(u)
  PROVE  ThreadInv(u)'
<1>1. /\ used \subseteq Leaves /\ height \in [Leaves -> Levels] /\ listLevel \in Levels
      /\ th[u].pending \in Nat /\ th[u].level \in Int
  <2>1. /\ used \subseteq Leaves /\ height \in [Leaves -> Levels] /\ listLevel \in Levels
        /\ th[u] \in Locals
    BY DEF TypeOK
  <2>2. th[u].pending \in 0..MaxLevel /\ th[u].level \in -1..MaxLevel
    BY <2>1 DEF Locals
  <2>3. QED
    BY <2>1, <2>2, LevelsDown
<1>2. pc[u] = "overlap" => th[u].pending \in Levels
  BY DEF ThreadInv, PreloadInv, MayAllocate, InsertPcs, Preloaded
<1>3. QED
  BY <1>1, <1>2, WalkStays, OthersStay, PlaceStays, LinkStays, EraseStays DEF ThreadInv

-----------------------------------------------------------------------------
(* Steps of a thread that leave the nodes alone *)

OthersLocks(t) ==
  \A u \in Threads \ {t}, n \in Nodes : lock[n] = u => lock'[n] = u

Calm(t) ==
  /\ UNCHANGED <<links, dead, leaf, listLevel, used>>
  /\ Others(t) /\ OthersLocks(t)
  /\ \A u \in Threads \ {t} : preload'[u] = preload[u]
  /\ pc'[t] \notin {"linkback", "eraseback"}
  /\ Linking(t)' <=> Linking(t)
  /\ Linking(t) => th'[t].new = th[t].new

LEMMA Parts ==
  SkiplistInv =>
    /\ TypeInv /\ TypeOK /\ LinksInv /\ RankInv /\ ChainInv /\ NewInv /\ DeadInv
    /\ LinkTypes /\ dead \subseteq Leaves
    /\ \A t \in Threads : ThreadInv(t) /\ ArgInv(t) /\ th[t] \in Locals
BY DEF SkiplistInv, TypeInv, TypeOK, LinkTypes

LEMMA SameWalk ==
  ASSUME UNCHANGED <<links, dead>>
  PROVE  /\ \A l \in Levels : Linked(l)' = Linked(l) /\ On(l)' = On(l)
         /\ \A n, l : LiveNext(n, l)' = LiveNext(n, l) /\ LivePrev(n, l)' = LivePrev(n, l)
BY DEF links, Linked, On, LiveNext, LivePrev

LEMMA CalmKeeps ==
  ASSUME SkiplistInv, NEW t \in Threads, Calm(t)
  PROVE  /\ LinksInv' /\ RankInv' /\ ChainInv' /\ NewInv' /\ DeadInv'
         /\ \A u \in Threads \ {t} : ThreadInv(u)'
         /\ \A l \in Levels : Linked(l)' = Linked(l) /\ On(l)' = On(l)
         /\ Contents' = Contents
<1>1. /\ TypeInv /\ TypeOK /\ LinksInv /\ RankInv /\ ChainInv /\ NewInv /\ DeadInv
      /\ LinkTypes /\ \A u \in Threads : ThreadInv(u)
  BY Parts
<1>2. /\ next' = next /\ prev' = prev /\ dead' = dead /\ height' = height
      /\ slots' = slots /\ min' = min /\ max' = max /\ listLevel' = listLevel
      /\ used' = used /\ UNCHANGED links
  BY DEF Calm, links, leaf
<1>3. Settled(t)
  BY <1>2 DEF Settled, Calm
<1>4. LinksInv' /\ RankInv' /\ \A l \in Levels : Linked(l)' = Linked(l)
  BY <1>1, <1>2, <1>3, LevelsKept
<1>5. ChainInv'
  BY <1>1, <1>2, <1>4, SameChain
<1>6. NewInv'
  BY <1>1 DEF NewInv, Calm, Others, Linking
<1>7. DeadInv'
  BY <1>1, <1>2 DEF DeadInv
<1>8. ASSUME NEW u \in Threads \ {t} PROVE ThreadInv(u)'
  <2>1. th'[u] = th[u] /\ pc'[u] = pc[u] /\ preload'[u] = preload[u]
    BY DEF Calm, Others
  <2>2. \A n \in Nodes : lock[n] = u => lock'[n] = u
    BY DEF Calm, OthersLocks
  <2>3. listLevel' \in Levels /\ listLevel <= listLevel'
    BY <1>1, <1>2, LevelsDown DEF TypeOK
  <2>4. Rely(u)
    BY <2>1, <2>2, <2>3, <1>2, <1>4 DEF Rely
  <2>5. QED
    BY <2>4, <1>1, ThreadStays
<1>9. \A l \in Levels : On(l)' = On(l)
  BY <1>4 DEF On
<1>10. Contents' = Contents
  BY <1>2 DEF Contents, LiveNext
<1>11. QED
  BY <1>4, <1>5, <1>6, <1>7, <1>8, <1>9, <1>10

LEMMA CalmStep ==
  ASSUME SkiplistInv, NEW t \in Threads, Calm(t),
         th' \in [Threads -> Locals], pc' \in [Threads -> Labels],
         lock' \in [Nodes -> Threads \cup {NoThread}],
         preload' \in [Threads -> [Levels -> Levels \cup {Empty}]],
         \A k \in Levels : preload'[t][k] <= k,
         toFill' \in Seq(Named),
         todo' \in [Threads -> Seq([op : {"insert", "hole", "delete", "lookup"}, r : Named])],
         call' \in [Threads -> RS!Resting \cup RS!Calls \cup RS!Deleting],
         buried' \subseteq Ranges,
         ThreadInv(t)', ArgInv(t)'
  PROVE  SkiplistInv'
<1>1. /\ TypeInv /\ TypeOK
  BY Parts
<1>2. /\ LinksInv' /\ RankInv' /\ ChainInv' /\ NewInv' /\ DeadInv'
      /\ \A u \in Threads \ {t} : ThreadInv(u)'
      /\ Contents' = Contents
  BY CalmKeeps
<1>3. /\ next' = next /\ prev' = prev /\ dead' = dead /\ height' = height
      /\ slots' = slots /\ min' = min /\ max' = max /\ listLevel' = listLevel
      /\ used' = used
  BY DEF Calm, links, leaf
<1>4. \A u \in Threads : th'[u] \in Locals
  OBVIOUS
<1>5. RS!TypeOK'
  BY <1>1, <1>2 DEF TypeOK, RS!TypeOK
<1>6. TypeOK'
  BY <1>1, <1>3, <1>4, <1>5 DEF TypeOK
<1>7. \A u \in Threads, k \in Levels : preload'[u][k] <= k
  BY <1>1 DEF TypeInv, Calm
<1>8. TypeInv'
  BY <1>1, <1>3, <1>6, <1>7 DEF TypeInv
<1>9. \A u \in Threads : ArgInv(u)'
  BY <1>1, Parts DEF ArgInv, Arg, Calm, Others
<1>10. QED
  BY <1>2, <1>8, <1>9 DEF SkiplistInv

\* What t locks and gives up leaves the locks of the others alone.
LEMMA LockSteps ==
  ASSUME NEW t \in Threads, lock \in [Nodes -> Threads \cup {NoThread}]
  PROVE  /\ \A n \in Nodes : Acquire(t, n) =>
              /\ OthersLocks(t) /\ lock' \in [Nodes -> Threads \cup {NoThread}]
              /\ \A m \in Nodes : lock'[m] = IF m = n THEN t ELSE lock[m]
         /\ \A R : Release(R) /\ (\A m \in R \cap Nodes : lock[m] = t) =>
              /\ OthersLocks(t) /\ lock' \in [Nodes -> Threads \cup {NoThread}]
              /\ \A m \in Nodes : lock'[m] = IF m \in R THEN NoThread ELSE lock[m]
         /\ \A n \in Nodes : \A R :
              AcquireRelease(t, n, R) /\ (\A m \in R \cap Nodes : lock[m] = t \/ m = n) =>
              /\ OthersLocks(t) /\ lock' \in [Nodes -> Threads \cup {NoThread}]
              /\ \A m \in Nodes : lock'[m] = IF m \in R THEN NoThread
                                             ELSE IF m = n THEN t ELSE lock[m]
         /\ UNCHANGED lock => OthersLocks(t)
<1>1. NoThread \notin Threads
  BY SkiplistAssumption
<1>2. ASSUME NEW n \in Nodes, Acquire(t, n)
      PROVE  /\ OthersLocks(t) /\ lock' \in [Nodes -> Threads \cup {NoThread}]
             /\ \A m \in Nodes : lock'[m] = IF m = n THEN t ELSE lock[m]
  BY <1>1, <1>2 DEF Acquire, OthersLocks
<1>3. ASSUME NEW R, Release(R), \A m \in R \cap Nodes : lock[m] = t
      PROVE  /\ OthersLocks(t) /\ lock' \in [Nodes -> Threads \cup {NoThread}]
             /\ \A m \in Nodes : lock'[m] = IF m \in R THEN NoThread ELSE lock[m]
  BY <1>1, <1>3 DEF Release, OthersLocks
<1>4. ASSUME NEW n \in Nodes, NEW R, AcquireRelease(t, n, R),
             \A m \in R \cap Nodes : lock[m] = t \/ m = n
      PROVE  /\ OthersLocks(t) /\ lock' \in [Nodes -> Threads \cup {NoThread}]
             /\ \A m \in Nodes : lock'[m] = IF m \in R THEN NoThread
                                            ELSE IF m = n THEN t ELSE lock[m]
  BY <1>1, <1>4 DEF AcquireRelease, OthersLocks
<1>5. UNCHANGED lock => OthersLocks(t)
  BY DEF OthersLocks
<1>6. QED
  BY <1>2, <1>3, <1>4, <1>5

SameArg(t, r) == r.key = th[t].key /\ r.size = th[t].size

\* A step that touches locks and locals only.
LEMMA PrivateStep ==
  ASSUME SkiplistInv, NEW t \in Threads, Private, OthersLocks(t),
         lock' \in [Nodes -> Threads \cup {NoThread}],
         NEW r \in Locals, th' = [th EXCEPT ![t] = r],
         NEW q \in Labels, pc' = [pc EXCEPT ![t] = q],
         q \notin {"linkback", "eraseback"},
         Linking(t) <=> q \in {"link", "linklock"},
         Linking(t) => r.new = th[t].new,
         pc[t] # "rest",
         SameArg(t, r) \/ [key |-> r.key, size |-> r.size] \in Ranges,
         ThreadInv(t)'
  PROVE  SkiplistInv'
<1>1. TypeInv /\ ArgInv(t)
  BY Parts
<1>2. /\ th \in [Threads -> Locals] /\ pc \in [Threads -> Labels]
      /\ UNCHANGED <<links, dead, leaf, listLevel, used, preload, toFill, todo, call, buried>>
  BY <1>1 DEF TypeInv, Private, Quiet, client
<1>3. th' \in [Threads -> Locals] /\ pc' \in [Threads -> Labels] /\ Others(t)
  BY <1>2 DEF Others
<1>4. pc'[t] = q /\ th'[t] = r
  BY <1>2
<1>5. Linking(t)' <=> Linking(t)
  BY <1>4 DEF Linking
<1>6. Calm(t)
  BY <1>2, <1>3, <1>4, <1>5 DEF Calm
<1>7. /\ preload' = preload /\ toFill' = toFill /\ todo' = todo /\ call' = call
      /\ buried' = buried
  BY <1>2
<1>8. /\ preload \in [Threads -> [Levels -> Levels \cup {Empty}]]
      /\ \A k \in Levels : preload[t][k] <= k
      /\ toFill \in Seq(Named)
      /\ todo \in [Threads -> Seq([op : {"insert", "hole", "delete", "lookup"}, r : Named])]
      /\ call \in [Threads -> RS!Resting \cup RS!Calls \cup RS!Deleting]
      /\ buried \subseteq Ranges
  BY <1>1 DEF TypeInv, TypeOK, RS!TypeOK
<1>9. ArgInv(t)'
  BY <1>1, <1>4 DEF ArgInv, Arg, SameArg
<1>10. QED
  BY <1>3, <1>6, <1>7, <1>8, <1>9, CalmStep

\* An invariant of threads that are somewhere else.
Elsewhere ==
  \A t \in Threads :
    /\ ~ MayAllocate(t) => PreloadInv(t)
    /\ pc[t] \notin InsertPcs \cup SearchPcs => FreshInv(t)
    /\ pc[t] \notin WalkPcs => WalkInv(t)
    /\ pc[t] \notin VerifyPcs => VerifyInv(t)
    /\ pc[t] # "empty" => EmptyInv(t)
    /\ pc[t] \notin PlacePcs => PlaceInv(t)
    /\ pc[t] \notin {"link", "linklock", "linkback", "shrink"} => LinkInv(t)
    /\ pc[t] \notin SearchPcs => SearchInv(t)
    /\ pc[t] \notin ErasePcs => EraseInv(t)

LEMMA ElsewhereNow == Elsewhere
BY DEF Elsewhere, PreloadInv, FreshInv, WalkInv, VerifyInv, EmptyInv, PlaceInv, LinkInv,
       SearchInv, EraseInv, Linking, MayAllocate, InsertPcs, SearchPcs, WalkPcs, VerifyPcs,
       PlacePcs, ErasePcs

LEMMA ElsewhereNext == Elsewhere'
BY ElsewhereNow, PTL

\* What a thread that has no locks, or walks, knows.
LEMMA Fresh ==
  ASSUME NEW t, ThreadInv(t), pc[t] \in {"fast", "fastlock", "again", "headlock"}
  PROVE  /\ Preloaded(t) /\ th[t].cur = NoCursor /\ th[t].pr = NoNode /\ th[t].ins = NoNode
         /\ th[t].pending <= listLevel + 1
<1>1. PreloadInv(t) /\ FreshInv(t)
  BY DEF ThreadInv
<1>2. pc[t] \in InsertPcs \ PlacePcs /\ pc[t] \notin VerifyPcs
  BY DEF InsertPcs, PlacePcs, VerifyPcs
<1>3. MayAllocate(t)
  BY <1>2 DEF MayAllocate
<1>4. QED
  BY <1>1, <1>2, <1>3 DEF PreloadInv, FreshInv

LEMMA FromTheTopStep ==
  ASSUME SkiplistInv, NEW t \in Threads, FromTheTop(t)
  PROVE  SkiplistInv'
<1>1. TypeInv /\ ThreadInv(t) /\ th[t] \in Locals /\ pc[t] = "again" /\ listLevel \in Levels
  BY Parts DEF FromTheTop, TypeOK
<1> DEFINE r == [th[t] EXCEPT !.p = HeadNode, !.level = listLevel, !.leaf = NoNode]
           q == IF listLevel <= th[t].pending THEN "headlock" ELSE "skip"
<1>2. th' = [th EXCEPT ![t] = r] /\ pc' = [pc EXCEPT ![t] = q] /\ Private /\ UNCHANGED lock
  BY <1>1 DEF FromTheTop, Goto, Unlocked, TypeInv
<1>3. r \in Locals /\ q \in Labels
  <2>1. listLevel \in -1..MaxLevel /\ HeadNode \in Maybe /\ NoNode \in Maybe
    BY <1>1, LevelsDown, NoNodeApart
  <2>2. QED
    BY <2>1, <1>1 DEF Locals, Labels, InsertPcs
<1>4. /\ r.p = HeadNode /\ r.level = listLevel /\ r.pending = th[t].pending
      /\ r.token = th[t].token /\ r.cur = th[t].cur /\ r.pr = th[t].pr /\ r.ins = th[t].ins
      /\ SameArg(t, r)
  BY <1>1 DEF Locals, SameArg
<1>5. th'[t] = r /\ pc'[t] = q /\ q \in {"headlock", "skip"}
  BY <1>1, <1>2 DEF TypeInv
<1> HIDE DEF r, q
<1>6. ThreadInv(t)'
  <2>1. /\ Preloaded(t) /\ th[t].cur = NoCursor /\ th[t].pr = NoNode /\ th[t].ins = NoNode
        /\ th[t].pending <= listLevel + 1
    BY <1>1, Fresh
  <2>2. preload' = preload /\ listLevel' = listLevel
    BY <1>2 DEF Private
  <2>3. PreloadInv(t)'
    BY <1>4, <1>5, <2>1, <2>2 DEF PreloadInv, Preloaded
  <2>4. FreshInv(t)'
    BY <1>1, <1>4, <1>5, <2>1, <2>2, LevelsDown
       DEF FreshInv, InsertPcs, PlacePcs, SearchPcs, VerifyPcs, MayAllocate, q
  <2>5. WalkInv(t)'
    BY <1>1, <1>4, <1>5, <2>1, <2>2, LevelsDown DEF WalkInv, WalkPcs, On, Locking, q
  <2>6. QED
    BY <1>5, <2>3, <2>4, <2>5, ElsewhereNext
       DEF Elsewhere, ThreadInv, VerifyPcs, PlacePcs, SearchPcs, ErasePcs
<1>7. QED
  BY <1>1, <1>2, <1>3, <1>4, <1>5, <1>6, LockSteps, PrivateStep
     DEF TypeOK, TypeInv, Linking

LEMMA HeadLockStep ==
  ASSUME SkiplistInv, NEW t \in Threads, HeadLock(t)
  PROVE  SkiplistInv'
<1>1. /\ TypeInv /\ ThreadInv(t) /\ th[t] \in Locals /\ pc[t] = "headlock"
      /\ listLevel \in Levels /\ dead \subseteq Leaves
      /\ lock \in [Nodes -> Threads \cup {NoThread}]
  BY Parts DEF HeadLock, TypeOK
<1> DEFINE cur == [l \in 0..MaxLevel |->
                     IF l \in {th[t].level, th[t].pending} THEN HeadNode ELSE th[t].cur[l]]
           r == [th[t] EXCEPT !.cur = cur]
<1>2. /\ th' = [th EXCEPT ![t] = r] /\ pc' = [pc EXCEPT ![t] = "skip"] /\ Private
      /\ Acquire(t, HeadNode)
  BY <1>1 DEF HeadLock, Goto, TypeInv
<1>3. r \in Locals /\ "skip" \in Labels
  <2>1. cur \in [0..MaxLevel -> Maybe]
    BY <1>1, NoNodeApart DEF Locals
  <2> HIDE DEF cur
  <2>2. QED
    BY <2>1, <1>1 DEF Locals, Labels, InsertPcs
<1>4. /\ r.p = th[t].p /\ r.level = th[t].level /\ r.pending = th[t].pending
      /\ r.token = th[t].token /\ r.cur = cur /\ r.pr = th[t].pr /\ r.ins = th[t].ins
      /\ SameArg(t, r)
  <2> HIDE DEF cur
  <2>1. QED
    BY <1>1 DEF Locals, SameArg
<1>5. th'[t] = r /\ pc'[t] = "skip"
  BY <1>1, <1>2 DEF TypeInv
<1> HIDE DEF r
<1>6. /\ OthersLocks(t) /\ lock' \in [Nodes -> Threads \cup {NoThread}]
      /\ lock'[HeadNode] = t
  BY <1>1, <1>2, LockSteps, NoNodeApart
<1>7. ThreadInv(t)'
  <2>1. /\ Preloaded(t) /\ th[t].cur = NoCursor /\ th[t].pr = NoNode /\ th[t].ins = NoNode
        /\ th[t].pending <= listLevel + 1
    BY <1>1, Fresh
  <2>2. /\ th[t].p = HeadNode /\ th[t].level \in 0..listLevel
        /\ th[t].level <= th[t].pending /\ th[t].pending <= th[t].level + 1
    BY <1>1 DEF ThreadInv, FreshInv
  <2>3. preload' = preload /\ listLevel' = listLevel /\ dead' = dead
    BY <1>2 DEF Private
  <2>4. PreloadInv(t)'
    BY <1>4, <1>5, <2>1, <2>3 DEF PreloadInv, Preloaded
  <2>5. FreshInv(t)'
    BY <1>4, <1>5, <2>1, <2>2, <2>3
       DEF FreshInv, InsertPcs, PlacePcs, SearchPcs, VerifyPcs, MayAllocate
  <2>6. th[t].pending \in Levels /\ th[t].level \in Levels
    BY <2>1, <2>2, <1>1, LevelsDown DEF Preloaded
  <2>7. \A k \in 0..MaxLevel :
          cur[k] = IF k \in {th[t].level, th[t].pending} THEN HeadNode ELSE NoNode
    BY <2>1 DEF NoCursor
  <2> HIDE DEF cur
  <2>8. Has(t, HeadNode)' /\ \A k : HeadNode \in On(k)'
    BY <1>1, <1>6, <2>3, NoNodeApart DEF Has, Holds, On
  <2>9. CursorHeld(t)'
    BY <1>4, <1>5, <2>2, <2>6, <2>7, <2>8, LevelsDown DEF CursorHeld
  <2>10. CursorInv(t)'
    <3>1. \A k \in 0..MaxLevel :
            /\ k < th[t].level => cur[k] = NoNode
            /\ th[t].level <= k /\ k <= th[t].pending => cur[k] = HeadNode
            /\ cur[k] \in {NoNode, HeadNode}
      BY <2>2, <2>6, <2>7, LevelsDown
    <3>2. th[t].level \in 0..MaxLevel /\ HeadNode # NoNode
      BY <2>6, LevelsDown, NoNodeApart
    <3>3. QED
      BY <1>4, <1>5, <2>2, <2>8, <2>9, <3>1, <3>2 DEF CursorInv
  <2>11. WalkInv(t)'
    BY <1>4, <1>5, <2>1, <2>2, <2>3, <2>6, <2>7, <2>8, <2>10, LevelsDown
       DEF WalkInv, WalkPcs, Locking
  <2>12. QED
    BY <1>5, <2>4, <2>5, <2>11, ElsewhereNext
       DEF Elsewhere, ThreadInv, VerifyPcs, PlacePcs, SearchPcs, ErasePcs
<1>8. QED
  BY <1>1, <1>2, <1>3, <1>4, <1>5, <1>6, <1>7, PrivateStep DEF Linking

\* What a thread that walks knows.
LEMMA Walking ==
  ASSUME SkiplistInv, NEW t \in Threads, pc[t] \in WalkPcs
  PROVE  /\ Preloaded(t) /\ th[t].pending <= listLevel + 1 /\ th[t].ins = NoNode
         /\ th[t].level \in 0..listLevel /\ th[t].level \in Levels
         /\ th[t].pending \in Levels
         /\ th[t].p \in On(th[t].level) /\ th[t].p \in Nodes /\ th[t].pr = NoNode
         /\ IF Locking(t) THEN CursorInv(t) ELSE th[t].cur = NoCursor
<1>1. PreloadInv(t) /\ FreshInv(t) /\ WalkInv(t) /\ listLevel \in Levels
  BY Parts DEF ThreadInv, TypeOK
<1>2. pc[t] \in InsertPcs \ PlacePcs
  BY DEF WalkPcs, InsertPcs, PlacePcs
<1>3. MayAllocate(t)
  BY <1>2 DEF MayAllocate
<1>4. th[t].p \in On(th[t].level) /\ th[t].level \in 0..listLevel
  BY <1>1 DEF WalkInv
<1>5. th[t].p \in Nodes
  BY <1>4, NoNodeApart DEF On, Linked
<1>6. Preloaded(t) /\ th[t].pending <= listLevel + 1 /\ th[t].ins = NoNode
  BY <1>1, <1>2, <1>3 DEF PreloadInv, FreshInv
<1>7. QED
  BY <1>1, <1>4, <1>5, <1>6, LevelsDown DEF WalkInv, Preloaded

\* A cursor that stays as it is, with its locks.
LEMMA CursorKept ==
  ASSUME UNCHANGED <<links, dead>>, NEW t \in Threads,
         th'[t].cur = th[t].cur, th'[t].pending = th[t].pending,
         \A k \in 0..MaxLevel : th[t].cur[k] # NoNode => lock'[th[t].cur[k]] = t,
         CursorHeld(t)
  PROVE  CursorHeld(t)'
<1>1. dead' = dead /\ \A l \in Levels : On(l)' = On(l)
  BY SameWalk
<1>2. QED
  BY <1>1 DEF CursorHeld, Has, Holds

LEMMA SkipLevelStep ==
  ASSUME SkiplistInv, NEW t \in Threads, SkipLevel(t)
  PROVE  SkiplistInv'
<1>1. /\ TypeInv /\ ThreadInv(t) /\ th[t] \in Locals /\ pc[t] = "skip"
      /\ listLevel \in Levels /\ dead \subseteq Leaves
      /\ lock \in [Nodes -> Threads \cup {NoThread}]
  BY Parts DEF SkipLevel, TypeOK
<1>2. /\ Preloaded(t) /\ th[t].pending <= listLevel + 1 /\ th[t].ins = NoNode
      /\ th[t].level \in 0..listLevel /\ th[t].level \in Levels
      /\ th[t].pending \in Levels /\ th[t].pr = NoNode
      /\ IF Locking(t) THEN CursorInv(t) ELSE th[t].cur = NoCursor
  BY <1>1, Walking DEF WalkPcs
<1>3. th[t].p = HeadNode /\ (Locking(t) => th[t].cur[th[t].level] = HeadNode)
  BY <1>1 DEF ThreadInv, WalkInv, WalkPcs
<1>4. /\ Private /\ UNCHANGED lock
      /\ preload' = preload /\ listLevel' = listLevel /\ dead' = dead
      /\ UNCHANGED <<links, dead>>
  BY DEF SkipLevel, Unlocked, Private
<1>5. OthersLocks(t) /\ lock' \in [Nodes -> Threads \cup {NoThread}]
  BY <1>1, <1>4, LockSteps
<1>6. ASSUME NEW r \in Locals, NEW q \in {"headlock", "skip", "walk"},
             th' = [th EXCEPT ![t] = r], pc' = [pc EXCEPT ![t] = q],
             r.pending = th[t].pending, r.token = th[t].token, r.pr = NoNode,
             r.ins = NoNode, SameArg(t, r),
             r.p = HeadNode, r.level \in 0..listLevel,
             q = "headlock" =>
               /\ r.cur = NoCursor /\ r.level <= r.pending /\ r.pending <= r.level + 1,
             q # "headlock" =>
               IF r.level <= r.pending THEN CursorInv(t)' ELSE r.cur = NoCursor,
             q = "skip" /\ r.level <= r.pending => r.cur[r.level] = HeadNode
      PROVE  SkiplistInv'
  <2>1. th'[t] = r /\ pc'[t] = q
    BY <1>1, <1>6 DEF TypeInv
  <2>2. PreloadInv(t)'
    BY <1>2, <1>4, <1>6, <2>1 DEF PreloadInv, Preloaded
  <2>3. FreshInv(t)'
    BY <1>2, <1>4, <1>6, <2>1
       DEF FreshInv, InsertPcs, PlacePcs, SearchPcs, VerifyPcs, MayAllocate
  <2>4. WalkInv(t)'
    BY <1>4, <1>6, <2>1 DEF WalkInv, WalkPcs, Locking, On
  <2>5. ThreadInv(t)'
    BY <1>6, <2>1, <2>2, <2>3, <2>4, ElsewhereNext
       DEF Elsewhere, ThreadInv, VerifyPcs, PlacePcs, SearchPcs, ErasePcs
  <2>6. q \in Labels /\ q \notin {"linkback", "eraseback", "link", "linklock"}
    BY DEF Labels, InsertPcs
  <2>7. ~ Linking(t) /\ pc[t] # "rest"
    BY <1>1 DEF Linking
  <2>8. QED
    BY <1>4, <1>5, <1>6, <2>5, <2>6, <2>7, PrivateStep
<1> DEFINE l == th[t].level - 1
<1>7. CASE ~ (next[HeadNode][th[t].level] = NoNode /\ th[t].level > 0)
  <2>1. th' = [th EXCEPT ![t] = th[t]] /\ pc' = [pc EXCEPT ![t] = "walk"]
    BY <1>1, <1>7 DEF SkipLevel, Goto, TypeInv
  <2>2. th'[t] = th[t]
    BY <1>1, <2>1 DEF TypeInv
  <2>3. CursorInv(t) => CursorInv(t)'
    <3>1. SUFFICES ASSUME CursorInv(t) PROVE CursorInv(t)'
      OBVIOUS
    <3>2. CursorHeld(t)'
      BY <1>4, <2>2, <3>1, CursorKept DEF CursorInv, CursorHeld, Has, Holds
    <3>3. QED
      BY <1>4, <2>2, <3>1, <3>2 DEF CursorInv, Has, Holds
  <2>4. QED
    BY <1>1, <1>2, <1>3, <2>1, <2>3, <1>6 DEF Locking, SameArg
<1>8. CASE /\ next[HeadNode][th[t].level] = NoNode /\ th[t].level > 0
           /\ l <= th[t].pending /\ ~ InCursor(t, HeadNode)
  <2> DEFINE r == [th[t] EXCEPT !.level = l]
  <2>1. th' = [th EXCEPT ![t] = r] /\ pc' = [pc EXCEPT ![t] = "headlock"]
    BY <1>1, <1>8 DEF SkipLevel, Goto, TypeInv
  <2>2. ~ Locking(t)
    BY <1>2, <1>3, <1>8, LevelsDown DEF Locking, InCursor
  <2>3. l \in 0..listLevel /\ l \in -1..MaxLevel /\ th[t].pending <= l + 1
    <3>1. /\ listLevel \in Nat /\ listLevel < MaxLevel /\ MaxLevel \in Nat
          /\ th[t].pending \in Nat
      BY <1>1, <1>2, LevelsDown
    <3>2. QED
      BY <1>2, <1>8, <2>2, <3>1 DEF Locking
  <2> HIDE DEF l
  <2>4. r \in Locals /\ r.level = l /\ r.pending = th[t].pending /\ r.token = th[t].token
        /\ SameArg(t, r) /\ r.pr = th[t].pr /\ r.ins = th[t].ins
        /\ r.p = th[t].p /\ r.cur = th[t].cur
    BY <1>1, <2>3 DEF Locals, SameArg
  <2> HIDE DEF r
  <2>5. QED
    BY <1>2, <1>3, <1>8, <2>1, <2>2, <2>3, <2>4, <1>6
<1>9. CASE /\ next[HeadNode][th[t].level] = NoNode /\ th[t].level > 0
           /\ ~ (l <= th[t].pending /\ ~ InCursor(t, HeadNode))
  <2> DEFINE cur == IF l <= th[t].pending THEN [th[t].cur EXCEPT ![l] = HeadNode]
                    ELSE th[t].cur
             r == [th[t] EXCEPT !.level = l, !.cur = cur]
  <2>1. th' = [th EXCEPT ![t] = r] /\ pc' = [pc EXCEPT ![t] = "skip"]
    BY <1>1, <1>9 DEF SkipLevel, Goto, TypeInv
  <2>2. /\ l \in 0..listLevel /\ l \in Levels /\ l \in 0..MaxLevel
        /\ th[t].cur \in [0..MaxLevel -> Maybe]
    <3>1. listLevel \in Nat /\ listLevel < MaxLevel /\ MaxLevel \in Nat
      BY <1>1, LevelsDown
    <3>2. l \in 0..listLevel
      BY <1>2, <1>9, <3>1
    <3>3. l \in Levels /\ l \in 0..MaxLevel
      BY <3>1, <3>2 DEF Levels
    <3>4. th[t].cur \in [0..MaxLevel -> Maybe]
      BY <1>1 DEF Locals
    <3>5. QED
      BY <3>2, <3>3, <3>4
  <2>3. cur \in [0..MaxLevel -> Maybe]
    BY <2>2, NoNodeApart
  <2>4. l \in -1..MaxLevel
    BY <2>2
  <2>5. l <= th[t].pending => Locking(t)
    BY <1>2, <1>9, NoNodeApart, LevelsDown DEF InCursor, NoCursor
  <2>6. \A k \in 0..MaxLevel :
          cur[k] = IF k = l /\ l <= th[t].pending THEN HeadNode ELSE th[t].cur[k]
    BY <2>2
  <2>7. l < th[t].level /\ th[t].level = l + 1
    BY <1>2
  <2>8. ~ (l <= th[t].pending) => cur = th[t].cur
    OBVIOUS
  <2> HIDE DEF l, cur
  <2>9. r \in Locals /\ r.level = l /\ r.pending = th[t].pending /\ r.token = th[t].token
        /\ SameArg(t, r) /\ r.pr = th[t].pr /\ r.ins = th[t].ins
        /\ r.p = th[t].p /\ r.cur = cur
    BY <1>1, <2>3, <2>4 DEF Locals, SameArg
  <2> HIDE DEF r
  <2>10. th'[t] = r
    BY <1>1, <2>1 DEF TypeInv
  <2>11. ASSUME l <= th[t].pending PROVE CursorInv(t)'
    <3>1. CursorInv(t) /\ th[t].level <= th[t].pending /\ th[t].cur[th[t].level] = HeadNode
      BY <1>2, <1>3, <2>5, <2>11 DEF Locking
    <3>2. CursorHeld(t) /\ \A k \in Levels : On(k)' = On(k)
      BY <1>4, <3>1, SameWalk DEF CursorInv
    <3>6. Has(t, HeadNode)' /\ \A k : HeadNode \in On(k)
      BY <1>3, <1>4, <3>1 DEF CursorInv, Has, Holds, On
    <3>3. CursorHeld(t)'
      BY <1>4, <2>2, <2>6, <2>9, <2>10, <3>6, <2>11, <3>2 DEF CursorHeld, Has, Holds
    <3>4. \A k \in 0..MaxLevel :
             /\ k < l => cur[k] = NoNode
             /\ l <= k /\ k <= th[t].pending => cur[k] = HeadNode
             /\ cur[k] \in {NoNode, HeadNode}
      BY <1>2, <1>3, <2>2, <2>6, <2>7, <2>11, <3>1, LevelsDown DEF CursorInv
    <3>5. QED
      BY <1>3, <2>2, <2>9, <2>10, <2>11, <3>3, <3>4, <3>6, NoNodeApart DEF CursorInv
  <2>12. r.level <= r.pending => r.cur[r.level] = HeadNode
    BY <2>2, <2>6, <2>9
  <2>13. ~ (r.level <= r.pending) => r.cur = NoCursor
    <3>1. l \in Nat /\ th[t].pending \in Nat
      BY <1>2, <2>2, LevelsDown
    <3>2. QED
      BY <1>2, <2>7, <2>8, <2>9, <3>1 DEF Locking
  <2>14. QED
    BY <1>2, <1>3, <2>1, <2>2, <2>9, <2>11, <2>12, <2>13, <1>6
<1>10. QED
  BY <1>7, <1>8, <1>9

\* Where an insertion may come to: what it has to know there.
LEMMA Arrive ==
  ASSUME NEW t \in Threads, Preloaded(t)', th'[t].pending <= listLevel' + 1
  PROVE  /\ /\ pc'[t] \in WalkPcs
            /\ WalkInv(t)' /\ th'[t].ins = NoNode
            => ThreadInv(t)'
         /\ /\ pc'[t] = "again"
            /\ th'[t].cur = NoCursor /\ th'[t].pr = NoNode /\ th'[t].ins = NoNode
            => ThreadInv(t)'
         /\ /\ pc'[t] = "overlap"
            /\ PlaceInv(t)'
            => ThreadInv(t)'
         /\ /\ pc'[t] \in VerifyPcs
            /\ VerifyInv(t)' /\ th'[t].ins = NoNode /\ th'[t].cur = NoCursor
            => ThreadInv(t)'
<1>1. PreloadInv(t)'
  BY DEF PreloadInv
<1>2. CASE pc'[t] \in WalkPcs /\ WalkInv(t)' /\ th'[t].ins = NoNode
  <2>1. FreshInv(t)'
    BY <1>2 DEF FreshInv, WalkPcs, SearchPcs, VerifyPcs
  <2>2. QED
    BY <1>1, <1>2, <2>1, ElsewhereNext
       DEF Elsewhere, ThreadInv, WalkPcs, VerifyPcs, PlacePcs, SearchPcs, ErasePcs
<1>3. CASE /\ pc'[t] = "again" /\ th'[t].cur = NoCursor /\ th'[t].pr = NoNode
           /\ th'[t].ins = NoNode
  <2>1. FreshInv(t)'
    BY <1>3 DEF FreshInv
  <2>2. QED
    BY <1>1, <1>3, <2>1, ElsewhereNext
       DEF Elsewhere, ThreadInv, WalkPcs, VerifyPcs, PlacePcs, SearchPcs, ErasePcs
<1>4. CASE pc'[t] = "overlap" /\ PlaceInv(t)'
  <2>1. FreshInv(t)'
    BY <1>4 DEF FreshInv, PlacePcs, SearchPcs, VerifyPcs
  <2>2. QED
    BY <1>1, <1>4, <2>1, ElsewhereNext
       DEF Elsewhere, ThreadInv, WalkPcs, VerifyPcs, PlacePcs, SearchPcs, ErasePcs
<1>5. CASE /\ pc'[t] \in VerifyPcs /\ VerifyInv(t)' /\ th'[t].ins = NoNode
           /\ th'[t].cur = NoCursor
  <2>1. FreshInv(t)'
    BY <1>5 DEF FreshInv, VerifyPcs
  <2>2. QED
    BY <1>1, <1>5, <2>1, ElsewhereNext
       DEF Elsewhere, ThreadInv, WalkPcs, VerifyPcs, PlacePcs, SearchPcs, ErasePcs
<1>6. QED
  BY <1>2, <1>3, <1>4, <1>5

\* A leaf that t locks is on all of its levels up to pending, or the
\* cursor has what stands in front of it: the leaf may be the first one of a
\* list found empty and still being linked, but then whoever links it has
\* locked the head, and the levels to come have no live leaf for the cursor.
LEMMA ReadyAll ==
  ASSUME SkiplistInv, NEW t \in Threads, ~ Linking(t),
         NEW L \in Levels, NEW p \in Linked(L), lock[p] \in {t, NoThread}, CursorHeld(t),
         th[t].pending \in Levels,
         \A k \in 0..MaxLevel : L < k /\ k <= th[t].pending => th[t].cur[k] # NoNode,
         NEW k \in 0..th[t].pending
  PROVE  IF k <= height[p] THEN p \in Linked(k)
         ELSE Has(t, th[t].cur[k]) /\ th[t].cur[k] \in On(k)
<1>1. LinksInv /\ \A u \in Threads : ThreadInv(u)
  BY Parts
<1>2. k \in Levels /\ k \in 0..MaxLevel /\ k \in Nat /\ L \in Nat
  BY LevelsDown
<1>3. p \in used /\ p \in Leaves /\ L <= height[p] /\ \A m \in 0..L : p \in Linked(m)
  BY <1>1 DEF LinksInv, Linked
<1>4. height[p] \in Levels /\ height[p] \in Nat
  BY <1>3, LevelsDown, Parts DEF LinkTypes
<1>5. CASE k <= L
  BY <1>2, <1>3, <1>4, <1>5
<1>6. CASE L < k
  <2>1. th[t].cur[k] # NoNode
    BY <1>2, <1>6
  <2>2. Has(t, th[t].cur[k]) /\ th[t].cur[k] \in On(k)
    BY <1>2, <2>1 DEF CursorHeld
  <2>3. ASSUME k <= height[p], p \notin Linked(k) PROVE FALSE
    <3>1. ~ \A m \in 0..height[p] : p \in Linked(m)
      BY <1>2, <1>4, <2>3
    <3>2. PICK u \in Threads : Linking(u) /\ th[u].new = p
      BY <1>1, <1>3, <3>1 DEF LinksInv
    <3>3. u # t /\ LinkInv(u)
      BY <1>1, <3>2 DEF ThreadInv
    <3>4. ~ Holds(u, p)
      BY <3>3, SkiplistAssumption DEF Holds
    <3>5. th[u].p = HeadNode /\ Holds(u, HeadNode)
      BY <3>2, <3>3, <3>4 DEF LinkInv, Has
    <3>6. th[u].i \in 0..height[p]
      BY <3>2, <3>3 DEF LinkInv
    <3>7. ~ k < th[u].i
      BY <2>3, <3>2, <3>3, <1>2 DEF LinkInv
    <3>8. Linked(k) \subseteq dead
      <4>1. CASE k > th[u].i
        BY <4>1, <3>2, <3>3, <3>5, <1>2 DEF LinkInv
      <4>2. CASE k = th[u].i
        BY <4>2, <2>3, <3>2, <3>3, <3>5 DEF LinkInv, Linking
      <4>3. QED
        BY <4>1, <4>2, <3>6, <3>7, <1>2, <1>4
    <3>9. th[t].cur[k] = HeadNode
      BY <2>2, <3>8 DEF On, Has
    <3>10. QED
      BY <2>2, <3>3, <3>5, <3>9 DEF Has, Holds
  <2>4. QED
    BY <2>2, <2>3
<1>7. QED
  BY <1>2, <1>5, <1>6

\* Coming to the leaf the range goes into.
LEMMA ArrivePlace ==
  ASSUME SkiplistInv, NEW t \in Threads, ~ Linking(t),
         UNCHANGED <<links, dead, leaf, used, listLevel, preload>>,
         NEW L \in Levels, NEW p \in Linked(L), lock[p] \in {t, NoThread},
         lock'[p] = t, pc'[t] = "overlap", th'[t].p = p,
         th'[t].cur = th[t].cur, th'[t].pending = th[t].pending,
         th'[t].token = th[t].token, th'[t].ins \in {NoNode, p},
         CursorHeld(t),
         \A k \in 0..MaxLevel : th[t].cur[k] # NoNode => lock'[th[t].cur[k]] = t,
         Preloaded(t), th[t].pending <= listLevel + 1,
         p \in dead => min[p] <= th'[t].key /\ th'[t].key < max[p],
         Len(slots[p]) = Cap =>
           \A k \in 0..MaxLevel : L < k /\ k <= th[t].pending => th[t].cur[k] # NoNode
  PROVE  ThreadInv(t)'
<1>1. LinksInv
  BY Parts
<1>2. /\ dead' = dead /\ height' = height /\ slots' = slots /\ min' = min /\ max' = max
      /\ listLevel' = listLevel /\ preload' = preload
      /\ \A l \in Levels : Linked(l)' = Linked(l) /\ On(l)' = On(l)
  BY SameWalk DEF leaf
<1>3. p \in Linked(0) /\ p \in Leaves /\ p \in Nodes /\ p # HeadNode /\ 0 \in Levels
  BY <1>1, LevelsDown, NoNodeApart DEF LinksInv, Linked
<1>4. th[t].pending \in Levels /\ \A k \in 0..th[t].pending : k \in Levels
  BY LevelsDown DEF Preloaded
<1>5. CursorHeld(t)'
  BY CursorKept
<1>6. ASSUME Len(slots[p]) = Cap, NEW k \in 0..th[t].pending PROVE Ready(t, k)'
  <2>1. IF k <= height[p] THEN p \in Linked(k)
        ELSE Has(t, th[t].cur[k]) /\ th[t].cur[k] \in On(k)
    BY <1>4, <1>6, ReadyAll
  <2>2. k \in Levels /\ k \in 0..MaxLevel
    BY <1>4, LevelsDown
  <2>3. Has(t, th[t].cur[k]) => Has(t, th[t].cur[k])'
    BY <1>2, <2>2, NoNodeApart DEF Has, Holds
  <2>4. QED
    BY <1>2, <1>3, <2>1, <2>2, <2>3 DEF Ready
<1>7. PlaceInv(t)'
  BY <1>2, <1>3, <1>5, <1>6 DEF PlaceInv, PlacePcs, Holds
<1>8. QED
  BY <1>2, <1>7, Arrive DEF Preloaded

\* The cursor and p as they were, with their locks.
LEMMA CursorInvKept ==
  ASSUME UNCHANGED <<links, dead>>, NEW t \in Threads,
         th'[t].cur = th[t].cur, th'[t].pending = th[t].pending,
         th'[t].level = th[t].level,
         \A k \in 0..MaxLevel : th[t].cur[k] # NoNode => lock'[th[t].cur[k]] = t,
         \/ th'[t].p = th[t].p
         \/ th'[t].p # HeadNode /\ th'[t].p \in Nodes \ dead,
         lock'[th'[t].p] = t,
         CursorInv(t)
  PROVE  CursorInv(t)'
<1>1. CursorHeld(t)'
  BY CursorKept DEF CursorInv
<1>2. Has(t, th[t].p)'
  BY DEF CursorInv, Has, Holds
<1>3. QED
  BY <1>1 DEF CursorInv, Has, Holds

LEMMA WalkStep ==
  ASSUME SkiplistInv, NEW t \in Threads, Walk(t)
  PROVE  SkiplistInv'
<1>1. /\ TypeInv /\ ThreadInv(t) /\ th[t] \in Locals /\ pc[t] = "walk"
      /\ listLevel \in Levels /\ dead \subseteq Leaves /\ LinksInv /\ RankInv /\ ChainInv
      /\ lock \in [Nodes -> Threads \cup {NoThread}]
  BY Parts DEF Walk, TypeOK
<1>2. /\ Preloaded(t) /\ th[t].pending <= listLevel + 1 /\ th[t].ins = NoNode
      /\ th[t].level \in 0..listLevel /\ th[t].level \in Levels
      /\ th[t].pending \in Levels /\ th[t].pr = NoNode
      /\ th[t].p \in On(th[t].level) /\ th[t].p \in Nodes
      /\ IF Locking(t) THEN CursorInv(t) ELSE th[t].cur = NoCursor
  BY <1>1, Walking DEF WalkPcs
<1> DEFINE n == LiveNext(th[t].p, th[t].level)
           r == [th[t] EXCEPT !.leaf = n]
           q == IF n = NoNode
                THEN IF th[t].p = HeadNode \/ th[t].level # 0 THEN "down" ELSE "overlap"
                ELSE IF Locking(t) THEN "walklock" ELSE "compare"
<1>3. /\ Private /\ UNCHANGED lock
      /\ UNCHANGED <<links, dead>> /\ UNCHANGED <<links, dead, leaf, used, listLevel, preload>>
      /\ th' = [th EXCEPT ![t] = r] /\ pc' = [pc EXCEPT ![t] = q]
  BY <1>1 DEF Walk, Unlocked, Private, Goto, TypeInv
<1>4. n \in Linked(th[t].level) \cup {NoNode} /\ n \in Maybe
  <2>1. PICK N, rank : Ranks(th[t].level, N, rank)
    BY <1>1, <1>2 DEF RankInv
  <2>2. QED
    BY <2>1, <1>1, <1>2, LiveNextIs, NoNodeApart DEF Linked
<1> HIDE DEF n
<1>5. /\ r \in Locals /\ r.leaf = n /\ r.p = th[t].p /\ r.level = th[t].level
      /\ r.pending = th[t].pending /\ r.token = th[t].token /\ r.cur = th[t].cur
      /\ r.pr = th[t].pr /\ r.ins = th[t].ins /\ SameArg(t, r)
  BY <1>1, <1>4 DEF Locals, SameArg
<1> HIDE DEF r
<1>6. /\ th'[t] = r /\ pc'[t] = q /\ q \in {"down", "overlap", "walklock", "compare"}
      /\ q \in Labels
  BY <1>1, <1>3 DEF TypeInv, Labels, InsertPcs
<1>7. OthersLocks(t) /\ lock' \in [Nodes -> Threads \cup {NoThread}]
  BY <1>1, <1>3, LockSteps
<1>8. ThreadInv(t)'
  <2>1. Preloaded(t)' /\ th'[t].pending <= listLevel' + 1
    BY <1>2, <1>3, <1>5, <1>6 DEF Preloaded
  <2>2. CASE q = "overlap"
    <3>1. /\ th[t].level = 0 /\ th[t].p # HeadNode /\ CursorInv(t)
          /\ th[t].p \in Linked(0)
      BY <1>2, <2>2, LevelsDown DEF Locking, q, On
    <3>2. Has(t, th[t].p) /\ CursorHeld(t)
      BY <3>1 DEF CursorInv
    <3>3. \A k \in 0..MaxLevel : 0 < k /\ k <= th[t].pending => th[t].cur[k] # NoNode
      BY <3>1 DEF CursorInv
    <3>4. \A k \in 0..MaxLevel : th[t].cur[k] # NoNode => lock'[th[t].cur[k]] = t
      BY <3>2, <1>3 DEF CursorHeld, Has, Holds
    <3>5. lock[th[t].p] = t /\ lock'[th[t].p] = t /\ th[t].p \notin dead
      BY <3>2, <1>3 DEF Has, Holds
    <3>6. ~ Linking(t) /\ 0 \in Levels
      BY <1>1, LevelsDown DEF Linking
    <3>7. QED
      BY <1>2, <1>3, <1>5, <1>6, <2>2, <3>1, <3>2, <3>3, <3>4, <3>5, <3>6, ArrivePlace
  <2>3. CASE q # "overlap"
    <3>1. q \in WalkPcs
      BY <1>6, <2>3 DEF WalkPcs
    <3>2. Locking(t)' <=> Locking(t)
      BY <1>5, <1>6 DEF Locking
    <3>3. CursorInv(t) => CursorInv(t)'
      <4>1. SUFFICES ASSUME CursorInv(t) PROVE CursorInv(t)'
        OBVIOUS
      <4>2. lock[th[t].p] = t /\ CursorHeld(t)
        BY <4>1 DEF CursorInv, Has, Holds
      <4>3. \A k \in 0..MaxLevel : th[t].cur[k] # NoNode => lock'[th[t].cur[k]] = t
        BY <1>3, <4>2 DEF CursorHeld, Has, Holds
      <4>4. lock'[th'[t].p] = t
        BY <1>3, <1>5, <1>6, <4>2
      <4>5. QED
        BY <1>3, <1>5, <1>6, <4>1, <4>3, <4>4, CursorInvKept
    <3>4. \A l \in Levels : Linked(l)' = Linked(l) /\ On(l)' = On(l)
      BY <1>3, SameWalk
    <3>5. ASSUME q = "down", th[t].level = 0 PROVE th[t].p = HeadNode /\ NoLeaf
      <4>1. n = NoNode /\ th[t].p = HeadNode
        BY <1>6, <2>3, <3>5 DEF q
      <4>2. LiveNext(HeadNode, 0) = NoNode
        BY <4>1, <3>5 DEF n
      <4>3. QED
        BY <4>1, <4>2, <1>1, LevelsDown, NoneLive DEF NoLeaf
    <3>6. q # "down" => n # NoNode
      BY <2>3 DEF q
    <3>7. q = "walklock" => Locking(t)
      BY DEF q
    <3>8. q = "compare" => ~ Locking(t)
      BY DEF q
    <3>9. NoLeaf => NoLeaf'
      BY <1>3, <3>4, LevelsDown DEF NoLeaf
    <3>10. q # "skip" /\ q # "recheck" /\ q # "homelock" /\ listLevel' = listLevel
      BY <1>3, <1>6
    <3>11. WalkInv(t)'
      BY <1>2, <1>4, <1>5, <1>6, <3>1, <3>2, <3>3, <3>4, <3>5, <3>6, <3>7, <3>8, <3>9, <3>10
         DEF WalkInv
    <3>12. QED
      BY <1>2, <1>5, <1>6, <2>1, <3>1, <3>11, Arrive
  <2>4. QED
    BY <2>2, <2>3
<1>9. QED
  BY <1>1, <1>3, <1>5, <1>6, <1>7, <1>8, PrivateStep DEF Linking

LEMMA WalkLockStep ==
  ASSUME SkiplistInv, NEW t \in Threads, WalkLock(t)
  PROVE  SkiplistInv'
<1>1. /\ TypeInv /\ ThreadInv(t) /\ th[t] \in Locals /\ pc[t] = "walklock"
      /\ listLevel \in Levels /\ dead \subseteq Leaves /\ LinksInv
      /\ lock \in [Nodes -> Threads \cup {NoThread}]
  BY Parts DEF WalkLock, TypeOK
<1>2. /\ Preloaded(t) /\ th[t].pending <= listLevel + 1 /\ th[t].ins = NoNode
      /\ th[t].level \in 0..listLevel /\ th[t].level \in Levels
      /\ th[t].pending \in Levels /\ th[t].pr = NoNode
      /\ th[t].p \in On(th[t].level) /\ th[t].p \in Nodes
      /\ IF Locking(t) THEN CursorInv(t) ELSE th[t].cur = NoCursor
  BY <1>1, Walking DEF WalkPcs
<1> DEFINE n == th[t].leaf
<1>3. /\ Private /\ UNCHANGED <<links, dead>> /\ preload' = preload /\ listLevel' = listLevel
  BY DEF WalkLock, Private
<1>4. n \in Linked(th[t].level) /\ n \in Nodes /\ Locking(t) /\ CursorInv(t)
  BY <1>1, <1>2, NoNodeApart DEF ThreadInv, WalkInv, WalkPcs, Linked
<1>5. /\ Has(t, th[t].p)
      /\ \A k \in 0..MaxLevel : th[t].cur[k] # NoNode => Holds(t, th[t].cur[k])
  BY <1>4 DEF CursorInv, CursorHeld, Has
<1>6. ~ Linking(t) /\ pc[t] # "rest" /\ NoThread \notin Threads /\ t # NoThread
  BY <1>1, SkiplistAssumption DEF Linking
<1>7. CASE n \in dead \/ LiveNext(th[t].p, th[t].level) # n \/ LivePrev(n, th[t].level) # th[t].p
  <2> DEFINE r == [th[t] EXCEPT !.cur = NoCursor]
  <2>1. /\ th' = [th EXCEPT ![t] = r] /\ pc' = [pc EXCEPT ![t] = "again"]
        /\ AcquireRelease(t, n, {n, th[t].p} \cup CursorNodes(t))
    BY <1>1, <1>7 DEF WalkLock, Goto, TypeInv
  <2>2. NoCursor \in [0..MaxLevel -> Maybe]
    BY NoNodeApart DEF NoCursor
  <2>3. /\ r \in Locals /\ r.cur = NoCursor /\ r.pending = th[t].pending
        /\ r.token = th[t].token /\ r.pr = th[t].pr /\ r.ins = th[t].ins /\ SameArg(t, r)
    BY <1>1, <2>2 DEF Locals, SameArg
  <2> HIDE DEF r
  <2>4. th'[t] = r /\ pc'[t] = "again" /\ "again" \in Labels
    BY <1>1, <2>1 DEF TypeInv, Labels, InsertPcs
  <2>5. \A m \in ({n, th[t].p} \cup CursorNodes(t)) \cap Nodes : lock[m] = t \/ m = n
    BY <1>5 DEF CursorNodes, Has, Holds
  <2>6. OthersLocks(t) /\ lock' \in [Nodes -> Threads \cup {NoThread}]
    BY <1>1, <1>4, <2>1, <2>5, LockSteps
  <2>7. ThreadInv(t)'
    BY <1>2, <1>3, <2>3, <2>4, Arrive DEF Preloaded
  <2>8. QED
    BY <1>3, <1>6, <2>1, <2>3, <2>4, <2>6, <2>7, PrivateStep
<1>8. CASE ~ (n \in dead \/ LiveNext(th[t].p, th[t].level) # n
              \/ LivePrev(n, th[t].level) # th[t].p)
  <2>1. /\ th' = [th EXCEPT ![t] = th[t]] /\ pc' = [pc EXCEPT ![t] = "compare"]
        /\ Acquire(t, n)
    BY <1>1, <1>8 DEF WalkLock, Goto, TypeInv
  <2>2. th'[t] = th[t] /\ pc'[t] = "compare" /\ "compare" \in Labels
    BY <1>1, <2>1 DEF TypeInv, Labels, InsertPcs
  <2>3. /\ OthersLocks(t) /\ lock' \in [Nodes -> Threads \cup {NoThread}]
        /\ \A m \in Nodes : lock'[m] = IF m = n THEN t ELSE lock[m]
    BY <1>1, <1>4, <2>1, LockSteps
  <2>4. lock[n] = NoThread
    BY <2>1 DEF Acquire
  <2>5. \A m : Holds(t, m) => lock'[m] = t /\ m # n
    BY <1>6, <2>3, <2>4 DEF Holds
  <2>6. CursorInv(t)'
    BY <1>3, <1>4, <1>5, <2>2, <2>5, CursorInvKept DEF Has
  <2>7. n # th[t].p /\ n \notin CursorNodes(t)
    BY <1>5, <2>5 DEF CursorNodes, Has
  <2>8. Has(t, n)'
    BY <1>3, <1>4, <1>8, <2>2, <2>3 DEF Has, Holds
  <2>9. Linked(th[t].level)' = Linked(th[t].level) /\ On(th[t].level)' = On(th[t].level)
    BY <1>2, <1>3, <2>2, SameWalk
  <2>10. WalkInv(t)'
    BY <1>2, <1>3, <1>4, <2>2, <2>6, <2>7, <2>8, <2>9
       DEF WalkInv, WalkPcs, Locking, CursorNodes
  <2>11. ThreadInv(t)'
    BY <1>2, <1>3, <2>2, <2>10, Arrive DEF Preloaded, WalkPcs
  <2>12. QED
    BY <1>1, <1>3, <1>6, <2>1, <2>2, <2>3, <2>11, PrivateStep DEF SameArg
<1>9. QED
  BY <1>7, <1>8

LEMMA CompareStep ==
  ASSUME SkiplistInv, NEW t \in Threads, Compare(t)
  PROVE  SkiplistInv'
<1>1. /\ TypeInv /\ ThreadInv(t) /\ th[t] \in Locals /\ pc[t] = "compare"
      /\ listLevel \in Levels /\ dead \subseteq Leaves /\ LinksInv
      /\ lock \in [Nodes -> Threads \cup {NoThread}]
      /\ min \in [Leaves -> Nat]
  BY Parts DEF Compare, TypeOK
<1>2. /\ Preloaded(t) /\ th[t].pending <= listLevel + 1 /\ th[t].ins = NoNode
      /\ th[t].level \in 0..listLevel /\ th[t].level \in Levels
      /\ th[t].pending \in Levels /\ th[t].pr = NoNode
      /\ th[t].p \in On(th[t].level) /\ th[t].p \in Nodes
      /\ IF Locking(t) THEN CursorInv(t) ELSE th[t].cur = NoCursor
  BY <1>1, Walking DEF WalkPcs
<1> DEFINE n == th[t].leaf
<1>3. /\ Private /\ UNCHANGED <<links, dead>> /\ preload' = preload /\ listLevel' = listLevel
      /\ UNCHANGED <<links, dead, leaf, used, listLevel, preload>> /\ dead' = dead
      /\ \A l \in Levels : Linked(l)' = Linked(l) /\ On(l)' = On(l)
  BY SameWalk DEF Compare, Private
<1>4. /\ n \in Linked(th[t].level) /\ n \in Nodes /\ n \in Leaves /\ n # HeadNode
      /\ n # NoNode
      /\ Locking(t) => Has(t, n) /\ n # th[t].p /\ n \notin CursorNodes(t)
  BY <1>1, <1>2, NoNodeApart DEF ThreadInv, WalkInv, WalkPcs, Linked
<1>5. /\ Locking(t) => Has(t, th[t].p)
      /\ \A k \in 0..MaxLevel : th[t].cur[k] # NoNode =>
           Holds(t, th[t].cur[k]) /\ Locking(t) /\ k \in 0..th[t].pending
      /\ CursorHeld(t)
  BY <1>2, LevelsDown DEF CursorInv, CursorHeld, Has, NoCursor, Levels
<1>6. ~ Linking(t) /\ pc[t] # "rest" /\ NoThread \notin Threads /\ t # NoThread
  BY <1>1, SkiplistAssumption DEF Linking
<1>7. \A m \in Passed(t) : m = th[t].p /\ Locking(t) /\ ~ InCursor(t, m)
  BY DEF Passed
\* What is common to the steps that go on walking.
<1>8. ASSUME NEW r \in Locals, NEW q \in {"walk", "recheck", "down", "homelock"},
             th' = [th EXCEPT ![t] = r], pc' = [pc EXCEPT ![t] = q],
             OthersLocks(t), lock' \in [Nodes -> Threads \cup {NoThread}],
             r.pending = th[t].pending, r.token = th[t].token, r.pr = NoNode,
             r.ins = NoNode, SameArg(t, r), r.cur = th[t].cur, r.level = th[t].level,
             r.leaf = n, r.p \in {th[t].p, n},
             Locking(t) => CursorInv(t)',
             q \in {"recheck", "homelock"} => ~ Locking(t),
             q = "down" => th[t].level # 0
      PROVE  SkiplistInv'
  <2>1. th'[t] = r /\ pc'[t] = q
    BY <1>1, <1>8 DEF TypeInv
  <2>2. Preloaded(t)' /\ th'[t].pending <= listLevel' + 1
    BY <1>2, <1>3, <1>8, <2>1 DEF Preloaded
  <2>3. r.p \in On(th[t].level)'
    BY <1>2, <1>3, <1>4, <1>8 DEF On
  <2>4. n \in Linked(th[t].level)'
    BY <1>2, <1>3, <1>4, <1>8
  <2>5. Locking(t)' <=> Locking(t)
    BY <1>8, <2>1 DEF Locking
  <2>6. q \in WalkPcs /\ q \in Labels
    BY DEF WalkPcs, Labels, InsertPcs
  <2>7. WalkInv(t)'
    BY <1>2, <1>3, <1>8, <2>1, <2>3, <2>4, <2>5 DEF WalkInv
  <2>8. ThreadInv(t)'
    BY <1>8, <2>1, <2>2, <2>6, <2>7, Arrive
  <2>9. QED
    BY <1>3, <1>6, <1>8, <2>6, <2>8, PrivateStep
\* The cursor keeps its locks when p is passed, or the leaf given up.
<1>9. ASSUME Release(Passed(t))
      PROVE  /\ OthersLocks(t) /\ lock' \in [Nodes -> Threads \cup {NoThread}]
             /\ lock[n] = t => lock'[n] = t
             /\ \A k \in 0..MaxLevel : th[t].cur[k] # NoNode => lock'[th[t].cur[k]] = t
             /\ ~ Locking(t) => lock' = lock
  <2>1. /\ OthersLocks(t) /\ lock' \in [Nodes -> Threads \cup {NoThread}]
        /\ \A m \in Nodes : lock'[m] = IF m \in Passed(t) THEN NoThread ELSE lock[m]
    <3>1. \A m \in Passed(t) \cap Nodes : lock[m] = t
      BY <1>5, <1>7 DEF Has, Holds
    <3>2. QED
      BY <1>1, <1>9, <3>1, LockSteps
  <2>2. n \notin Passed(t)
    BY <1>4, <1>7
  <2>3. ASSUME NEW k \in 0..MaxLevel, th[t].cur[k] # NoNode
        PROVE  lock'[th[t].cur[k]] = t
    BY <1>5, <1>7, <2>1, <2>3 DEF InCursor, Holds
  <2>4. ~ Locking(t) => lock' = lock
    BY <1>1, <1>7, <2>1
  <2>5. QED
    BY <1>4, <2>1, <2>2, <2>3, <2>4
<1>10. CASE /\ th[t].key >= max[n]
            /\ Release(Passed(t))
            /\ th' = [th EXCEPT ![t].p = n]
            /\ Goto(t, "walk")
  <2> DEFINE r == [th[t] EXCEPT !.p = n]
  <2>1. th' = [th EXCEPT ![t] = r] /\ pc' = [pc EXCEPT ![t] = "walk"]
    BY <1>1, <1>10 DEF Goto, TypeInv
  <2>2. n \in Maybe
    BY <1>4, NoNodeApart
  <2>3. /\ r \in Locals /\ r.p = n /\ r.pending = th[t].pending /\ r.token = th[t].token
        /\ r.pr = th[t].pr /\ r.ins = th[t].ins /\ SameArg(t, r) /\ r.cur = th[t].cur
        /\ r.level = th[t].level /\ r.leaf = th[t].leaf
    BY <1>1, <2>2 DEF Locals, SameArg
  <2> HIDE DEF r
  <2>4. th'[t] = r
    BY <1>1, <2>1 DEF TypeInv
  <2>5. Locking(t) => CursorInv(t)'
    <3>1. SUFFICES ASSUME Locking(t) PROVE CursorInv(t)'
      OBVIOUS
    <3>2. lock[n] = t /\ n \in Nodes \ dead
      BY <1>4, <3>1 DEF Has, Holds
    <3>3. lock'[n] = t
      BY <1>9, <1>10, <3>2
    <3>4. QED
      BY <1>2, <1>3, <1>4, <1>9, <1>10, <2>3, <2>4, <3>1, <3>2, <3>3, CursorInvKept
  <2>6. QED
    BY <1>2, <1>8, <1>9, <1>10, <2>1, <2>3, <2>5
<1>11. CASE /\ th[t].key < max[n] /\ th[t].key < min[n] /\ ~ Locking(t)
            /\ th' = [th EXCEPT ![t].seen = min[n]]
            /\ Goto(t, "recheck")
            /\ UNCHANGED lock
  <2> DEFINE r == [th[t] EXCEPT !.seen = min[n]]
  <2>1. th' = [th EXCEPT ![t] = r] /\ pc' = [pc EXCEPT ![t] = "recheck"]
    BY <1>1, <1>11 DEF Goto, TypeInv
  <2>2. min[n] \in Nat
    BY <1>1, <1>4
  <2>3. /\ r \in Locals /\ r.p = th[t].p /\ r.pending = th[t].pending /\ r.token = th[t].token
        /\ r.pr = th[t].pr /\ r.ins = th[t].ins /\ SameArg(t, r) /\ r.cur = th[t].cur
        /\ r.level = th[t].level /\ r.leaf = th[t].leaf
    BY <1>1, <2>2 DEF Locals, SameArg
  <2> HIDE DEF r
  <2>4. OthersLocks(t) /\ lock' \in [Nodes -> Threads \cup {NoThread}]
    BY <1>1, <1>11, LockSteps
  <2>5. QED
    BY <1>2, <1>8, <1>11, <2>1, <2>3, <2>4
<1>12. CASE /\ th[t].key < max[n] /\ th[t].key < min[n] /\ Locking(t) /\ th[t].level # 0
            /\ Release({n})
            /\ Goto(t, "down")
            /\ UNCHANGED th
  <2>1. th' = [th EXCEPT ![t] = th[t]] /\ pc' = [pc EXCEPT ![t] = "down"] /\ th'[t] = th[t]
    BY <1>1, <1>12 DEF Goto, TypeInv
  <2>2. \A m \in {n} \cap Nodes : lock[m] = t
    BY <1>4, <1>12 DEF Has, Holds
  <2>3. /\ OthersLocks(t) /\ lock' \in [Nodes -> Threads \cup {NoThread}]
        /\ \A m \in Nodes : lock'[m] = IF m \in {n} THEN NoThread ELSE lock[m]
    BY <1>1, <1>12, <2>2, LockSteps
  <2>4. \A m : Holds(t, m) /\ m # n => lock'[m] = t
    BY <2>3 DEF Holds
  <2>5. \A k \in 0..MaxLevel : th[t].cur[k] # NoNode => th[t].cur[k] # n
    BY <1>4, <1>12 DEF CursorNodes
  <2>6. lock'[th[t].p] = t
    BY <1>4, <1>5, <1>12, <2>4 DEF Has
  <2>7. \A k \in 0..MaxLevel : th[t].cur[k] # NoNode => lock'[th[t].cur[k]] = t
    BY <1>5, <2>4, <2>5
  <2>8. CursorInv(t)'
    BY <1>2, <1>3, <1>12, <2>1, <2>6, <2>7, CursorInvKept
  <2>9. QED
    BY <1>1, <1>2, <1>8, <1>12, <2>1, <2>3, <2>8 DEF SameArg
<1>13. CASE /\ th[t].key < max[n] /\ Locking(t)
            /\ (th[t].key < min[n] /\ th[t].level = 0) \/ th[t].key >= min[n]
            /\ Release(Passed(t))
            /\ th' = [th EXCEPT ![t].p = n]
            /\ Goto(t, "overlap")
  <2> DEFINE r == [th[t] EXCEPT !.p = n]
  <2>1. th' = [th EXCEPT ![t] = r] /\ pc' = [pc EXCEPT ![t] = "overlap"]
    BY <1>1, <1>13 DEF Goto, TypeInv
  <2>2. n \in Maybe
    BY <1>4, NoNodeApart
  <2>3. /\ r \in Locals /\ r.p = n /\ r.pending = th[t].pending /\ r.token = th[t].token
        /\ r.pr = th[t].pr /\ r.ins = th[t].ins /\ SameArg(t, r) /\ r.cur = th[t].cur
        /\ r.level = th[t].level /\ r.leaf = th[t].leaf
    BY <1>1, <2>2 DEF Locals, SameArg
  <2> HIDE DEF r
  <2>4. th'[t] = r /\ pc'[t] = "overlap" /\ "overlap" \in Labels
    BY <1>1, <2>1 DEF TypeInv, Labels, InsertPcs
  <2>5. lock[n] = t /\ lock'[n] = t /\ n \notin dead
    BY <1>4, <1>9, <1>13 DEF Has, Holds
  <2>6. \A k \in 0..MaxLevel : th[t].level < k /\ k <= th[t].pending => th[t].cur[k] # NoNode
    BY <1>2, <1>13 DEF CursorInv
  <2>7. ThreadInv(t)'
    BY <1>2, <1>3, <1>4, <1>5, <1>6, <1>9, <1>13, <2>3, <2>4, <2>5, <2>6, ArrivePlace
  <2>8. QED
    BY <1>3, <1>6, <1>9, <1>13, <2>1, <2>3, <2>4, <2>7, PrivateStep
<1>14. CASE /\ th[t].key < max[n] /\ th[t].key >= min[n] /\ ~ Locking(t)
            /\ Goto(t, "homelock")
            /\ UNCHANGED <<th, lock>>
  <2>1. th' = [th EXCEPT ![t] = th[t]] /\ pc' = [pc EXCEPT ![t] = "homelock"]
    BY <1>1, <1>14 DEF Goto, TypeInv
  <2>2. OthersLocks(t) /\ lock' \in [Nodes -> Threads \cup {NoThread}]
    BY <1>1, <1>14, LockSteps
  <2>3. QED
    BY <1>1, <1>2, <1>8, <1>14, <2>1, <2>2 DEF SameArg
<1>15. QED
  BY <1>10, <1>11, <1>12, <1>13, <1>14 DEF Compare

LEMMA RecheckStep ==
  ASSUME SkiplistInv, NEW t \in Threads, Recheck(t)
  PROVE  SkiplistInv'
<1>1. /\ TypeInv /\ ThreadInv(t) /\ th[t] \in Locals /\ pc[t] = "recheck"
      /\ listLevel \in Levels
      /\ lock \in [Nodes -> Threads \cup {NoThread}]
  BY Parts DEF Recheck, TypeOK
<1>2. /\ Preloaded(t) /\ th[t].pending <= listLevel + 1 /\ th[t].ins = NoNode
      /\ th[t].level \in 0..listLevel /\ th[t].level \in Levels
      /\ th[t].pending \in Levels /\ th[t].pr = NoNode
      /\ th[t].p \in On(th[t].level)
  BY <1>1, Walking DEF WalkPcs
<1>3. ~ Locking(t) /\ th[t].cur = NoCursor
  BY <1>1, Walking DEF WalkPcs, ThreadInv, WalkInv
<1>4. /\ Private /\ UNCHANGED lock /\ preload' = preload /\ listLevel' = listLevel
      /\ \A l \in Levels : Linked(l)' = Linked(l) /\ On(l)' = On(l)
  BY SameWalk DEF Recheck, Unlocked, Private
<1>5. PICK q \in {"again", "down"} : pc' = [pc EXCEPT ![t] = q]
  BY DEF Recheck, Goto
<1>6. /\ th' = [th EXCEPT ![t] = th[t]] /\ th'[t] = th[t] /\ pc'[t] = q /\ q \in Labels
  BY <1>1, <1>5 DEF Recheck, TypeInv, Labels, InsertPcs
<1>7. OthersLocks(t) /\ lock' \in [Nodes -> Threads \cup {NoThread}]
  BY <1>1, <1>4, LockSteps
<1>8. Preloaded(t)' /\ th'[t].pending <= listLevel' + 1
  BY <1>2, <1>4, <1>6 DEF Preloaded
<1>9. q = "down" => WalkInv(t)'
  <2>1. th[t].level # 0
    BY <1>2, <1>3, LevelsDown DEF Locking
  <2>2. QED
    BY <1>2, <1>3, <1>4, <1>6, <2>1 DEF WalkInv, Locking
<1>10. ThreadInv(t)'
  BY <1>2, <1>3, <1>5, <1>6, <1>8, <1>9, Arrive DEF WalkPcs
<1>11. QED
  BY <1>1, <1>4, <1>5, <1>6, <1>7, <1>10, PrivateStep DEF Linking, SameArg

LEMMA HomeLockStep ==
  ASSUME SkiplistInv, NEW t \in Threads, HomeLock(t)
  PROVE  SkiplistInv'
<1>1. /\ TypeInv /\ ThreadInv(t) /\ th[t] \in Locals /\ pc[t] = "homelock"
      /\ listLevel \in Levels /\ LinksInv
      /\ lock \in [Nodes -> Threads \cup {NoThread}]
  BY Parts DEF HomeLock, TypeOK
<1>2. /\ Preloaded(t) /\ th[t].pending <= listLevel + 1 /\ th[t].ins = NoNode
      /\ th[t].level \in 0..listLevel /\ th[t].level \in Levels
      /\ th[t].pending \in Levels /\ th[t].pr = NoNode
  BY <1>1, Walking DEF WalkPcs
<1> DEFINE n == th[t].leaf
<1>3. ~ Locking(t) /\ th[t].cur = NoCursor
  BY <1>1, Walking DEF WalkPcs, ThreadInv, WalkInv
<1>4. n \in Linked(th[t].level) /\ n \in Nodes
  BY <1>1, NoNodeApart DEF ThreadInv, WalkInv, WalkPcs, Linked
<1>5. /\ Private /\ preload' = preload /\ listLevel' = listLevel
      /\ UNCHANGED <<links, dead, leaf, used, listLevel, preload>>
  BY DEF HomeLock, Private
<1>6. ~ Linking(t) /\ pc[t] # "rest" /\ th[t].pending < th[t].level
  BY <1>1, <1>2, <1>3, LevelsDown DEF Linking, Locking
<1>7. CASE th[t].key < min[n] \/ th[t].key >= max[n]
  <2> DEFINE r == [th[t] EXCEPT !.pending = th[t].level]
  <2>1. /\ th' = [th EXCEPT ![t] = r] /\ pc' = [pc EXCEPT ![t] = "again"]
        /\ AcquireRelease(t, n, {n})
    BY <1>1, <1>7 DEF HomeLock, Goto, TypeInv
  <2>2. th[t].level \in 0..MaxLevel
    BY <1>2, LevelsDown
  <2>3. /\ r \in Locals /\ r.pending = th[t].level /\ r.token = th[t].token
        /\ r.pr = th[t].pr /\ r.ins = th[t].ins /\ SameArg(t, r) /\ r.cur = th[t].cur
    BY <1>1, <2>2 DEF Locals, SameArg
  <2> HIDE DEF r
  <2>4. th'[t] = r /\ pc'[t] = "again" /\ "again" \in Labels
    BY <1>1, <2>1 DEF TypeInv, Labels, InsertPcs
  <2>5. OthersLocks(t) /\ lock' \in [Nodes -> Threads \cup {NoThread}]
    BY <1>1, <1>4, <2>1, LockSteps
  <2>6. Preloaded(t)' /\ th'[t].pending <= listLevel' + 1
    BY <1>1, <1>2, <1>5, <1>6, <2>3, <2>4, LevelsDown DEF Preloaded
  <2>7. ThreadInv(t)'
    BY <1>2, <1>3, <2>3, <2>4, <2>6, Arrive
  <2>8. QED
    BY <1>5, <1>6, <2>1, <2>3, <2>4, <2>5, <2>7, PrivateStep
<1>8. CASE ~ (th[t].key < min[n] \/ th[t].key >= max[n])
  <2> DEFINE r == [th[t] EXCEPT !.ins = n, !.p = n]
  <2>1. /\ th' = [th EXCEPT ![t] = r] /\ pc' = [pc EXCEPT ![t] = "overlap"]
        /\ Acquire(t, n)
    BY <1>1, <1>8 DEF HomeLock, Goto, TypeInv
  <2>2. n \in Maybe
    BY <1>4, NoNodeApart
  <2>3. /\ r \in Locals /\ r.pending = th[t].pending /\ r.token = th[t].token
        /\ r.p = n /\ r.ins = n /\ r.cur = th[t].cur /\ r.key = th[t].key
        /\ SameArg(t, r)
    BY <1>1, <2>2 DEF Locals, SameArg
  <2> HIDE DEF r
  <2>4. th'[t] = r /\ pc'[t] = "overlap" /\ "overlap" \in Labels
    BY <1>1, <2>1 DEF TypeInv, Labels, InsertPcs
  <2>5. /\ OthersLocks(t) /\ lock' \in [Nodes -> Threads \cup {NoThread}]
        /\ lock'[n] = t /\ lock[n] = NoThread
    BY <1>1, <1>4, <2>1, LockSteps DEF Acquire
  <2>6. CursorHeld(t) /\ \A k \in 0..MaxLevel : th[t].cur[k] = NoNode
    BY <1>3 DEF CursorHeld, NoCursor
  <2>7. n \in dead => min[n] <= th'[t].key /\ th'[t].key < max[n]
    <3>1. min \in [Leaves -> Nat] /\ max \in [Leaves -> Nat] /\ n \in Leaves
      BY <1>1, <1>4 DEF TypeInv, TypeOK, Linked
    <3>2. th[t].key \in Nat /\ min[n] \in Nat /\ max[n] \in Nat
      BY <1>1, <3>1 DEF Locals
    <3>3. QED
      BY <1>8, <2>3, <2>4, <3>2
  <2>8. \A k \in 0..MaxLevel : ~ (th[t].level < k /\ k <= th[t].pending)
    BY <1>2, <1>6, LevelsDown
  <2>9. ThreadInv(t)'
    BY <1>2, <1>4, <1>5, <1>6, <2>3, <2>4, <2>5, <2>6, <2>7, <2>8, ArrivePlace
  <2>10. QED
    BY <1>5, <1>6, <2>1, <2>3, <2>4, <2>5, <2>9, PrivateStep
<1>9. QED
  BY <1>7, <1>8

LEMMA DownStep ==
  ASSUME SkiplistInv, NEW t \in Threads, Down(t)
  PROVE  SkiplistInv'
<1>1. /\ TypeInv /\ ThreadInv(t) /\ th[t] \in Locals /\ pc[t] = "down"
      /\ listLevel \in Levels /\ dead \subseteq Leaves /\ LinksInv
      /\ lock \in [Nodes -> Threads \cup {NoThread}]
  BY Parts DEF Down, TypeOK
<1>2. /\ Preloaded(t) /\ th[t].pending <= listLevel + 1 /\ th[t].ins = NoNode
      /\ th[t].level \in 0..listLevel /\ th[t].level \in Levels
      /\ th[t].pending \in Levels /\ th[t].pr = NoNode
      /\ th[t].p \in On(th[t].level) /\ th[t].p \in Nodes
      /\ IF Locking(t) THEN CursorInv(t) ELSE th[t].cur = NoCursor
  BY <1>1, Walking DEF WalkPcs
<1>3. /\ Private /\ UNCHANGED <<links, dead>> /\ preload' = preload /\ listLevel' = listLevel
      /\ dead' = dead
      /\ \A l \in Levels : Linked(l)' = Linked(l) /\ On(l)' = On(l)
  BY SameWalk DEF Down, Private
<1>4. th[t].level = 0 => th[t].p = HeadNode /\ NoLeaf
  BY <1>1 DEF ThreadInv, WalkInv, WalkPcs
<1>5. ~ Linking(t) /\ pc[t] # "rest"
  BY <1>1 DEF Linking
<1> DEFINE level == th[t].level
           l == level - 1
           old == th[t].cur[level]
           cur == IF Locking(t) THEN [th[t].cur EXCEPT ![level] = th[t].p] ELSE th[t].cur
           R == IF Locking(t) /\ old # th[t].p /\ th[t].cur[level + 1] # old THEN {old} ELSE {}
           way == l = th[t].pending /\ th[t].p # HeadNode
           r == IF way THEN [th[t] EXCEPT !.cur = cur, !.level = l,
                                          !.pr = prev[th[t].p][l + 1], !.rule1 = NoNode]
                ELSE [th[t] EXCEPT !.cur = cur, !.level = l, !.rule1 = NoNode]
           q == IF way THEN "verifyprev" ELSE IF l = th[t].pending THEN "verifynode"
                ELSE IF l < 0 THEN "empty" ELSE "walk"
<1>6. /\ th' = [th EXCEPT ![t] = r] /\ pc' = [pc EXCEPT ![t] = q] /\ Release(R)
  BY <1>1 DEF Down, Goto, TypeInv
<1>7. /\ level \in Nat /\ level \in 0..MaxLevel /\ level + 1 \in 0..MaxLevel
      /\ l \in -1..MaxLevel /\ l + 1 = level /\ th[t].pending \in Nat
      /\ th[t].pending \in 0..MaxLevel /\ listLevel \in Nat
      /\ th[t].cur \in [0..MaxLevel -> Maybe]
  <2>1. /\ MaxLevel \in Nat /\ level \in Nat /\ level < MaxLevel /\ th[t].pending \in Nat
        /\ th[t].pending < MaxLevel /\ listLevel \in Nat
    BY <1>1, <1>2, LevelsDown
  <2>2. th[t].cur \in [0..MaxLevel -> Maybe]
    BY <1>1 DEF Locals
  <2>3. QED
    BY <2>1, <2>2
<1>8. cur \in [0..MaxLevel -> Maybe] /\ prev[th[t].p][l + 1] \in Maybe /\ NoNode \in Maybe
  BY <1>1, <1>2, <1>7, LinksType, NoNodeApart
<1>9. \A k \in 0..MaxLevel : cur[k] = IF Locking(t) /\ k = level THEN th[t].p ELSE th[t].cur[k]
  BY <1>7
<1>10. ~ Locking(t) => cur = NoCursor
  BY <1>2
<1> HIDE DEF cur, l
<1>11. /\ r \in Locals /\ r.cur = cur /\ r.level = l /\ r.pending = th[t].pending
       /\ r.token = th[t].token /\ r.p = th[t].p /\ r.ins = th[t].ins /\ SameArg(t, r)
       /\ r.pr = IF way THEN prev[th[t].p][level] ELSE NoNode
  <2>1. CASE way
    BY <1>1, <1>7, <1>8, <2>1 DEF Locals, SameArg
  <2>2. CASE ~ way
    BY <1>1, <1>2, <1>7, <1>8, <2>2 DEF Locals, SameArg
  <2>3. QED
    BY <2>1, <2>2
<1> HIDE DEF r
<1>12. /\ th'[t] = r /\ pc'[t] = q /\ q \in {"verifyprev", "verifynode", "empty", "walk"}
       /\ q \in Labels
  BY <1>1, <1>6 DEF TypeInv, Labels, InsertPcs
\* What is given up is p of an earlier leaf of the level, for which the cursor
\* has no other use.
<1>13. \A m \in R : Locking(t) /\ m # th[t].p /\ (m # NoNode => level = th[t].pending)
  <2>1. SUFFICES ASSUME NEW m \in R, m # NoNode, level # th[t].pending PROVE FALSE
    OBVIOUS
  <2>2. /\ m = old /\ th[t].cur[level + 1] # old /\ CursorInv(t)
        /\ level <= th[t].pending
    BY <1>2, <2>1 DEF Locking
  <2>3. level + 1 <= th[t].pending /\ level <= level + 1
    BY <1>7, <2>1, <2>2
  <2>4. th[t].cur[level + 1] = th[t].cur[level]
    BY <1>7, <2>1, <2>2, <2>3 DEF CursorInv
  <2>5. QED
    BY <2>2, <2>4
<1>14. \A k \in 0..MaxLevel : th[t].cur[k] # NoNode => Holds(t, th[t].cur[k])
  BY <1>2 DEF CursorInv, CursorHeld, Has, NoCursor
<1>15. /\ OthersLocks(t) /\ lock' \in [Nodes -> Threads \cup {NoThread}]
       /\ \A m \in Nodes : lock'[m] = IF m \in R THEN NoThread ELSE lock[m]
  <2>1. \A m \in R \cap Nodes : lock[m] = t
    BY <1>7, <1>14, NoNodeApart DEF Holds
  <2> HIDE DEF R
  <2>2. QED
    BY <1>1, <1>6, <2>1, LockSteps
<1> HIDE DEF R
<1>16. Preloaded(t)' /\ th'[t].pending <= listLevel' + 1
  BY <1>2, <1>3, <1>11, <1>12 DEF Preloaded
<1>17. CASE Locking(t)
  <2>1. level <= th[t].pending /\ CursorInv(t) /\ ~ way /\ l # th[t].pending
    BY <1>2, <1>7, <1>17 DEF Locking
  <2>2. Has(t, th[t].p)'
    BY <1>2, <1>3, <1>11, <1>12, <1>13, <1>15, <2>1 DEF CursorInv, Has, Holds
  <2>3. ASSUME NEW k \in 0..MaxLevel
        PROVE  /\ k < level => cur[k] = NoNode
               /\ level <= k /\ k <= th[t].pending => cur[k] # NoNode
               /\ k > th[t].pending => cur[k] = NoNode
               /\ th[t].p = HeadNode => cur[k] \in {NoNode, HeadNode}
    <3>1. th[t].p # NoNode
      BY <1>2, NoNodeApart
    <3>2. th[t].cur[k] # NoNode => k <= th[t].pending
      BY <2>1 DEF CursorInv, CursorHeld
    <3>3. /\ k < level => th[t].cur[k] = NoNode
          /\ level < k /\ k <= th[t].pending => th[t].cur[k] # NoNode
          /\ th[t].p = HeadNode => th[t].cur[k] \in {NoNode, HeadNode}
      BY <2>1 DEF CursorInv
    <3>4. QED
      BY <1>7, <1>9, <1>17, <2>1, <3>1, <3>2, <3>3
  <2>4. ASSUME NEW k \in 0..MaxLevel, cur[k] # NoNode
        PROVE  /\ k \in Levels /\ k <= th[t].pending
               /\ cur[k] \in Nodes \ dead /\ lock'[cur[k]] = t /\ cur[k] \in On(k)
    <3>1. CASE k = level
      BY <1>2, <1>3, <1>9, <1>11, <1>12, <1>17, <2>1, <2>2, <3>1 DEF Has, Holds
    <3>2. CASE k # level
      <4>1. /\ cur[k] = th[t].cur[k] /\ k \in Levels /\ k <= th[t].pending
            /\ Has(t, th[t].cur[k]) /\ th[t].cur[k] \in On(k)
        BY <1>9, <2>1, <2>4, <3>2 DEF CursorInv, CursorHeld
      <4>2. level < k
        BY <1>7, <2>3, <2>4, <3>2
      <4>3. cur[k] \notin R
        <5>1. ASSUME cur[k] \in R PROVE FALSE
          <6>1. level = th[t].pending
            BY <1>13, <2>4, <5>1
          <6>2. QED
            BY <6>1, <1>7, <4>1, <4>2
        <5>2. QED
          BY <5>1
      <4>4. QED
        BY <1>15, <4>1, <4>3 DEF Has, Holds
    <3>3. QED
      BY <3>1, <3>2
  <2>5. CursorHeld(t)'
    BY <1>3, <1>11, <1>12, <2>4 DEF CursorHeld, Has, Holds
  <2>6. CASE l < 0
    <3>1. level = 0 /\ th[t].p = HeadNode /\ NoLeaf /\ q = "empty"
      BY <1>4, <1>7, <2>1, <2>6
    <3>2. NoLeaf'
      BY <1>3, <3>1, LevelsDown DEF NoLeaf
    <3>3. Holds(t, HeadNode)'
      BY <1>11, <1>12, <2>2, <3>1 DEF Has
    <3>4. \A k \in 0..MaxLevel : cur[k] = IF k <= th[t].pending THEN HeadNode ELSE NoNode
      BY <1>7, <2>3, <3>1
    <3>5. EmptyInv(t)'
      BY <1>11, <1>12, <3>1, <3>2, <3>3, <3>4 DEF EmptyInv
    <3>6. PreloadInv(t)'
      BY <1>16 DEF PreloadInv
    <3>7. FreshInv(t)'
      BY <1>2, <1>11, <1>12, <1>16, <3>1 DEF FreshInv, SearchPcs, VerifyPcs, PlacePcs
    <3>8. ThreadInv(t)'
      BY <1>12, <3>1, <3>5, <3>6, <3>7, ElsewhereNext
         DEF Elsewhere, ThreadInv, WalkPcs, VerifyPcs, PlacePcs, SearchPcs, ErasePcs
    <3>9. QED
      BY <1>3, <1>5, <1>6, <1>11, <1>12, <1>15, <3>8, PrivateStep
  <2>7. CASE l >= 0
    <3>1. q = "walk" /\ l \in 0..listLevel /\ l \in Levels /\ l <= th[t].pending
      BY <1>2, <1>7, <2>1, <2>7, LevelsDown
    <3>2. \A k : k = l => th[t].p \in On(k)'
      <4>1. l \in 0..level
        BY <1>7, <3>1
      <4>2. th[t].p \in On(l)
        BY <1>1, <1>2, <4>1 DEF On, LinksInv
      <4>3. QED
        BY <1>3, <3>1, <4>2
    <3>3. CursorInv(t)'
      <4>1. /\ \A k \in 0..MaxLevel : k < l => cur[k] = NoNode
            /\ \A k \in 0..MaxLevel : l < k /\ k <= th[t].pending => cur[k] # NoNode
            /\ l \in 0..MaxLevel /\ cur[l] = NoNode
        BY <1>7, <2>3, <3>1
      <4>2. QED
        BY <1>11, <1>12, <2>2, <2>3, <2>5, <4>1 DEF CursorInv
    <3>4. WalkInv(t)'
      BY <1>2, <1>3, <1>11, <1>12, <2>1, <3>1, <3>2, <3>3 DEF WalkInv, Locking
    <3>5. ThreadInv(t)'
      BY <1>2, <1>11, <1>12, <1>16, <3>1, <3>4, Arrive DEF WalkPcs
    <3>6. QED
      BY <1>3, <1>5, <1>6, <1>11, <1>12, <1>15, <3>1, <3>5, PrivateStep
  <2>8. QED
    BY <1>7, <2>6, <2>7
<1>18. CASE ~ Locking(t)
  <2>1. th[t].pending < level /\ th[t].pending <= l /\ l \in 0..listLevel - 1
    BY <1>2, <1>7, <1>18 DEF Locking
  <2>2. CASE l = th[t].pending
    <3>1. q = IF th[t].p # HeadNode THEN "verifyprev" ELSE "verifynode"
      BY <2>2
    <3>2. th[t].p # HeadNode => r.pr \in On(level)
      <4>1. SUFFICES ASSUME th[t].p # HeadNode PROVE prev[th[t].p][level] \in On(level)
        BY <1>11, <2>2
      <4>2. th[t].p \in Linked(level)
        BY <1>2, <4>1 DEF On
      <4>3. QED
        BY <1>1, <1>2, <4>2 DEF Linked, LinksInv
    <3>3. th[t].p = HeadNode => r.pr = NoNode
      BY <1>11
    <3>4. \A k : k = level => On(k)' = On(level)
      BY <1>2, <1>3, <1>7, <1>11, <1>12
    <3>5. VerifyInv(t)'
      BY <1>2, <1>3, <1>7, <1>11, <1>12, <2>1, <2>2, <3>1, <3>2, <3>3, <3>4 DEF VerifyInv
    <3>6. ThreadInv(t)'
      BY <1>2, <1>10, <1>11, <1>12, <1>16, <1>18, <3>1, <3>5, Arrive DEF VerifyPcs
    <3>7. QED
      BY <1>3, <1>5, <1>6, <1>11, <1>12, <1>15, <3>1, <3>6, PrivateStep
  <2>3. CASE l # th[t].pending
    <3>1. q = "walk" /\ l \in 0..listLevel /\ l \in Levels /\ th[t].pending < l
      BY <1>1, <1>7, <2>1, <2>3, LevelsDown
    <3>2. \A k : k = l => th[t].p \in On(k)'
      <4>1. l \in 0..level
        BY <1>7, <3>1
      <4>2. th[t].p \in On(l)
        BY <1>1, <1>2, <4>1 DEF On, LinksInv
      <4>3. QED
        BY <1>3, <3>1, <4>2
    <3>3. WalkInv(t)'
      BY <1>2, <1>3, <1>7, <1>10, <1>11, <1>12, <1>18, <3>1, <3>2 DEF WalkInv, Locking
    <3>4. ThreadInv(t)'
      BY <1>2, <1>11, <1>12, <1>16, <3>1, <3>3, Arrive DEF WalkPcs
    <3>5. QED
      BY <1>3, <1>5, <1>6, <1>11, <1>12, <1>15, <3>1, <3>4, PrivateStep
  <2>4. QED
    BY <2>2, <2>3
<1>19. QED
  BY <1>17, <1>18

-----------------------------------------------------------------------------
(* verify_key_in_path() *)

\* What a thread that verifies its way knows.
LEMMA Verifying ==
  ASSUME SkiplistInv, NEW t \in Threads, pc[t] \in VerifyPcs
  PROVE  LET l == th[t].level + 1
         IN  /\ Preloaded(t) /\ th[t].pending \in Levels
             /\ th[t].cur = NoCursor /\ th[t].ins = NoNode
             /\ th[t].level \in 0..listLevel - 1 /\ th[t].level = th[t].pending
             /\ l \in Levels /\ l \in 0..listLevel /\ th[t].level \in Levels
             /\ listLevel \in Levels
             /\ th[t].p \in On(l) /\ th[t].p \in Nodes /\ th[t].p \in On(th[t].level)
<1>1. /\ PreloadInv(t) /\ FreshInv(t) /\ VerifyInv(t) /\ LinksInv /\ listLevel \in Levels
  BY Parts DEF ThreadInv, TypeOK
<1>2. pc[t] \in InsertPcs \ PlacePcs
  BY DEF VerifyPcs, InsertPcs, PlacePcs
<1>3. Preloaded(t) /\ th[t].pending \in Levels /\ th[t].cur = NoCursor /\ th[t].ins = NoNode
  BY <1>1, <1>2 DEF PreloadInv, FreshInv, MayAllocate, Preloaded
<1>4. /\ th[t].level \in 0..listLevel - 1 /\ th[t].level = th[t].pending
      /\ th[t].p \in On(th[t].level + 1)
  BY <1>1 DEF VerifyInv
<1>5. /\ th[t].level + 1 \in Levels /\ th[t].level + 1 \in 0..listLevel
      /\ th[t].level \in Levels /\ th[t].level \in 0..th[t].level + 1
  <2>1. listLevel \in Nat /\ listLevel < MaxLevel /\ MaxLevel \in Nat
    BY <1>1, LevelsDown
  <2>2. QED
    BY <2>1, <1>4 DEF Levels
<1>6. th[t].p \in Nodes
  BY <1>4, NoNodeApart DEF On, Linked
<1>7. th[t].p \in On(th[t].level)
  BY <1>1, <1>4, <1>5 DEF On, LinksInv
<1>8. QED
  BY <1>1, <1>3, <1>4, <1>5, <1>6, <1>7

LEMMA VerifyFails ==
  ASSUME SkiplistInv, NEW t \in Threads, pc[t] \in VerifyPcs, Private, Failed(t),
         OthersLocks(t), lock' \in [Nodes -> Threads \cup {NoThread}]
  PROVE  SkiplistInv'
<1>1. TypeInv /\ th[t] \in Locals
  BY Parts
<1>2. /\ Preloaded(t) /\ th[t].pending \in Levels /\ th[t].cur = NoCursor
      /\ th[t].ins = NoNode
      /\ th[t].pending + 1 \in 0..listLevel /\ th[t].pending + 1 \in Levels
      /\ listLevel \in Levels
  BY Verifying
<1>3. preload' = preload /\ listLevel' = listLevel
  BY DEF Private
<1> DEFINE r == [th[t] EXCEPT !.pending = th[t].pending + 1, !.pr = NoNode, !.nx = NoNode]
<1>4. th' = [th EXCEPT ![t] = r] /\ pc' = [pc EXCEPT ![t] = "again"]
  BY <1>1 DEF Failed, Goto, TypeInv
<1>5. /\ r \in Locals /\ r.pending = th[t].pending + 1 /\ r.token = th[t].token
      /\ r.pr = NoNode /\ r.ins = th[t].ins /\ r.cur = th[t].cur /\ SameArg(t, r)
  <2>1. th[t].pending + 1 \in 0..MaxLevel /\ NoNode \in Maybe
    BY <1>2, LevelsDown, NoNodeApart
  <2>2. QED
    BY <1>1, <2>1 DEF Locals, SameArg
<1> HIDE DEF r
<1>6. th'[t] = r /\ pc'[t] = "again" /\ "again" \in Labels
  BY <1>1, <1>4 DEF TypeInv, Labels, InsertPcs
<1>7. Preloaded(t)' /\ th'[t].pending <= listLevel' + 1
  BY <1>2, <1>3, <1>5, <1>6, LevelsDown DEF Preloaded
<1>8. ThreadInv(t)'
  BY <1>2, <1>5, <1>6, <1>7, Arrive
<1>9. QED
  BY <1>4, <1>5, <1>6, <1>8, PrivateStep DEF Linking, VerifyPcs

LEMMA VerifySucceeds ==
  ASSUME SkiplistInv, NEW t \in Threads, pc[t] \in VerifyPcs, Private, Verified(t),
         OthersLocks(t), lock' \in [Nodes -> Threads \cup {NoThread}],
         th[t].p \notin dead, lock'[th[t].p] = t
  PROVE  SkiplistInv'
<1>1. TypeInv /\ th[t] \in Locals
  BY Parts
<1>2. /\ Preloaded(t) /\ th[t].pending \in Levels /\ th[t].cur = NoCursor
      /\ th[t].ins = NoNode /\ th[t].level \in 0..listLevel
      /\ th[t].level \in Levels /\ th[t].level = th[t].pending /\ listLevel \in Levels
      /\ th[t].p \in Nodes /\ th[t].p \in On(th[t].level)
  BY Verifying, LevelsDown
<1>3. /\ preload' = preload /\ listLevel' = listLevel /\ dead' = dead
      /\ \A l \in Levels : Linked(l)' = Linked(l) /\ On(l)' = On(l)
  BY SameWalk DEF Private
<1> DEFINE level == th[t].level
           cur == [th[t].cur EXCEPT ![level] = th[t].p]
           r == [th[t] EXCEPT !.cur = cur, !.pr = NoNode, !.nx = NoNode]
<1>4. th' = [th EXCEPT ![t] = r] /\ pc' = [pc EXCEPT ![t] = "walk"]
  BY <1>1 DEF Verified, Goto, TypeInv
<1>5. level \in 0..MaxLevel /\ th[t].p \in Maybe /\ NoNode \in Maybe
  BY <1>2, LevelsDown, NoNodeApart
<1>6. \A k \in 0..MaxLevel : cur[k] = IF k = level THEN th[t].p ELSE NoNode
  BY <1>2, <1>5 DEF NoCursor
<1>7. cur \in [0..MaxLevel -> Maybe]
  BY <1>1, <1>5 DEF Locals
<1> HIDE DEF cur
<1>8. /\ r \in Locals /\ r.pending = th[t].pending /\ r.token = th[t].token
      /\ r.pr = NoNode /\ r.ins = th[t].ins /\ r.cur = cur /\ SameArg(t, r)
      /\ r.level = level /\ r.p = th[t].p
  BY <1>1, <1>5, <1>7 DEF Locals, SameArg
<1> HIDE DEF r
<1>9. th'[t] = r /\ pc'[t] = "walk" /\ "walk" \in Labels
  BY <1>1, <1>4 DEF TypeInv, Labels, InsertPcs
<1>10. Preloaded(t)' /\ th'[t].pending <= listLevel' + 1
  BY <1>2, <1>3, <1>8, <1>9, LevelsDown DEF Preloaded
<1>11. Has(t, th[t].p)'
  BY <1>2, <1>3, <1>8, <1>9 DEF Has, Holds
<1>12. CursorHeld(t)'
  <2>1. ASSUME NEW k \in 0..MaxLevel, cur[k] # NoNode
        PROVE  k = level /\ cur[k] = th[t].p
    BY <1>6, <2>1
  <2>2. \A k : k = level => On(k)' = On(level)
    BY <1>2, <1>3
  <2>3. level \in Nat
    BY <1>2, LevelsDown
  <2>4. QED
    BY <1>2, <1>3, <1>8, <1>9, <1>11, <2>1, <2>2, <2>3 DEF CursorHeld, Has, Holds
<1>13. CursorInv(t)'
  <2>1. level \in Nat /\ th[t].pending = level
    BY <1>2, LevelsDown
  <2>2. \A k \in 0..MaxLevel : /\ k < level => cur[k] = NoNode
                               /\ ~ (level < k /\ k <= level)
                               /\ level <= k /\ k <= level => cur[k] = cur[level]
                               /\ th[t].p = HeadNode => cur[k] \in {NoNode, HeadNode}
    BY <1>5, <1>6, <2>1
  <2>3. QED
    BY <1>8, <1>9, <1>11, <1>12, <2>1, <2>2 DEF CursorInv
<1>14. \A k : k = level => On(k)' = On(level)
  BY <1>2, <1>3
<1>15. th[t].level \in Int /\ th[t].level <= th[t].pending
  BY <1>2
<1>16. WalkInv(t)'
  BY <1>2, <1>3, <1>8, <1>9, <1>13, <1>14, <1>15 DEF WalkInv, Locking
<1>17. ThreadInv(t)'
  BY <1>2, <1>8, <1>9, <1>10, <1>16, Arrive DEF WalkPcs
<1>18. QED
  BY <1>4, <1>8, <1>9, <1>17, PrivateStep DEF Linking, VerifyPcs

LEMMA VerifyPrevStep ==
  ASSUME SkiplistInv, NEW t \in Threads, VerifyPrev(t)
  PROVE  SkiplistInv'
<1>1. /\ TypeInv /\ ThreadInv(t) /\ th[t] \in Locals /\ pc[t] = "verifyprev"
      /\ lock \in [Nodes -> Threads \cup {NoThread}]
  BY Parts DEF VerifyPrev, TypeOK
<1>2. LET l == th[t].level + 1
      IN  /\ Preloaded(t) /\ th[t].pending \in Levels /\ th[t].cur = NoCursor
          /\ th[t].ins = NoNode /\ th[t].level \in 0..listLevel - 1
          /\ th[t].level = th[t].pending /\ l \in Levels /\ th[t].p \in On(l)
          /\ listLevel \in Levels
  BY <1>1, Verifying DEF VerifyPcs
<1>3. th[t].p # HeadNode /\ th[t].pr \in On(th[t].level + 1)
  BY <1>1 DEF ThreadInv, VerifyInv, VerifyPcs
<1>4. th[t].pr \in Nodes
  BY <1>3, NoNodeApart DEF On, Linked
<1>5. /\ Private /\ preload' = preload /\ listLevel' = listLevel
      /\ \A l \in Levels : Linked(l)' = Linked(l) /\ On(l)' = On(l)
  BY SameWalk DEF VerifyPrev, Private
<1>6. /\ th' = [th EXCEPT ![t] = th[t]] /\ pc' = [pc EXCEPT ![t] = "verifynode"]
      /\ Acquire(t, th[t].pr)
  BY <1>1 DEF VerifyPrev, Goto, TypeInv
<1>7. th'[t] = th[t] /\ pc'[t] = "verifynode" /\ "verifynode" \in Labels
  BY <1>1, <1>6 DEF TypeInv, Labels, InsertPcs
<1>8. /\ OthersLocks(t) /\ lock' \in [Nodes -> Threads \cup {NoThread}]
      /\ lock'[th[t].pr] = t
  BY <1>1, <1>4, <1>6, LockSteps
<1>9. Preloaded(t)' /\ th'[t].pending <= listLevel' + 1
  BY <1>2, <1>5, <1>7, LevelsDown DEF Preloaded
<1>10. \A k : k = th[t].level + 1 => On(k)' = On(k)
  BY <1>2, <1>5
<1>11. VerifyInv(t)'
  BY <1>2, <1>3, <1>4, <1>5, <1>7, <1>8, <1>10 DEF VerifyInv, Holds
<1>12. ThreadInv(t)'
  BY <1>2, <1>7, <1>9, <1>11, Arrive DEF VerifyPcs
<1>13. QED
  BY <1>1, <1>5, <1>6, <1>7, <1>8, <1>12, PrivateStep DEF Linking, SameArg

LEMMA VerifyNodeStep ==
  ASSUME SkiplistInv, NEW t \in Threads, VerifyNode(t)
  PROVE  SkiplistInv'
<1>1. /\ TypeInv /\ ThreadInv(t) /\ th[t] \in Locals /\ pc[t] = "verifynode"
      /\ lock \in [Nodes -> Threads \cup {NoThread}] /\ LinksInv /\ dead \subseteq Leaves
  BY Parts DEF VerifyNode, TypeOK
<1>2. LET l == th[t].level + 1
      IN  /\ Preloaded(t) /\ th[t].pending \in Levels /\ th[t].cur = NoCursor
          /\ th[t].ins = NoNode /\ th[t].level \in 0..listLevel - 1
          /\ th[t].level = th[t].pending /\ l \in Levels /\ th[t].p \in On(l)
          /\ th[t].p \in Nodes /\ listLevel \in Levels
  BY <1>1, Verifying DEF VerifyPcs
<1>3. /\ pc[t] \in VerifyPcs /\ ~ Linking(t) /\ pc[t] # "rest"
  BY <1>1 DEF VerifyPcs, Linking
<1>4. IF th[t].p = HeadNode THEN th[t].pr = NoNode
      ELSE th[t].pr \in On(th[t].level + 1) /\ Holds(t, th[t].pr)
  BY <1>1, <1>3 DEF ThreadInv, VerifyInv
<1>5. /\ Private /\ preload' = preload /\ listLevel' = listLevel /\ dead' = dead
      /\ \A l \in Levels : Linked(l)' = Linked(l) /\ On(l)' = On(l)
  BY SameWalk DEF VerifyNode, Private
<1>6. PICK l \in Levels : l = th[t].level + 1
  BY <1>2
<1> DEFINE p == th[t].p
           nx == next[p][l]
           rule1 == IF p # HeadNode /\ th[t].pr # HeadNode THEN th[t].pr ELSE th[t].rule1
<1>7. rule1 \in Maybe /\ NoNode \in Maybe
  BY <1>1, NoNodeApart DEF Locals
<1>8. nx \in Linked(l) \cup {NoNode} /\ nx \in Maybe
  <2>1. nx \in Linked(l) \cup {NoNode}
    BY <1>1, <1>2 DEF LinksInv
  <2>2. QED
    BY <2>1, NoNodeApart DEF Linked
<1>9. \A m \in {th[t].pr, p} \cap Nodes : lock[m] = t \/ m = p
  BY <1>4, NoNodeApart DEF Holds
<1>10. CASE AcquireRelease(t, p, {th[t].pr, p}) /\ Failed(t)
  <2>1. OthersLocks(t) /\ lock' \in [Nodes -> Threads \cup {NoThread}]
    BY <1>1, <1>2, <1>9, <1>10, LockSteps
  <2>2. QED
    BY <1>3, <1>5, <1>10, <2>1, VerifyFails
<1>11. CASE /\ p # HeadNode
            /\ AcquireRelease(t, p, {th[t].pr, p})
            /\ th' = [th EXCEPT ![t].pr = prev[p][l], ![t].rule1 = rule1]
            /\ Goto(t, "verifyprev")
  <2> DEFINE r == [th[t] EXCEPT !.pr = prev[p][l], !.rule1 = rule1]
  <2>1. OthersLocks(t) /\ lock' \in [Nodes -> Threads \cup {NoThread}]
    BY <1>1, <1>2, <1>9, <1>11, LockSteps
  <2>2. th' = [th EXCEPT ![t] = r] /\ pc' = [pc EXCEPT ![t] = "verifyprev"]
    BY <1>1, <1>11 DEF Goto, TypeInv
  <2>3. prev[p][l] \in On(l) /\ prev[p][l] \in Maybe
    <3>1. p \in Linked(l)
      BY <1>2, <1>6, <1>11 DEF On
    <3>2. prev[p][l] \in On(l)
      BY <1>1, <1>2, <3>1 DEF LinksInv, Linked
    <3>3. QED
      BY <3>2, NoNodeApart DEF On, Linked
  <2> HIDE DEF rule1
  <2>4. /\ r \in Locals /\ r.pr = prev[p][l] /\ r.pending = th[t].pending
        /\ r.token = th[t].token /\ r.cur = th[t].cur /\ r.ins = th[t].ins
        /\ r.level = th[t].level /\ r.p = p /\ SameArg(t, r)
    BY <1>1, <1>7, <2>3 DEF Locals, SameArg
  <2> HIDE DEF r
  <2>5. th'[t] = r /\ pc'[t] = "verifyprev" /\ "verifyprev" \in Labels
    BY <1>1, <2>2 DEF TypeInv, Labels, InsertPcs
  <2>6. Preloaded(t)' /\ th'[t].pending <= listLevel' + 1
    BY <1>2, <1>5, <2>4, <2>5, LevelsDown DEF Preloaded
  <2>7. \A k : k = th[t].level + 1 => On(k)' = On(l)
    BY <1>5, <1>6
  <2>8. VerifyInv(t)'
    BY <1>2, <1>5, <1>6, <1>11, <2>3, <2>4, <2>5, <2>7 DEF VerifyInv
  <2>9. ThreadInv(t)'
    BY <1>2, <2>4, <2>5, <2>6, <2>8, Arrive DEF VerifyPcs
  <2>10. QED
    BY <1>3, <1>5, <2>1, <2>2, <2>4, <2>5, <2>9, PrivateStep
<1>12. ASSUME p # HeadNode => {th[t].pr, p} \cap dead = {},
              AcquireRelease(t, p, {th[t].pr} \ {p})
       PROVE  /\ OthersLocks(t) /\ lock' \in [Nodes -> Threads \cup {NoThread}]
              /\ lock'[p] = t /\ p \notin dead
  <2>1. \A m \in ({th[t].pr} \ {p}) \cap Nodes : lock[m] = t \/ m = p
    BY <1>9
  <2>2. QED
    BY <1>1, <1>2, <1>12, <2>1, LockSteps, NoNodeApart
<1>13. CASE /\ p # HeadNode => {th[t].pr, p} \cap dead = {}
            /\ AcquireRelease(t, p, {th[t].pr} \ {p})
            /\ Verified(t)
  BY <1>3, <1>5, <1>12, <1>13, VerifySucceeds
<1>14. CASE /\ p # HeadNode => {th[t].pr, p} \cap dead = {}
            /\ AcquireRelease(t, p, {th[t].pr} \ {p})
            /\ nx # NoNode /\ th' = [th EXCEPT ![t].nx = nx] /\ Goto(t, "verifynext")
  <2> DEFINE r == [th[t] EXCEPT !.nx = nx]
  <2>1. /\ OthersLocks(t) /\ lock' \in [Nodes -> Threads \cup {NoThread}]
        /\ lock'[p] = t /\ p \notin dead
    BY <1>12, <1>14
  <2>2. th' = [th EXCEPT ![t] = r] /\ pc' = [pc EXCEPT ![t] = "verifynext"]
    BY <1>1, <1>14 DEF Goto, TypeInv
  <2>3. nx \in Linked(l)
    BY <1>8, <1>14
  <2> HIDE DEF nx
  <2>4. /\ r \in Locals /\ r.nx = nx /\ r.pending = th[t].pending
        /\ r.token = th[t].token /\ r.cur = th[t].cur /\ r.ins = th[t].ins
        /\ r.level = th[t].level /\ r.p = p /\ SameArg(t, r)
    BY <1>1, <1>8 DEF Locals, SameArg
  <2> HIDE DEF r
  <2>5. th'[t] = r /\ pc'[t] = "verifynext" /\ "verifynext" \in Labels
    BY <1>1, <2>2 DEF TypeInv, Labels, InsertPcs
  <2>6. Preloaded(t)' /\ th'[t].pending <= listLevel' + 1
    BY <1>2, <1>5, <2>4, <2>5, LevelsDown DEF Preloaded
  <2>7. \A k : k = th[t].level + 1 => On(k)' = On(l) /\ Linked(k)' = Linked(l)
    BY <1>5, <1>6
  <2>8. Has(t, p)'
    BY <1>2, <1>5, <2>1, <2>4, <2>5 DEF Has, Holds
  <2>9. VerifyInv(t)'
    BY <1>2, <1>5, <1>6, <2>3, <2>4, <2>5, <2>7, <2>8 DEF VerifyInv
  <2>10. ThreadInv(t)'
    BY <1>2, <2>4, <2>5, <2>6, <2>9, Arrive DEF VerifyPcs
  <2>11. QED
    BY <1>3, <1>5, <2>1, <2>2, <2>4, <2>5, <2>10, PrivateStep
<1>15. QED
  BY <1>6, <1>10, <1>11, <1>13, <1>14 DEF VerifyNode

LEMMA VerifyNextStep ==
  ASSUME SkiplistInv, NEW t \in Threads, VerifyNext(t)
  PROVE  SkiplistInv'
<1>1. /\ ThreadInv(t) /\ pc[t] = "verifynext"
      /\ lock \in [Nodes -> Threads \cup {NoThread}]
  BY Parts DEF VerifyNext, TypeOK
<1>2. pc[t] \in VerifyPcs /\ Private /\ t # NoThread
  BY <1>1, SkiplistAssumption DEF VerifyPcs, VerifyNext
<1>3. Has(t, th[t].p) /\ th[t].nx \in Nodes
  BY <1>1, <1>2, NoNodeApart DEF ThreadInv, VerifyInv, Linked
<1>4. CASE AcquireRelease(t, th[t].nx, {th[t].p, th[t].nx}) /\ Failed(t)
  <2>1. OthersLocks(t) /\ lock' \in [Nodes -> Threads \cup {NoThread}]
    BY <1>1, <1>3, <1>4, LockSteps DEF Has, Holds
  <2>2. QED
    BY <1>2, <1>4, <2>1, VerifyFails
<1>5. CASE AcquireRelease(t, th[t].nx, {th[t].nx}) /\ Verified(t)
  <2>1. th[t].nx # th[t].p
    BY <1>2, <1>3, <1>5 DEF AcquireRelease, Has, Holds
  <2>2. /\ OthersLocks(t) /\ lock' \in [Nodes -> Threads \cup {NoThread}]
        /\ lock'[th[t].p] = t
    BY <1>1, <1>3, <1>5, <2>1, LockSteps DEF Has, Holds
  <2>3. QED
    BY <1>2, <1>3, <1>5, <2>2, VerifySucceeds DEF Has
<1>6. QED
  BY <1>4, <1>5 DEF VerifyNext

-----------------------------------------------------------------------------
(* The last leaf, without a walk *)

\* Coming to a leaf without locks.
LEMMA ArriveFast ==
  ASSUME NEW t \in Threads, Preloaded(t)', th'[t].pending <= listLevel' + 1,
         th'[t].cur = NoCursor, th'[t].pr = NoNode, th'[t].ins = NoNode,
         pc'[t] \in {"fast", "fastlock"},
         pc'[t] = "fastlock" => th'[t].leaf \in Linked(0)'
  PROVE  ThreadInv(t)'
<1>1. PreloadInv(t)' /\ FreshInv(t)'
  BY DEF PreloadInv, FreshInv
<1>2. QED
  BY <1>1, ElsewhereNext
     DEF Elsewhere, ThreadInv, WalkPcs, VerifyPcs, PlacePcs, SearchPcs, ErasePcs

LEMMA FastReadStep ==
  ASSUME SkiplistInv, NEW t \in Threads, FastRead(t)
  PROVE  SkiplistInv'
<1>1. /\ TypeInv /\ ThreadInv(t) /\ th[t] \in Locals /\ pc[t] = "fast"
      /\ lock \in [Nodes -> Threads \cup {NoThread}] /\ LinksInv
  BY Parts DEF FastRead, TypeOK
<1>2. /\ Preloaded(t) /\ th[t].cur = NoCursor /\ th[t].pr = NoNode /\ th[t].ins = NoNode
      /\ th[t].pending <= listLevel + 1
  BY <1>1, Fresh
<1>3. /\ Private /\ UNCHANGED lock /\ preload' = preload /\ listLevel' = listLevel
      /\ \A l \in Levels : Linked(l)' = Linked(l) /\ On(l)' = On(l)
  BY SameWalk DEF FastRead, Unlocked, Private
<1>4. OthersLocks(t) /\ lock' \in [Nodes -> Threads \cup {NoThread}]
  BY <1>1, <1>3, LockSteps
<1> DEFINE last == prev[HeadNode][0]
<1>5. last # NoNode => last \in Linked(0) /\ last \in Maybe
  BY <1>1, LevelsDown, NoNodeApart DEF LinksInv, On, Linked
<1>6. CASE last # NoNode /\ th' = [th EXCEPT ![t].leaf = last] /\ Goto(t, "fastlock")
  <2> DEFINE r == [th[t] EXCEPT !.leaf = last]
  <2>1. th' = [th EXCEPT ![t] = r] /\ pc' = [pc EXCEPT ![t] = "fastlock"]
    BY <1>1, <1>6 DEF Goto, TypeInv
  <2>2. /\ r \in Locals /\ r.leaf = last /\ r.cur = th[t].cur /\ r.pr = th[t].pr
        /\ r.ins = th[t].ins /\ r.pending = th[t].pending /\ r.token = th[t].token
        /\ SameArg(t, r)
    BY <1>1, <1>5, <1>6 DEF Locals, SameArg
  <2> HIDE DEF r
  <2>3. th'[t] = r /\ pc'[t] = "fastlock" /\ "fastlock" \in Labels
    BY <1>1, <2>1 DEF TypeInv, Labels, InsertPcs
  <2>4. Preloaded(t)' /\ th'[t].pending <= listLevel' + 1
    BY <1>2, <1>3, <2>2, <2>3 DEF Preloaded
  <2>5. Linked(0)' = Linked(0)
    BY <1>3, LevelsDown
  <2>6. ThreadInv(t)'
    BY <1>2, <1>5, <1>6, <2>2, <2>3, <2>4, <2>5, ArriveFast
  <2>7. QED
    BY <1>1, <1>3, <1>4, <2>1, <2>2, <2>3, <2>6, PrivateStep DEF Linking
<1>7. CASE UNCHANGED th /\ Goto(t, "again")
  <2>1. /\ th' = [th EXCEPT ![t] = th[t]] /\ pc' = [pc EXCEPT ![t] = "again"]
        /\ th'[t] = th[t] /\ pc'[t] = "again" /\ "again" \in Labels
    BY <1>1, <1>7 DEF Goto, TypeInv, Labels, InsertPcs
  <2>2. Preloaded(t)' /\ th'[t].pending <= listLevel' + 1
    BY <1>2, <1>3, <2>1 DEF Preloaded
  <2>3. ThreadInv(t)'
    BY <1>2, <2>1, <2>2, Arrive
  <2>4. QED
    BY <1>1, <1>3, <1>4, <2>1, <2>3, PrivateStep DEF Linking, SameArg
<1>8. QED
  BY <1>6, <1>7 DEF FastRead

LEMMA FastLockStep ==
  ASSUME SkiplistInv, NEW t \in Threads, FastLock(t)
  PROVE  SkiplistInv'
<1>1. /\ TypeInv /\ ThreadInv(t) /\ th[t] \in Locals /\ pc[t] = "fastlock"
      /\ lock \in [Nodes -> Threads \cup {NoThread}] /\ LinksInv
  BY Parts DEF FastLock, TypeOK
<1>2. /\ Preloaded(t) /\ th[t].cur = NoCursor /\ th[t].pr = NoNode /\ th[t].ins = NoNode
      /\ th[t].pending <= listLevel + 1
  BY <1>1, Fresh
<1>3. /\ Private /\ UNCHANGED <<links, dead, leaf, used, listLevel, preload>>
      /\ preload' = preload /\ listLevel' = listLevel
  BY DEF FastLock, Private
<1> DEFINE last == th[t].leaf
<1>4. last \in Linked(0) /\ last \in Nodes /\ last \in Maybe
  BY <1>1, NoNodeApart DEF ThreadInv, FreshInv, Linked
<1>5. CASE /\ last \notin dead /\ Room(t, last) /\ Acquire(t, last)
           /\ Goto(t, "overlap") /\ th' = [th EXCEPT ![t].ins = last, ![t].p = last]
  <2> DEFINE r == [th[t] EXCEPT !.ins = last, !.p = last]
  <2>1. th' = [th EXCEPT ![t] = r] /\ pc' = [pc EXCEPT ![t] = "overlap"]
    BY <1>1, <1>5 DEF Goto, TypeInv
  <2>2. /\ r \in Locals /\ r.cur = th[t].cur /\ r.p = last /\ r.ins = last
        /\ r.pending = th[t].pending /\ r.token = th[t].token /\ SameArg(t, r)
    BY <1>1, <1>4 DEF Locals, SameArg
  <2> HIDE DEF r
  <2>3. th'[t] = r /\ pc'[t] = "overlap" /\ "overlap" \in Labels
    BY <1>1, <2>1 DEF TypeInv, Labels, InsertPcs
  <2>4. /\ OthersLocks(t) /\ lock' \in [Nodes -> Threads \cup {NoThread}]
        /\ lock'[last] = t /\ lock[last] = NoThread
    BY <1>1, <1>4, <1>5, LockSteps DEF Acquire
  <2>5. CursorHeld(t) /\ \A k \in 0..MaxLevel : th[t].cur[k] = NoNode
    BY <1>2 DEF CursorHeld, NoCursor
  <2>6. Len(slots[last]) = Cap =>
          \A k \in 0..MaxLevel : ~ (0 < k /\ k <= th[t].pending)
    <3>1. Len(slots[last]) = Cap => th[t].pending = 0
      BY <1>5, CapAssumption DEF Room
    <3>2. QED
      BY <3>1
  <2>7. ~ Linking(t) /\ pc[t] # "rest" /\ 0 \in Levels
    BY <1>1, LevelsDown DEF Linking
  <2>8. ThreadInv(t)'
    BY <1>2, <1>3, <1>4, <1>5, <2>2, <2>3, <2>4, <2>5, <2>6, <2>7, ArrivePlace
  <2>9. QED
    BY <1>3, <2>1, <2>2, <2>3, <2>4, <2>7, <2>8, PrivateStep
<1>6. CASE AcquireRelease(t, last, {last}) /\ Goto(t, "again") /\ UNCHANGED th
  <2>1. /\ th' = [th EXCEPT ![t] = th[t]] /\ pc' = [pc EXCEPT ![t] = "again"]
        /\ th'[t] = th[t] /\ pc'[t] = "again" /\ "again" \in Labels
    BY <1>1, <1>6 DEF Goto, TypeInv, Labels, InsertPcs
  <2>2. OthersLocks(t) /\ lock' \in [Nodes -> Threads \cup {NoThread}]
    BY <1>1, <1>4, <1>6, LockSteps
  <2>3. Preloaded(t)' /\ th'[t].pending <= listLevel' + 1
    BY <1>2, <1>3, <2>1 DEF Preloaded
  <2>4. ThreadInv(t)'
    BY <1>2, <2>1, <2>3, Arrive
  <2>5. QED
    BY <1>1, <1>3, <2>1, <2>2, <2>4, PrivateStep DEF Linking, SameArg
<1>7. QED
  BY <1>5, <1>6 DEF FastLock

-----------------------------------------------------------------------------
(* The types of ranges and calls *)

LEMMA ToSetType ==
  ASSUME NEW S, NEW s \in Seq(S)
  PROVE  ToSet(s) \subseteq S
BY DEF ToSet

LEMMA RangesType ==
  /\ Named \subseteq Ranges /\ Ranges \subseteq Slot
  /\ \A g \in Programs :
       /\ ToSet(g.fill) \subseteq Named
       /\ \A t \in Threads : {w.r : w \in ToSet(g.todo[t])} \subseteq Named
<1>1. ASSUME NEW g \in Programs
      PROVE  /\ ToSet(g.fill) \subseteq Slot
             /\ \A t \in Threads : {w.r : w \in ToSet(g.todo[t])} \subseteq Slot
  <2>1. ToSet(g.fill) \subseteq Slot
    BY ProgramsAssumption DEF ToSet
  <2>2. ASSUME NEW t \in Threads, NEW w \in ToSet(g.todo[t]) PROVE w.r \in Slot
    <3>1. g.todo[t] \in Seq([op : {"insert", "hole", "delete", "lookup"}, r : Slot])
      BY ProgramsAssumption
    <3>2. w \in [op : {"insert", "hole", "delete", "lookup"}, r : Slot]
      BY <3>1, ToSetType
    <3>3. QED
      BY <3>2
  <2>3. QED
    BY <2>1, <2>2
<1>2. Named \subseteq Slot
  BY <1>1 DEF Named
<1>3. [key : 0..Limit, size : {r.size : r \in Named}] \subseteq Slot
  BY <1>2, SkiplistAssumption DEF Slot
<1>4. QED
  BY <1>2, <1>3 DEF Ranges, Named

LEMMA AlignStartType ==
  ASSUME NEW x \in Nat
  PROVE  AlignStart(x) \in Nat
<1>1. Align \in Nat /\ Align > 0 /\ x + Align - 1 \in Nat
  BY SkiplistAssumption
<1>2. PICK q : q = (x + Align - 1) \div Align
  OBVIOUS
<1>3. q \in Nat
  BY <1>1, <1>2
<1>4. QED
  BY <1>1, <1>2, <1>3 DEF AlignStart

LEMMA SlotAt ==
  ASSUME NEW s \in Seq(Slot), NEW i \in 1..Len(s)
  PROVE  s[i] \in Slot
OBVIOUS

\* A hole found ends below Limit.
LEMMA ScanType ==
  ASSUME NEW n, NEW last \in Nat, NEW size \in Nat, slots[n] \in Seq(Slot),
         NEW scan, scan = Scan(n, last, size)
  PROVE  /\ scan.is \in {"next", "none", "hole"} /\ scan.last \in Nat
         /\ scan.is = "hole" => scan.last + size <= Limit
<1> DEFINE s == slots[n]
           D == (1..Len(s) + 1) \X Nat
           ahead(b) == AlignStart(End(s[b[1]]))
           on(b) == /\ b[1] <= Len(s)
                    /\ \/ b[2] > s[b[1]].key
                       \/ /\ ~ (s[b[1]].key - b[2] >= size)
                          /\ ~ (ahead(b) + size > Limit)
           Stop == {b \in D : ~ on(b)}
           out == [b \in D |->
                    IF b[1] > Len(s) THEN [is |-> "next", last |-> b[2]]
                    ELSE IF s[b[1]].key - b[2] >= size
                    THEN [is |-> IF b[2] + size > Limit THEN "none" ELSE "hole",
                          last |-> b[2]]
                    ELSE [is |-> "none", last |-> ahead(b)]]
           step == [b \in D |-> IF ~ on(b) THEN b
                                ELSE IF b[2] > s[b[1]].key THEN <<b[1] + 1, b[2]>>
                                ELSE <<b[1] + 1, ahead(b)>>]
           mu == [b \in D |-> Len(s) + 1 - b[1]]
           body(f, b) ==
             IF b[1] > Len(s) THEN [is |-> "next", last |-> b[2]]
             ELSE IF b[2] > s[b[1]].key THEN f[<<b[1] + 1, b[2]>>]
             ELSE IF s[b[1]].key - b[2] >= size
             THEN [is |-> IF b[2] + size > Limit THEN "none" ELSE "hole", last |-> b[2]]
             ELSE LET end == AlignStart(End(s[b[1]]))
                  IN  IF end + size > Limit THEN [is |-> "none", last |-> end]
                      ELSE f[<<b[1] + 1, end>>]
           walk(f, b) == IF b \in Stop THEN out[b] ELSE f[step[b]]
           from == CHOOSE f : f = [b \in D |-> body(f, b)]
<1>1. Len(s) \in Nat
  OBVIOUS
<1>2. ASSUME NEW b \in D, b[1] <= Len(s)
      PROVE  s[b[1]].key \in Nat /\ ahead(b) \in Nat
  <2>1. s[b[1]] \in Slot
    <3>1. b[1] \in 1..Len(s)
      BY <1>1, <1>2
    <3>2. \A i \in 1..Len(s) : s[i] \in Slot
      BY SlotAt
    <3>3. QED
      BY <3>1, <3>2
  <2>2. \A e \in Slot : End(e) \in Nat /\ e.key \in Nat
    BY DEF Slot, End
  <2>3. End(s[b[1]]) \in Nat /\ s[b[1]].key \in Nat
    BY <2>1, <2>2
  <2>4. QED
    BY <2>3, AlignStartType
<1>3. scan = IF last > max[n] THEN [is |-> "next", last |-> last] ELSE from[<<1, last>>]
  BY DEF Scan
<1>4. \A b \in D : b[1] \in 1..Len(s) + 1 /\ b[2] \in Nat /\ b = <<b[1], b[2]>>
  OBVIOUS
<1>5. ASSUME NEW f, NEW b \in D PROVE body(f, b) = walk(f, b)
  <2>1. CASE b[1] > Len(s)
    <3>1. b \in Stop
      BY <1>1, <1>4, <2>1
    <3>2. QED
      BY <2>1, <3>1
  <2>2. CASE b[1] <= Len(s) /\ b[2] > s[b[1]].key
    <3>3. on(b) /\ ~ (b[1] > Len(s))
      BY <1>1, <1>4, <2>2
    <3>1. on(b) /\ b \notin Stop /\ ~ (b[1] > Len(s))
      BY <3>3
    <3>2. step[b] = <<b[1] + 1, b[2]>>
      BY <2>2, <3>1
    <3>4. QED
      BY <2>2, <3>1, <3>2
  <2>3. CASE b[1] <= Len(s) /\ ~ (b[2] > s[b[1]].key) /\ s[b[1]].key - b[2] >= size
    <3>1. b \in Stop /\ ~ (b[1] > Len(s))
      BY <1>1, <1>4, <2>3
    <3>2. QED
      BY <2>3, <3>1
  <2>4. CASE /\ b[1] <= Len(s) /\ ~ (b[2] > s[b[1]].key) /\ ~ (s[b[1]].key - b[2] >= size)
             /\ ahead(b) + size > Limit
    <3>1. b \in Stop /\ ~ (b[1] > Len(s))
      BY <1>1, <1>4, <2>4
    <3>2. QED
      BY <2>4, <3>1
  <2>5. CASE /\ b[1] <= Len(s) /\ ~ (b[2] > s[b[1]].key) /\ ~ (s[b[1]].key - b[2] >= size)
             /\ ~ (ahead(b) + size > Limit)
    <3>1. on(b) /\ b \notin Stop /\ ~ (b[1] > Len(s))
      BY <1>1, <1>4, <2>5
    <3>2. step[b] = <<b[1] + 1, ahead(b)>>
      BY <2>5, <3>1
    <3>3. QED
      BY <2>5, <3>1, <3>2
  <2> HIDE DEF body, walk, ahead
  <2>6. QED
    BY <1>1, <1>4, <2>1, <2>2, <2>3, <2>4, <2>5
<1>6. step \in [D -> D]
  <2>1. ASSUME NEW b \in D PROVE step[b] \in D
    <3>1. CASE ~ on(b)
      BY <3>1
    <3>2. CASE on(b) /\ b[2] > s[b[1]].key
      BY <1>1, <1>4, <3>2
    <3>3. CASE on(b) /\ ~ (b[2] > s[b[1]].key)
      <4>1. step[b] = <<b[1] + 1, ahead(b)>>
        BY <3>3
      <4>2. ahead(b) \in Nat
        BY <1>2, <3>3
      <4>3. b[1] + 1 \in 1..Len(s) + 1
        BY <1>1, <1>4, <3>3
      <4> HIDE DEF ahead, step
      <4>4. QED
        BY <4>1, <4>2, <4>3
    <3>4. QED
      BY <3>1, <3>2, <3>3
  <2>2. QED
    BY <2>1
<1>7. mu \in [D -> 0..Len(s)]
  BY <1>1, <1>4
<1>8. ASSUME NEW b \in D \ Stop PROVE mu[step[b]] < mu[b]
  <2>1. step[b][1] = b[1] + 1 /\ step[b] \in D /\ b \in D
    BY <1>6
  <2>2. mu[step[b]] = Len(s) + 1 - (b[1] + 1) /\ mu[b] = Len(s) + 1 - b[1]
    BY <2>1
  <2> HIDE DEF mu, step, D, Stop
  <2>3. b[1] \in Nat
    BY <1>4, <2>1
  <2>4. QED
    BY <1>1, <2>2, <2>3
<1>9. Descends(D, Stop, step, Len(s), mu)
  <2> HIDE DEF D, Stop, step, mu
  <2>1. QED
    BY <1>1, <1>6, <1>7, <1>8 DEF Descends
<1> HIDE DEF D, Stop, out, step, mu, body
<1>10. PICK g : Follows(g, D, Stop, out, step)
  BY <1>9, WalkExists
<1>11. \E f : f = [b \in D |-> body(f, b)]
  <2> DEFINE f == [b \in D |-> g[b]]
  <2>1. ASSUME NEW b \in D PROVE f[b] = walk(f, b)
    BY <1>6, <1>10, <2>1 DEF Follows
  <2>2. f = [b \in D |-> body(f, b)]
    BY <1>5, <2>1
  <2>3. QED
    BY <2>2
<1>12. from = [b \in D |-> body(from, b)]
  BY <1>11
<1> HIDE DEF from
<1>13. Follows(from, D, Stop, out, step)
  BY <1>5, <1>12 DEF Follows
<1>14. <<1, last>> \in D
  BY <1>1 DEF D
<1>15. \E y \in D \cap Stop : from[<<1, last>>] = out[y]
  <2>1. \A x \in D \ Stop : step[x] \in D
    BY <1>6
  <2>2. QED
    BY <1>9, <1>13, <1>14, <2>1, WalkEnds
<1>16. PICK y \in D : y \in Stop /\ from[<<1, last>>] = out[y]
  BY <1>15
<1>17. /\ out[y].is \in {"next", "none", "hole"} /\ out[y].last \in Nat
       /\ out[y].is = "hole" => out[y].last + size <= Limit
  <2>1. y[1] \in 1..Len(s) + 1 /\ y[2] \in Nat
    BY <1>4
  <2>2. CASE y[1] > Len(s)
    BY <2>1, <2>2 DEF out
  <2>3. CASE y[1] <= Len(s)
    <3>1. ahead(y) \in Nat /\ ~ (y[1] > Len(s))
      BY <1>1, <1>2, <2>1, <2>3
    <3> HIDE DEF ahead
    <3>2. QED
      BY <2>1, <2>3, <3>1, SkiplistAssumption DEF out
  <2>4. QED
    BY <1>1, <2>1, <2>2, <2>3
<1>18. QED
  BY <1>3, <1>16, <1>17

\* What Record() keeps.
LEMMA RecordType ==
  ASSUME TypeOK, NEW t, Contents' \subseteq Ranges,
         NEW c \in RS!Resting \cup RS!Calls \cup RS!Deleting, Record(t, c)
  PROVE  call' \in [Threads -> RS!Resting \cup RS!Calls \cup RS!Deleting]
<1>1. ASSUME NEW u \in Threads, call[u].op \notin {"none", "deleting"}
      PROVE  [call[u] EXCEPT !.ever = @ \cup Contents', !.always = @ \cap Contents']
               \in RS!Calls
  <2>1. call[u] \in RS!Resting \cup RS!Calls \cup RS!Deleting
    BY DEF TypeOK, RS!TypeOK
  <2>2. call[u] \in RS!Calls
    BY <2>1, <1>1 DEF RS!Resting, RS!Idle, RS!Deleting
  <2>3. PICK e, a : e = call[u].ever \cup Contents' /\ a = call[u].always \cap Contents'
    OBVIOUS
  <2>4. e \in SUBSET Ranges /\ a \in SUBSET Ranges
    BY <2>2, <2>3 DEF RS!Calls
  <2>5. [call[u] EXCEPT !.ever = e, !.always = a] \in RS!Calls
    BY <2>2, <2>4 DEF RS!Calls
  <2>6. QED
    BY <2>3, <2>5
<1>2. ASSUME NEW u \in Threads PROVE call[u] \in RS!Resting \cup RS!Calls \cup RS!Deleting
  BY DEF TypeOK, RS!TypeOK
<1>3. QED
  BY <1>1, <1>2 DEF Record

LEMMA OverType ==
  ASSUME NEW found \in BOOLEAN
  PROVE  Over(found) \in RS!Resting
BY DEF Over, RS!Resting, RS!Idle

LEMMA RestingType == Resting \in Locals
<1>1. NoCursor \in [0..MaxLevel -> Maybe] /\ NoNode \in Maybe
  BY NoNodeApart DEF NoCursor
<1>2. 0 \in -1..MaxLevel /\ 0 \in 0..MaxLevel
  BY SkiplistAssumption
<1>3. QED
  BY <1>1, <1>2 DEF Resting, Locals

LEMMA FillType ==
  ASSUME toFill \in Seq(Named)
  PROVE  (IF toFill = <<>> THEN toFill ELSE Tail(toFill)) \in Seq(Named)
OBVIOUS

\* A thread at rest, or stopped by an oops, has nothing to keep.
LEMMA AtRest ==
  ASSUME NEW t \in Threads, pc'[t] \in {"rest", "oops"}
  PROVE  ThreadInv(t)'
BY ElsewhereNext
   DEF Elsewhere, ThreadInv, InsertPcs, WalkPcs, VerifyPcs, PlacePcs, SearchPcs, ErasePcs,
       MayAllocate

\* The end of a call that has not changed the list.
LEMMA ReturnStep ==
  ASSUME SkiplistInv, NEW t \in Threads, ~ Linking(t),
         UNCHANGED <<links, dead, leaf, listLevel, used, preload, buried>>,
         NEW R, Return(t, R), \A m \in R \cap Nodes : lock[m] = t,
         NEW found \in BOOLEAN, Record(t, Over(found))
  PROVE  SkiplistInv'
<1>1. TypeInv /\ TypeOK
  BY Parts
<1>2. /\ th' = [th EXCEPT ![t] = Resting] /\ pc' = [pc EXCEPT ![t] = "rest"] /\ Release(R)
      /\ toFill' = (IF toFill = <<>> THEN toFill ELSE Tail(toFill)) /\ todo' = todo
      /\ preload' = preload /\ buried' = buried
      /\ UNCHANGED <<links, dead, leaf, listLevel, used>>
  BY DEF Return, Goto
<1>3. OthersLocks(t) /\ lock' \in [Nodes -> Threads \cup {NoThread}]
  BY <1>1, <1>2, LockSteps DEF TypeOK
<1>4. /\ th' \in [Threads -> Locals] /\ pc' \in [Threads -> Labels] /\ Others(t)
      /\ th'[t] = Resting /\ pc'[t] = "rest"
  BY <1>1, <1>2, RestingType DEF TypeInv, Others, Labels
<1>5. ~ Linking(t)'
  BY <1>4 DEF Linking
<1>6. Calm(t)
  BY <1>2, <1>3, <1>4, <1>5 DEF Calm
<1>7. Contents' = Contents /\ Contents \subseteq Ranges
  BY <1>1, <1>6, CalmKeeps DEF TypeOK, RS!TypeOK
<1>8. call' \in [Threads -> RS!Resting \cup RS!Calls \cup RS!Deleting]
  BY <1>1, <1>7, OverType, RecordType
<1>9. toFill' \in Seq(Named)
  BY <1>1, <1>2, FillType DEF TypeInv
<1>10. ThreadInv(t)' /\ ArgInv(t)'
  BY <1>4, AtRest DEF ArgInv
<1>11. /\ preload \in [Threads -> [Levels -> Levels \cup {Empty}]]
       /\ \A k \in Levels : preload[t][k] <= k
       /\ todo \in [Threads -> Seq([op : {"insert", "hole", "delete", "lookup"}, r : Named])]
       /\ buried \subseteq Ranges
  BY <1>1 DEF TypeInv, TypeOK
<1>12. QED
  BY <1>2, <1>3, <1>4, <1>6, <1>8, <1>9, <1>10, <1>11, CalmStep

-----------------------------------------------------------------------------
(* Searches *)

\* What a thread that searches knows.
LEMMA Searching ==
  ASSUME SkiplistInv, NEW t \in Threads, pc[t] \in SearchPcs
  PROVE  /\ th[t].cur = NoCursor /\ th[t].pr = NoNode /\ th[t].ins = NoNode
         /\ th[t].op = "hole" => Preloaded(t) /\ th[t].pending <= listLevel + 1
         /\ SearchInv(t) /\ ~ Linking(t) /\ pc[t] # "rest"
         /\ TypeInv /\ th[t] \in Locals /\ LinksInv /\ listLevel \in Levels
         /\ lock \in [Nodes -> Threads \cup {NoThread}]
<1>1. PreloadInv(t) /\ FreshInv(t) /\ SearchInv(t) /\ TypeInv /\ LinksInv /\ th[t] \in Locals
  BY Parts DEF ThreadInv
<1>2. pc[t] \notin VerifyPcs
  BY DEF SearchPcs, VerifyPcs
<1>3. th[t].op = "hole" => MayAllocate(t)
  BY DEF MayAllocate
<1>4. ~ Linking(t) /\ pc[t] # "rest"
  BY DEF SearchPcs, Linking
<1>5. QED
  BY <1>1, <1>2, <1>3, <1>4 DEF FreshInv, PreloadInv, TypeInv, TypeOK

LEMMA ArriveSearch ==
  ASSUME NEW t \in Threads, pc'[t] \in SearchPcs,
         th'[t].op = "hole" => Preloaded(t)' /\ th'[t].pending <= listLevel' + 1,
         th'[t].cur = NoCursor, th'[t].pr = NoNode, th'[t].ins = NoNode,
         SearchInv(t)'
  PROVE  ThreadInv(t)'
<1>1. pc'[t] \notin InsertPcs
  BY DEF SearchPcs, InsertPcs
<1>2. PreloadInv(t)' /\ FreshInv(t)'
  BY <1>1 DEF PreloadInv, FreshInv, MayAllocate, SearchPcs
<1>3. QED
  BY <1>2, ElsewhereNext
     DEF Elsewhere, ThreadInv, WalkPcs, VerifyPcs, PlacePcs, SearchPcs, ErasePcs

\* A step of the search.
LEMMA SearchMove ==
  ASSUME SkiplistInv, NEW t \in Threads, pc[t] \in SearchPcs, Private, OthersLocks(t),
         lock' \in [Nodes -> Threads \cup {NoThread}],
         NEW r \in Locals, th' = [th EXCEPT ![t] = r],
         NEW q \in SearchPcs, pc' = [pc EXCEPT ![t] = q],
         SameArg(t, r), r.op = th[t].op, r.pending = th[t].pending, r.token = th[t].token,
         r.cur = th[t].cur, r.pr = th[t].pr, r.ins = th[t].ins,
         th'[t] = r /\ pc'[t] = q => SearchInv(t)'
  PROVE  SkiplistInv'
<1>1. /\ th[t].cur = NoCursor /\ th[t].pr = NoNode /\ th[t].ins = NoNode
      /\ th[t].op = "hole" => Preloaded(t) /\ th[t].pending <= listLevel + 1
      /\ ~ Linking(t) /\ pc[t] # "rest" /\ TypeInv
  BY Searching
<1>2. th'[t] = r /\ pc'[t] = q
  BY <1>1 DEF TypeInv
<1>3. preload' = preload /\ listLevel' = listLevel
  BY DEF Private
<1>4. th'[t].op = "hole" => Preloaded(t)' /\ th'[t].pending <= listLevel' + 1
  BY <1>1, <1>2, <1>3 DEF Preloaded
<1>5. ThreadInv(t)'
  BY <1>1, <1>2, <1>4, ArriveSearch
<1>6. q \in Labels /\ q \notin {"linkback", "eraseback", "link", "linklock"}
  BY DEF SearchPcs, Labels
<1>7. QED
  BY <1>1, <1>5, <1>6, PrivateStep

LEMMA SearchFromTheTopStep ==
  ASSUME SkiplistInv, NEW t \in Threads, SearchFromTheTop(t)
  PROVE  SkiplistInv'
<1>1. pc[t] = "top" /\ pc[t] \in SearchPcs
  BY DEF SearchFromTheTop, SearchPcs
<1>2. /\ TypeInv /\ th[t] \in Locals /\ listLevel \in Levels
      /\ lock \in [Nodes -> Threads \cup {NoThread}]
  BY <1>1, Searching
<1> DEFINE r == [th[t] EXCEPT !.p = HeadNode, !.level = listLevel, !.leaf = NoNode]
<1>3. /\ Private /\ UNCHANGED lock /\ listLevel' = listLevel
      /\ th' = [th EXCEPT ![t] = r] /\ pc' = [pc EXCEPT ![t] = "seek"]
  BY <1>2 DEF SearchFromTheTop, Goto, Unlocked, Private, TypeInv
<1>4. /\ r \in Locals /\ r.p = HeadNode /\ r.level = listLevel /\ SameArg(t, r)
      /\ r.op = th[t].op /\ r.pending = th[t].pending /\ r.token = th[t].token
      /\ r.cur = th[t].cur /\ r.pr = th[t].pr /\ r.ins = th[t].ins
  <2>1. listLevel \in -1..MaxLevel /\ HeadNode \in Maybe /\ NoNode \in Maybe
    BY <1>2, LevelsDown, NoNodeApart
  <2>2. QED
    BY <2>1, <1>2 DEF Locals, SameArg
<1> HIDE DEF r
<1>5. th'[t] = r /\ pc'[t] = "seek" => SearchInv(t)'
  BY <1>2, <1>3, <1>4, LevelsDown DEF SearchInv, On
<1>6. OthersLocks(t) /\ lock' \in [Nodes -> Threads \cup {NoThread}] /\ "seek" \in SearchPcs
  BY <1>2, <1>3, LockSteps DEF SearchPcs
<1>7. QED
  BY <1>1, <1>3, <1>4, <1>5, <1>6, SearchMove

LEMMA SearchDownStep ==
  ASSUME SkiplistInv, NEW t \in Threads, pc[t] \in {"seek", "stable"}, SearchDown(t)
  PROVE  SkiplistInv'
<1>1. pc[t] \in SearchPcs
  BY DEF SearchPcs
<1>2. /\ TypeInv /\ th[t] \in Locals /\ listLevel \in Levels /\ LinksInv
      /\ lock \in [Nodes -> Threads \cup {NoThread}] /\ ~ Linking(t)
      /\ th[t].level \in 0..listLevel /\ th[t].p \in On(th[t].level)
  BY <1>1, Searching DEF SearchInv
<1>3. th[t].level \in Levels /\ th[t].level \in Nat /\ listLevel \in Nat
  BY <1>2, LevelsDown
<1>4. CASE th[t].level > 0 \/ th[t].op = "hole"
  <2> DEFINE l == th[t].level - 1
             r == [th[t] EXCEPT !.level = l]
             q == IF th[t].level > 0 THEN "seek" ELSE "holelock"
  <2>1. /\ Private /\ UNCHANGED lock /\ listLevel' = listLevel
        /\ \A k \in Levels : Linked(k)' = Linked(k) /\ On(k)' = On(k)
        /\ th' = [th EXCEPT ![t] = r] /\ pc' = [pc EXCEPT ![t] = q]
    BY <1>2, <1>4, SameWalk DEF SearchDown, Goto, Unlocked, Private, TypeInv
  <2>2. l \in -1..MaxLevel /\ l + 1 = th[t].level
    BY <1>3, LevelsDown
  <2> HIDE DEF l
  <2>3. /\ r \in Locals /\ r.p = th[t].p /\ r.level = l /\ SameArg(t, r)
        /\ r.op = th[t].op /\ r.pending = th[t].pending /\ r.token = th[t].token
        /\ r.cur = th[t].cur /\ r.pr = th[t].pr /\ r.ins = th[t].ins
    BY <1>2, <2>2 DEF Locals, SameArg
  <2> HIDE DEF r
  <2>4. \A k \in 0..th[t].level : th[t].p \in On(k)'
    <3>1. \A k \in 0..th[t].level : k \in Levels /\ th[t].p \in On(k)
      BY <1>2, <1>3, LevelsDown DEF On, LinksInv
    <3>2. QED
      BY <2>1, <3>1
  <2>5. th'[t] = r /\ pc'[t] = q => SearchInv(t)'
    <3>1. CASE th[t].level > 0
      BY <1>2, <1>3, <2>1, <2>2, <2>3, <2>4, <3>1 DEF SearchInv
    <3>2. CASE ~ (th[t].level > 0)
      BY <1>2, <1>3, <1>4, <2>1, <2>2, <2>3, <2>4, <3>2 DEF SearchInv
    <3>3. QED
      BY <3>1, <3>2
  <2>6. OthersLocks(t) /\ lock' \in [Nodes -> Threads \cup {NoThread}] /\ q \in SearchPcs
    BY <1>2, <2>1, LockSteps DEF SearchPcs
  <2>7. QED
    BY <1>1, <2>1, <2>3, <2>5, <2>6, SearchMove
<1>5. CASE ~ (th[t].level > 0 \/ th[t].op = "hole")
  <2>1. /\ UNCHANGED <<links, dead, leaf, listLevel, used, preload, buried>>
        /\ Return(t, {}) /\ Record(t, Over(FALSE))
    BY <1>5 DEF SearchDown, Done
  <2>2. QED
    BY <1>2, <2>1, ReturnStep
<1>6. QED
  BY <1>4, <1>5

LEMMA SeekStep ==
  ASSUME SkiplistInv, NEW t \in Threads, Seek(t)
  PROVE  SkiplistInv'
<1>1. pc[t] = "seek" /\ pc[t] \in SearchPcs
  BY DEF Seek, SearchPcs
<1>2. /\ TypeInv /\ th[t] \in Locals /\ listLevel \in Levels /\ LinksInv /\ RankInv
      /\ lock \in [Nodes -> Threads \cup {NoThread}] /\ dead \subseteq Leaves
      /\ th[t].level \in 0..listLevel /\ th[t].p \in On(th[t].level)
  BY <1>1, Searching, Parts DEF SearchInv
<1>3. th[t].level \in Levels /\ 0 \in 0..th[t].level /\ th[t].p \in Nodes
  BY <1>2, LevelsDown, NoNodeApart DEF On, Linked
<1> DEFINE n == LiveNext(th[t].p, th[t].level)
<1>4. CASE n = NoNode
  BY <1>1, <1>4, SearchDownStep DEF Seek
<1>5. CASE n # NoNode
  <2> DEFINE r == [th[t] EXCEPT !.leaf = n]
  <2>1. /\ Private /\ UNCHANGED lock /\ listLevel' = listLevel
        /\ \A k \in Levels : Linked(k)' = Linked(k) /\ On(k)' = On(k)
        /\ th' = [th EXCEPT ![t] = r] /\ pc' = [pc EXCEPT ![t] = "examine"]
    BY <1>2, <1>5, SameWalk DEF Seek, Goto, Unlocked, Private, TypeInv
  <2>2. n \in Linked(th[t].level) /\ n \in Maybe
    <3>1. PICK N, rank : Ranks(th[t].level, N, rank)
      BY <1>2, <1>3 DEF RankInv
    <3>2. QED
      BY <3>1, <1>2, <1>3, <1>5, LiveNextIs, NoNodeApart DEF Linked
  <2> HIDE DEF n
  <2>3. /\ r \in Locals /\ r.p = th[t].p /\ r.level = th[t].level /\ SameArg(t, r)
        /\ r.op = th[t].op /\ r.pending = th[t].pending /\ r.token = th[t].token
        /\ r.cur = th[t].cur /\ r.pr = th[t].pr /\ r.ins = th[t].ins /\ r.leaf = n
    BY <1>2, <2>2 DEF Locals, SameArg
  <2> HIDE DEF r
  <2>4. th'[t] = r /\ pc'[t] = "examine" => SearchInv(t)'
    <3>1. n \in Linked(0) /\ 0 \in Levels
      BY <1>2, <1>3, <2>2, LevelsDown DEF LinksInv
    <3>2. QED
      BY <1>2, <1>3, <2>1, <2>2, <2>3, <3>1 DEF SearchInv
  <2>5. /\ OthersLocks(t) /\ lock' \in [Nodes -> Threads \cup {NoThread}]
        /\ "examine" \in SearchPcs
    BY <1>2, <2>1, LockSteps DEF SearchPcs
  <2>6. QED
    BY <1>1, <2>1, <2>3, <2>4, <2>5, SearchMove
<1>6. QED
  BY <1>4, <1>5

LEMMA ExamineStep ==
  ASSUME SkiplistInv, NEW t \in Threads, Examine(t)
  PROVE  SkiplistInv'
<1>1. pc[t] = "examine" /\ pc[t] \in SearchPcs
  BY DEF Examine, SearchPcs
<1>2. /\ TypeInv /\ th[t] \in Locals /\ listLevel \in Levels
      /\ lock \in [Nodes -> Threads \cup {NoThread}] /\ min \in [Leaves -> Nat]
      /\ th[t].level \in 0..listLevel /\ th[t].p \in On(th[t].level)
      /\ th[t].leaf \in Linked(0) /\ th[t].leaf \in Linked(th[t].level)
  BY <1>1, Searching DEF SearchInv, TypeInv, TypeOK
<1>3. th[t].level \in Levels /\ 0 \in Levels /\ th[t].leaf \in Leaves /\ th[t].leaf \in Maybe
  BY <1>2, LevelsDown, NoNodeApart DEF Linked
<1>4. /\ Private /\ UNCHANGED lock /\ listLevel' = listLevel
      /\ \A k \in Levels : Linked(k)' = Linked(k) /\ On(k)' = On(k)
  BY SameWalk DEF Examine, Unlocked, Private
<1>5. OthersLocks(t) /\ lock' \in [Nodes -> Threads \cup {NoThread}]
  BY <1>2, <1>4, LockSteps
<1> DEFINE n == th[t].leaf
<1>6. ASSUME NEW r \in Locals, th' = [th EXCEPT ![t] = r], SameArg(t, r),
             r.op = th[t].op, r.pending = th[t].pending, r.token = th[t].token,
             r.cur = th[t].cur, r.pr = th[t].pr, r.ins = th[t].ins, r.leaf = n,
             r.level = th[t].level, r.p \in {th[t].p, n},
             NEW q \in {"seek", "stable", "holecheck", "grab"},
             q = "holecheck" => th[t].op = "hole",
             pc' = [pc EXCEPT ![t] = q]
      PROVE  SkiplistInv'
  <2>1. th'[t] = r /\ pc'[t] = q => SearchInv(t)'
    BY <1>2, <1>3, <1>4, <1>6 DEF SearchInv, On
  <2>2. q \in SearchPcs
    BY DEF SearchPcs
  <2>3. QED
    BY <1>1, <1>4, <1>5, <1>6, <2>1, <2>2, SearchMove
<1>7. CASE th' = [th EXCEPT ![t].p = n] /\ Goto(t, "seek")
  <2> DEFINE r == [th[t] EXCEPT !.p = n]
  <2>1. th' = [th EXCEPT ![t] = r] /\ pc' = [pc EXCEPT ![t] = "seek"]
    BY <1>2, <1>7 DEF Goto, TypeInv
  <2>2. /\ r \in Locals /\ r.p = n /\ r.level = th[t].level /\ SameArg(t, r)
        /\ r.op = th[t].op /\ r.pending = th[t].pending /\ r.token = th[t].token
        /\ r.cur = th[t].cur /\ r.pr = th[t].pr /\ r.ins = th[t].ins /\ r.leaf = n
    BY <1>2, <1>3 DEF Locals, SameArg
  <2> HIDE DEF r
  <2>3. QED
    BY <1>6, <2>1, <2>2
<1>8. CASE th' = [th EXCEPT ![t].seen = min[n]] /\ Goto(t, "stable")
  <2> DEFINE r == [th[t] EXCEPT !.seen = min[n]]
  <2>1. th' = [th EXCEPT ![t] = r] /\ pc' = [pc EXCEPT ![t] = "stable"]
    BY <1>2, <1>8 DEF Goto, TypeInv
  <2>2. min[n] \in Nat
    BY <1>2, <1>3
  <2>3. /\ r \in Locals /\ r.p = th[t].p /\ r.level = th[t].level /\ SameArg(t, r)
        /\ r.op = th[t].op /\ r.pending = th[t].pending /\ r.token = th[t].token
        /\ r.cur = th[t].cur /\ r.pr = th[t].pr /\ r.ins = th[t].ins /\ r.leaf = n
    BY <1>2, <2>2 DEF Locals, SameArg
  <2> HIDE DEF r
  <2>4. QED
    BY <1>6, <2>1, <2>3
<1>9. CASE UNCHANGED th /\ Goto(t, IF th[t].op = "hole" THEN "holecheck" ELSE "grab")
  <2>1. /\ th' = [th EXCEPT ![t] = th[t]]
        /\ pc' = [pc EXCEPT ![t] = IF th[t].op = "hole" THEN "holecheck" ELSE "grab"]
    BY <1>2, <1>9 DEF Goto, TypeInv
  <2>2. QED
    BY <1>2, <1>6, <2>1 DEF SameArg
<1>10. QED
  BY <1>7, <1>8, <1>9 DEF Examine

LEMMA StableStep ==
  ASSUME SkiplistInv, NEW t \in Threads, Stable(t)
  PROVE  SkiplistInv'
<1>1. pc[t] = "stable" /\ pc[t] \in SearchPcs
  BY DEF Stable, SearchPcs
<1>2. /\ TypeInv /\ th[t] \in Locals /\ lock \in [Nodes -> Threads \cup {NoThread}]
  BY <1>1, Searching
<1>3. CASE Goto(t, "top") /\ UNCHANGED th /\ Unlocked
  <2>1. /\ Private /\ UNCHANGED lock /\ th' = [th EXCEPT ![t] = th[t]]
        /\ pc' = [pc EXCEPT ![t] = "top"] /\ "top" \in SearchPcs
    BY <1>2, <1>3 DEF Goto, Unlocked, TypeInv, SearchPcs
  <2>2. OthersLocks(t) /\ lock' \in [Nodes -> Threads \cup {NoThread}]
    BY <1>2, <2>1, LockSteps
  <2>3. pc'[t] = "top" => SearchInv(t)'
    BY DEF SearchInv
  <2>4. QED
    BY <1>1, <1>2, <2>1, <2>2, <2>3, SearchMove DEF SameArg
<1>4. CASE SearchDown(t)
  BY <1>1, <1>4, SearchDownStep
<1>5. QED
  BY <1>3, <1>4 DEF Stable

LEMMA HoleCheckStep ==
  ASSUME SkiplistInv, NEW t \in Threads, HoleCheck(t)
  PROVE  SkiplistInv'
<1>1. pc[t] = "holecheck" /\ pc[t] \in SearchPcs
  BY DEF HoleCheck, SearchPcs
<1>2. /\ TypeInv /\ th[t] \in Locals /\ listLevel \in Levels /\ LinksInv
      /\ lock \in [Nodes -> Threads \cup {NoThread}]
      /\ th[t].level \in 0..listLevel /\ th[t].p \in On(th[t].level) /\ th[t].op = "hole"
  BY <1>1, Searching DEF SearchInv
<1>3. th[t].p \in On(0)
  <2>1. th[t].level \in Levels /\ 0 \in 0..th[t].level
    BY <1>2, LevelsDown
  <2>2. QED
    BY <1>2, <2>1 DEF On, LinksInv
<1>4. /\ Private /\ UNCHANGED lock /\ th' = [th EXCEPT ![t] = th[t]]
      /\ \A k \in Levels : Linked(k)' = Linked(k) /\ On(k)' = On(k)
  BY <1>2, SameWalk DEF HoleCheck, Unlocked, Private, TypeInv
<1>5. OthersLocks(t) /\ lock' \in [Nodes -> Threads \cup {NoThread}]
  BY <1>2, <1>4, LockSteps
<1>6. PICK q \in {"holelock", "top"} : pc' = [pc EXCEPT ![t] = q]
  BY <1>2 DEF HoleCheck, Goto
<1>7. th'[t] = th[t] /\ pc'[t] = q => SearchInv(t)'
  BY <1>2, <1>3, <1>4, LevelsDown DEF SearchInv
<1>8. QED
  BY <1>1, <1>2, <1>4, <1>5, <1>6, <1>7, SearchMove DEF SearchPcs, SameArg

LEMMA HoleLockStep ==
  ASSUME SkiplistInv, NEW t \in Threads, HoleLock(t)
  PROVE  SkiplistInv'
<1>1. pc[t] = "holelock" /\ pc[t] \in SearchPcs
  BY DEF HoleLock, SearchPcs
<1>2. /\ TypeInv /\ th[t] \in Locals /\ LinksInv /\ max \in [Leaves -> Nat]
      /\ lock \in [Nodes -> Threads \cup {NoThread}]
      /\ th[t].p \in On(0) /\ th[t].op = "hole"
  BY <1>1, Searching DEF SearchInv, TypeInv, TypeOK
<1> DEFINE p == th[t].p
<1>3. p \in Nodes /\ 0 \in Levels /\ p # HeadNode => p \in Leaves
  BY <1>2, NoNodeApart, LevelsDown DEF On, Linked
<1>4. /\ Private /\ \A k \in Levels : Linked(k)' = Linked(k) /\ On(k)' = On(k)
  BY SameWalk DEF HoleLock, Private
<1>5. CASE AcquireRelease(t, p, {p}) /\ Goto(t, "top") /\ UNCHANGED th
  <2>1. /\ th' = [th EXCEPT ![t] = th[t]] /\ pc' = [pc EXCEPT ![t] = "top"]
        /\ "top" \in SearchPcs
    BY <1>2, <1>5 DEF Goto, TypeInv, SearchPcs
  <2>2. OthersLocks(t) /\ lock' \in [Nodes -> Threads \cup {NoThread}]
    BY <1>2, <1>3, <1>5, LockSteps, NoNodeApart DEF On, Linked
  <2>3. pc'[t] = "top" => SearchInv(t)'
    BY DEF SearchInv
  <2>4. QED
    BY <1>1, <1>2, <1>4, <2>1, <2>2, <2>3, SearchMove DEF SameArg
<1>6. CASE /\ p # HeadNode /\ AcquireRelease(t, p, {p})
           /\ th' = [th EXCEPT ![t].p = prev[p][0]] /\ UNCHANGED pc
  <2> DEFINE r == [th[t] EXCEPT !.p = prev[p][0]]
  <2>1. th' = [th EXCEPT ![t] = r] /\ pc' = [pc EXCEPT ![t] = "holelock"]
    BY <1>1, <1>2, <1>6 DEF TypeInv
  <2>2. p \in Nodes /\ prev[p][0] \in On(0) /\ prev[p][0] \in Maybe /\ 0 \in Levels
    BY <1>2, <1>6, LevelsDown, NoNodeApart DEF LinksInv, On, Linked
  <2>3. /\ r \in Locals /\ r.p = prev[p][0] /\ SameArg(t, r)
        /\ r.op = th[t].op /\ r.pending = th[t].pending /\ r.token = th[t].token
        /\ r.cur = th[t].cur /\ r.pr = th[t].pr /\ r.ins = th[t].ins
    BY <1>2, <2>2 DEF Locals, SameArg
  <2> HIDE DEF r
  <2>4. OthersLocks(t) /\ lock' \in [Nodes -> Threads \cup {NoThread}]
    BY <1>2, <1>6, <2>2, LockSteps
  <2>5. th'[t] = r /\ pc'[t] = "holelock" => SearchInv(t)'
    BY <1>2, <1>4, <2>2, <2>3 DEF SearchInv
  <2>6. QED
    BY <1>1, <1>4, <2>1, <2>3, <2>4, <2>5, SearchMove
<1>7. CASE /\ Acquire(t, p) /\ Goto(t, "holewalk")
           /\ th' = [th EXCEPT ![t].last =
                       AlignStart(IF p = HeadNode THEN th[t].key ELSE max[p])]
  <2> DEFINE x == IF p = HeadNode THEN th[t].key ELSE max[p]
             r == [th[t] EXCEPT !.last = AlignStart(x)]
  <2>1. th' = [th EXCEPT ![t] = r] /\ pc' = [pc EXCEPT ![t] = "holewalk"]
    BY <1>1, <1>2, <1>7 DEF TypeInv, Goto
  <2>2. p \in Nodes /\ 0 \in Levels
    BY <1>2, LevelsDown, NoNodeApart DEF On, Linked
  <2>3. x \in Nat
    BY <1>2 DEF On, Linked, Locals
  <2>4. AlignStart(x) \in Nat
    <3> HIDE DEF x
    <3>1. QED BY <2>3, AlignStartType
  <2>5. /\ r \in Locals /\ r.p = p /\ SameArg(t, r)
        /\ r.op = th[t].op /\ r.pending = th[t].pending /\ r.token = th[t].token
        /\ r.cur = th[t].cur /\ r.pr = th[t].pr /\ r.ins = th[t].ins
    <3> HIDE DEF x
    <3>1. QED BY <1>2, <2>4 DEF Locals, SameArg
  <2> HIDE DEF r
  <2>6. /\ OthersLocks(t) /\ lock' \in [Nodes -> Threads \cup {NoThread}]
        /\ lock'[p] = t
    BY <1>2, <1>7, <2>2, LockSteps
  <2>7. th'[t] = r /\ pc'[t] = "holewalk" => SearchInv(t)'
    BY <1>2, <1>4, <2>2, <2>5, <2>6 DEF SearchInv, Holds
  <2>8. "holewalk" \in SearchPcs
    BY DEF SearchPcs
  <2>9. QED
    BY <1>1, <1>4, <2>1, <2>5, <2>6, <2>7, <2>8, SearchMove
<1>8. QED
  BY <1>5, <1>6, <1>7 DEF HoleLock

\* A key in the space of holes, with the size of the call, is a range.
LEMMA HoleRange ==
  ASSUME NEW t, Arg(t) \in Ranges, NEW key \in 0..Limit
  PROVE  [key |-> key, size |-> th[t].size] \in Ranges
<1> DEFINE Sizes == {r.size : r \in Named}
<1>1. th[t].size \in Sizes
  <2>1. CASE Arg(t) \in Named
    BY <2>1 DEF Arg
  <2>2. CASE Arg(t) \in [key : 0..Limit, size : Sizes]
    BY <2>2 DEF Arg
  <2>3. QED
    BY <2>1, <2>2 DEF Ranges
<1> HIDE DEF Sizes
<1>2. [key |-> key, size |-> th[t].size] \in [key : 0..Limit, size : Sizes]
  BY <1>1
<1>3. QED
  BY <1>2 DEF Ranges, Sizes

\* A hole is left to skiplist_insert().
LEMMA HoleFound ==
  ASSUME SkiplistInv, NEW t \in Threads, pc[t] \in SearchPcs, th[t].op = "hole",
         Private, OthersLocks(t), lock' \in [Nodes -> Threads \cup {NoThread}],
         NEW key \in 0..Limit, th' = [th EXCEPT ![t].key = key], Goto(t, "fast")
  PROVE  SkiplistInv'
<1>1. /\ th[t].cur = NoCursor /\ th[t].pr = NoNode /\ th[t].ins = NoNode
      /\ Preloaded(t) /\ th[t].pending <= listLevel + 1
      /\ ~ Linking(t) /\ pc[t] # "rest" /\ TypeInv /\ th[t] \in Locals /\ ArgInv(t)
  BY Searching, Parts
<1> DEFINE r == [th[t] EXCEPT !.key = key]
<1>2. th' = [th EXCEPT ![t] = r] /\ pc' = [pc EXCEPT ![t] = "fast"]
  BY <1>1 DEF Goto, TypeInv
<1>3. key \in Nat
  BY SkiplistAssumption
<1>4. /\ r \in Locals /\ r.key = key /\ r.size = th[t].size /\ r.cur = th[t].cur
      /\ r.pr = th[t].pr /\ r.ins = th[t].ins
      /\ r.pending = th[t].pending /\ r.token = th[t].token
  BY <1>1, <1>3 DEF Locals
<1> HIDE DEF r
<1>5. th'[t] = r /\ pc'[t] = "fast" /\ "fast" \in Labels
  BY <1>1, <1>2 DEF TypeInv, Labels, InsertPcs
<1>6. Preloaded(t)' /\ th'[t].pending <= listLevel' + 1
  BY <1>1, <1>4, <1>5 DEF Private, Preloaded
<1>7. ThreadInv(t)'
  BY <1>1, <1>4, <1>5, <1>6, ArriveFast
<1>8. [key |-> r.key, size |-> r.size] \in Ranges
  BY <1>1, <1>4, HoleRange DEF ArgInv
<1>9. QED
  BY <1>1, <1>2, <1>4, <1>5, <1>7, <1>8, PrivateStep

LEMMA HoleWalkStep ==
  ASSUME SkiplistInv, NEW t \in Threads, HoleWalk(t)
  PROVE  SkiplistInv'
<1>1. pc[t] = "holewalk" /\ pc[t] \in SearchPcs
  BY DEF HoleWalk, SearchPcs
<1>2. /\ TypeInv /\ th[t] \in Locals /\ LinksInv /\ RankInv /\ dead \subseteq Leaves
      /\ lock \in [Nodes -> Threads \cup {NoThread}] /\ ~ Linking(t)
      /\ th[t].p \in On(0) /\ th[t].op = "hole" /\ Holds(t, th[t].p)
  BY <1>1, Searching, Parts DEF SearchInv
<1>3. th[t].p \in Nodes /\ lock[th[t].p] = t /\ 0 \in Levels
  BY <1>2, LevelsDown DEF Holds
<1>4. /\ UNCHANGED <<links, dead, leaf, listLevel, used, preload>>
      /\ \A k \in Levels : Linked(k)' = Linked(k) /\ On(k)' = On(k)
  BY SameWalk DEF HoleWalk
<1> DEFINE n == LiveNext(th[t].p, 0)
<1>5. CASE n # NoNode
  <2> DEFINE r == [th[t] EXCEPT !.leaf = n]
  <2>1. /\ th' = [th EXCEPT ![t] = r] /\ pc' = [pc EXCEPT ![t] = "holenext"]
        /\ UNCHANGED lock /\ Private
    BY <1>2, <1>4, <1>5 DEF HoleWalk, TypeInv, Goto, Private, Quiet
  <2>2. n \in Linked(0) /\ n \in Maybe
    <3>1. PICK N, rank : Ranks(0, N, rank)
      BY <1>2, <1>3 DEF RankInv
    <3>2. QED
      BY <3>1, <1>2, <1>3, <1>5, LiveNextIs, NoNodeApart DEF Linked
  <2> HIDE DEF n
  <2>3. /\ r \in Locals /\ r.p = th[t].p /\ r.leaf = n /\ SameArg(t, r)
        /\ r.op = th[t].op /\ r.pending = th[t].pending /\ r.token = th[t].token
        /\ r.cur = th[t].cur /\ r.pr = th[t].pr /\ r.ins = th[t].ins
    BY <1>2, <2>2 DEF Locals, SameArg
  <2> HIDE DEF r
  <2>4. OthersLocks(t) /\ lock' \in [Nodes -> Threads \cup {NoThread}]
    BY <1>2, <2>1, LockSteps
  <2>5. th'[t] = r /\ pc'[t] = "holenext" => SearchInv(t)'
    BY <1>2, <1>3, <1>4, <2>1, <2>2, <2>3 DEF SearchInv, Holds
  <2>6. "holenext" \in SearchPcs
    BY DEF SearchPcs
  <2>7. QED
    BY <1>1, <2>1, <2>3, <2>4, <2>5, <2>6, SearchMove
<1>6. CASE /\ th[t].last + th[t].size <= Limit /\ Release({th[t].p})
           /\ th' = [th EXCEPT ![t].key = th[t].last] /\ Goto(t, "fast")
           /\ UNCHANGED client /\ Quiet
  <2>1. th[t].last \in 0..Limit
    <3>1. th[t].last \in Nat /\ th[t].size \in Nat /\ Limit \in Nat
      BY <1>2, SkiplistAssumption DEF Locals
    <3>2. QED
      BY <3>1, <1>6
  <2>2. OthersLocks(t) /\ lock' \in [Nodes -> Threads \cup {NoThread}]
    BY <1>2, <1>3, <1>6, LockSteps
  <2>3. Private
    BY <1>4, <1>6 DEF Private
  <2>4. QED
    BY <1>1, <1>2, <1>6, <2>1, <2>2, <2>3, HoleFound
<1>7. CASE Return(t, {th[t].p}) /\ Done(t)
  <2>1. Record(t, Over(FALSE)) /\ UNCHANGED buried
    BY <1>7 DEF Done
  <2>2. \A m \in {th[t].p} \cap Nodes : lock[m] = t
    BY <1>3
  <2>3. QED
    BY <1>2, <1>4, <1>7, <2>1, <2>2, ReturnStep
<1>8. QED
  BY <1>5, <1>6, <1>7 DEF HoleWalk

LEMMA HoleNextStep ==
  ASSUME SkiplistInv, NEW t \in Threads, HoleNext(t)
  PROVE  SkiplistInv'
<1>1. pc[t] = "holenext" /\ pc[t] \in SearchPcs
  BY DEF HoleNext, SearchPcs
<1>2. /\ TypeInv /\ th[t] \in Locals /\ LinksInv /\ dead \subseteq Leaves
      /\ lock \in [Nodes -> Threads \cup {NoThread}] /\ ~ Linking(t) /\ pc[t] # "rest"
      /\ th[t].p \in On(0) /\ th[t].op = "hole" /\ Holds(t, th[t].p)
      /\ th[t].leaf \in Linked(0) /\ ArgInv(t) /\ TypeOK
  BY <1>1, Searching, Parts DEF SearchInv
<1>3. /\ th[t].p \in Nodes /\ lock[th[t].p] = t /\ 0 \in Levels
      /\ th[t].leaf \in Leaves /\ th[t].leaf \in Nodes /\ th[t].leaf \in Maybe
      /\ th[t].last \in Nat /\ th[t].size \in Nat
  BY <1>2, LevelsDown, NoNodeApart DEF Holds, Linked, Locals
<1>4. /\ UNCHANGED <<links, dead, leaf, listLevel, used, preload>>
      /\ \A k \in Levels : Linked(k)' = Linked(k) /\ On(k)' = On(k)
  BY SameWalk DEF HoleNext
<1> DEFINE n == th[t].leaf
           p == th[t].p
           scan == Scan(n, th[t].last, th[t].size)
<1>5. /\ scan.last \in Nat /\ scan.is \in {"next", "none", "hole"}
      /\ scan.is = "hole" => scan.last + th[t].size <= Limit
  <2>1. slots[n] \in Seq(Slot)
    <3>1. slots[n] \in Seq(Ranges)
      BY <1>2, <1>3 DEF TypeInv
    <3>2. QED
      BY <3>1, RangesType
  <2>2. QED
    BY <1>3, <2>1, ScanType
<1>6. scan.is = "hole" => scan.last \in 0..Limit
  <2>1. ASSUME scan.is = "hole" PROVE scan.last \in Nat /\ scan.last + th[t].size <= Limit
    BY <1>5, <2>1
  <2> HIDE DEF scan
  <2>2. QED
    BY <2>1, <1>3, SkiplistAssumption
<1> HIDE DEF scan
<1>7. CASE /\ AcquireRelease(t, n, {p})
           /\ th' = [th EXCEPT ![t].p = n, ![t].last = scan.last]
           /\ Goto(t, "holewalk") /\ UNCHANGED client /\ Quiet
  <2> DEFINE r == [th[t] EXCEPT !.p = n, !.last = scan.last]
  <2>1. /\ th' = [th EXCEPT ![t] = r] /\ pc' = [pc EXCEPT ![t] = "holewalk"] /\ Private
    BY <1>2, <1>4, <1>7 DEF TypeInv, Goto, Private
  <2>2. /\ r \in Locals /\ r.p = n /\ SameArg(t, r)
        /\ r.op = th[t].op /\ r.pending = th[t].pending /\ r.token = th[t].token
        /\ r.cur = th[t].cur /\ r.pr = th[t].pr /\ r.ins = th[t].ins
    BY <1>2, <1>3, <1>5 DEF Locals, SameArg
  <2> HIDE DEF r
  <2>3. /\ OthersLocks(t) /\ lock' \in [Nodes -> Threads \cup {NoThread}]
        /\ lock'[n] = t
    <3>1. lock[n] = NoThread /\ NoThread # t
      BY <1>7, SkiplistAssumption DEF AcquireRelease
    <3>2. n # p /\ \A m \in {p} \cap Nodes : lock[m] = t \/ m = n
      BY <1>3, <3>1
    <3>3. QED
      BY <1>2, <1>3, <1>7, <3>2, LockSteps
  <2>4. th'[t] = r /\ pc'[t] = "holewalk" => SearchInv(t)'
    BY <1>2, <1>3, <1>4, <2>2, <2>3 DEF SearchInv, Holds, On
  <2>5. "holewalk" \in SearchPcs
    BY DEF SearchPcs
  <2>6. QED
    BY <1>1, <2>1, <2>2, <2>3, <2>4, <2>5, SearchMove
<1>8. CASE /\ scan.is = "hole" /\ n \notin dead /\ Room(t, n)
           /\ AcquireRelease(t, n, {p})
           /\ th' = [th EXCEPT ![t].p = n, ![t].ins = n, ![t].key = scan.last]
           /\ Goto(t, "overlap") /\ UNCHANGED client /\ Quiet
  <2> DEFINE r == [th[t] EXCEPT !.p = n, !.ins = n, !.key = scan.last]
  <2>1. /\ th' = [th EXCEPT ![t] = r] /\ pc' = [pc EXCEPT ![t] = "overlap"] /\ Private
        /\ UNCHANGED <<links, dead, leaf, used, listLevel, preload>>
    BY <1>2, <1>4, <1>8 DEF TypeInv, Goto, Private
  <2>2. /\ r \in Locals /\ r.p = n /\ r.ins = n /\ r.key = scan.last /\ r.size = th[t].size
        /\ r.pending = th[t].pending /\ r.token = th[t].token /\ r.cur = th[t].cur
    BY <1>2, <1>3, <1>5 DEF Locals
  <2> HIDE DEF r
  <2>3. th'[t] = r /\ pc'[t] = "overlap" /\ "overlap" \in Labels
    BY <1>2, <2>1 DEF TypeInv, Labels, InsertPcs
  <2>4. /\ OthersLocks(t) /\ lock' \in [Nodes -> Threads \cup {NoThread}]
        /\ lock'[n] = t /\ lock[n] = NoThread
    <3>1. lock[n] = NoThread /\ NoThread # t
      BY <1>8, SkiplistAssumption DEF AcquireRelease
    <3>2. n # p /\ \A m \in {p} \cap Nodes : lock[m] = t \/ m = n
      BY <1>3, <3>1
    <3>3. QED
      BY <1>2, <1>3, <1>8, <3>1, <3>2, LockSteps
  <2>5. /\ th[t].cur = NoCursor /\ Preloaded(t) /\ th[t].pending <= listLevel + 1
    BY <1>1, <1>2, Searching
  <2>6. CursorHeld(t) /\ \A k \in 0..MaxLevel : th[t].cur[k] = NoNode
    BY <2>5 DEF CursorHeld, NoCursor
  <2>7. Len(slots[n]) = Cap => \A k \in 0..MaxLevel : ~ (0 < k /\ k <= th[t].pending)
    <3>1. Len(slots[n]) = Cap => th[t].pending = 0
      BY <1>8, CapAssumption DEF Room
    <3>2. QED
      BY <3>1
  <2>8. ThreadInv(t)'
    BY <1>2, <1>3, <1>8, <2>1, <2>2, <2>3, <2>4, <2>5, <2>6, <2>7, ArrivePlace
  <2>9. [key |-> r.key, size |-> r.size] \in Ranges
    BY <1>1, <1>2, <1>6, <1>8, <2>2, HoleRange DEF ArgInv
  <2>10. QED
    BY <1>2, <2>1, <2>2, <2>3, <2>4, <2>8, <2>9, PrivateStep
<1>9. CASE /\ scan.is = "hole" /\ AcquireRelease(t, n, {p, n})
           /\ th' = [th EXCEPT ![t].key = scan.last]
           /\ Goto(t, "fast") /\ UNCHANGED client /\ Quiet
  <2>1. OthersLocks(t) /\ lock' \in [Nodes -> Threads \cup {NoThread}]
    <3>1. \A m \in {p, n} \cap Nodes : lock[m] = t \/ m = n
      BY <1>3
    <3>2. QED
      BY <1>2, <1>3, <1>9, <3>1, LockSteps
  <2>2. Private
    BY <1>4, <1>9 DEF Private
  <2>3. QED
    BY <1>1, <1>2, <1>6, <1>9, <2>1, <2>2, HoleFound
<1>10. CASE Return(t, {p}) /\ Done(t)
  <2>1. Record(t, Over(FALSE)) /\ UNCHANGED buried
    BY <1>10 DEF Done
  <2>2. \A m \in {p} \cap Nodes : lock[m] = t
    BY <1>3
  <2>3. QED
    BY <1>2, <1>4, <1>10, <2>1, <2>2, ReturnStep
<1>11. QED
  BY <1>7, <1>8, <1>9, <1>10 DEF HoleNext, scan

-----------------------------------------------------------------------------
(* The place of the range *)

\* A dead leaf that has a range already is refused it by the search in it.
LEMMA DeadIsHit ==
  ASSUME NEW s \in Seq(Slot), Len(s) = 1, NEW r \in Slot,
         s[1].key <= r.key, r.key < End(s[1])
  PROVE  LeafSlotLocked(s, r).found
<1> DEFINE hit == LeafSlotLocked(s, r)
<1>1. s[1] \in Slot
  BY SlotAt
<1>2. Ordered(s)
  BY DEF Ordered
<1>3. hit \in [found : BOOLEAN, slot : 1..Len(s) + 1]
      /\ (~ hit.found => /\ \A i \in 1..hit.slot - 1 : End(s[i]) <= r.key
                         /\ \A i \in hit.slot..Len(s) : End(r) <= s[i].key)
  BY <1>2, LeafSlotLockedRight
<1> HIDE DEF hit
<1>4. ASSUME ~ hit.found PROVE FALSE
  <2>1. CASE hit.slot = 1
    <3>1. End(r) <= s[1].key
      BY <1>3, <1>4, <2>1
    <3>2. QED
      BY <1>1, <3>1 DEF End, Slot
  <2>2. CASE hit.slot = 2
    <3>1. End(s[1]) <= r.key
      BY <1>3, <1>4, <2>2
    <3>2. QED
      BY <1>1, <3>1 DEF End, Slot
  <2>3. QED
    BY <1>3, <2>1, <2>2
<1>5. QED
  BY <1>4 DEF hit

\* What a thread knows of the leaf its range goes into.
LEMMA Placing ==
  ASSUME SkiplistInv, NEW t \in Threads, pc[t] \in PlacePcs
  PROVE  LET p == th[t].p
         IN  /\ TypeInv /\ TypeOK /\ th[t] \in Locals /\ LinksInv /\ ~ Linking(t)
             /\ lock \in [Nodes -> Threads \cup {NoThread}]
             /\ p \in Linked(0) /\ p \in Leaves /\ p \in Nodes /\ p # HeadNode
             /\ p # NoNode /\ lock[p] = t
             /\ th[t].ins \in {NoNode, p} /\ CursorHeld(t) /\ PlaceInv(t)
             /\ slots[p] \in Seq(Ranges) /\ slots[p] \in Seq(Slot) /\ Len(slots[p]) \in 0..Cap
             /\ Arg(t) \in Ranges /\ Arg(t) \in Slot
             /\ \A m \in Held(t) : m \in Nodes /\ lock[m] = t
<1>1. /\ TypeInv /\ TypeOK /\ th[t] \in Locals /\ LinksInv /\ PlaceInv(t) /\ ArgInv(t)
      /\ pc[t] # "rest" /\ ~ Linking(t)
      /\ lock \in [Nodes -> Threads \cup {NoThread}]
  BY Parts DEF ThreadInv, PlacePcs, Linking, TypeOK
<1> DEFINE p == th[t].p
<1>2. /\ p \in Linked(0) /\ p \in Leaves /\ p \in Nodes /\ lock[p] = t
      /\ th[t].ins \in {NoNode, p} /\ CursorHeld(t)
  BY <1>1 DEF PlaceInv, Linked, Holds
<1>3. slots[p] \in Seq(Ranges) /\ Len(slots[p]) <= Cap
  BY <1>1, <1>2 DEF TypeInv, TypeOK
<1>4. slots[p] \in Seq(Slot) /\ Arg(t) \in Ranges /\ Arg(t) \in Slot
  BY <1>1, <1>3, RangesType DEF ArgInv
<1>5. Len(slots[p]) \in 0..Cap
  BY <1>3, CapAssumption
<1>6. \A m \in Held(t) : m \in Nodes /\ lock[m] = t
  <2>1. \A m \in CursorNodes(t) : m \in Nodes /\ lock[m] = t
    BY <1>2 DEF CursorNodes, CursorHeld, Has, Holds
  <2>2. QED
    BY <1>2, <2>1 DEF Held
<1>7. QED
  BY <1>1, <1>2, <1>3, <1>4, <1>5, <1>6, NoNodeApart

LEMMA FindOrAddStep ==
  ASSUME SkiplistInv, NEW t \in Threads, FindOrAdd(t)
  PROVE  SkiplistInv'
<1> DEFINE p == th[t].p
           ins == IF th[t].ins = NoNode /\ ~ InCursor(t, p) THEN p ELSE th[t].ins
           hit == IF th[t].key < max[p] THEN LeafSlotLocked(slots[p], Arg(t))
                  ELSE [found |-> FALSE, slot |-> Len(slots[p]) + 1]
<1>1. pc[t] = "overlap" /\ pc[t] \in PlacePcs
  BY DEF FindOrAdd, PlacePcs
<1>2. /\ TypeInv /\ TypeOK /\ th[t] \in Locals /\ LinksInv /\ ~ Linking(t)
      /\ lock \in [Nodes -> Threads \cup {NoThread}]
      /\ p \in Linked(0) /\ p \in Leaves /\ p \in Nodes /\ p # HeadNode
      /\ p # NoNode /\ lock[p] = t
      /\ th[t].ins \in {NoNode, p} /\ CursorHeld(t) /\ PlaceInv(t)
      /\ slots[p] \in Seq(Ranges) /\ slots[p] \in Seq(Slot) /\ Len(slots[p]) \in 0..Cap
      /\ Arg(t) \in Ranges /\ Arg(t) \in Slot
      /\ \A m \in Held(t) : m \in Nodes /\ lock[m] = t
  BY <1>1, Placing
<1>3. ins \in {NoNode, p}
  BY <1>2
<1>4. UNCHANGED <<links, dead, leaf, listLevel, used, preload>>
  BY DEF FindOrAdd
<1>5. CASE Return(t, Held(t) \cup {ins}) /\ Done(t)
  <2>1. Record(t, Over(FALSE)) /\ UNCHANGED buried
    BY <1>5 DEF Done
  <2>2. \A m \in (Held(t) \cup {ins}) \cap Nodes : lock[m] = t
    BY <1>2, <1>3, NoNodeApart
  <2>3. QED
    BY <1>2, <1>4, <1>5, <2>1, <2>2, ReturnStep
<1>6. CASE /\ ~ hit.found
           /\ th' = [th EXCEPT ![t].ins = ins, ![t].slot = hit.slot]
           /\ Goto(t, IF Len(slots[p]) < Cap THEN "store" ELSE "split")
           /\ UNCHANGED <<lock, client>> /\ Quiet
  <2>1. hit.slot \in 1..Len(slots[p]) + 1
    <3>1. LeafSlotLocked(slots[p], Arg(t)) \in [found : BOOLEAN, slot : 1..Len(slots[p]) + 1]
      BY <1>2, LeafSlotLockedType
    <3>2. QED
      BY <3>1
  <2>2. p \in dead => slots[p] = <<>>
    <3>1. SUFFICES ASSUME p \in dead, slots[p] # <<>> PROVE FALSE
      OBVIOUS
    <3>2. Len(slots[p]) = 1 /\ min[p] = slots[p][1].key /\ max[p] = End(slots[p][1])
      BY <3>1, Parts DEF DeadInv
    <3>3. min[p] <= th[t].key /\ th[t].key < max[p]
      BY <1>1, <1>2, <3>1 DEF PlaceInv, PlacePcs
    <3>4. Arg(t).key = th[t].key
      BY DEF Arg
    <3>5. LeafSlotLocked(slots[p], Arg(t)).found
      BY <1>2, <3>2, <3>3, <3>4, DeadIsHit
    <3>6. QED
      BY <1>6, <3>3, <3>5
  <2> HIDE DEF hit, ins
  <2> DEFINE r == [th[t] EXCEPT !.ins = ins, !.slot = hit.slot]
             q == IF Len(slots[p]) < Cap THEN "store" ELSE "split"
  <2>3. th' = [th EXCEPT ![t] = r] /\ pc' = [pc EXCEPT ![t] = q]
    BY <1>2, <1>6 DEF TypeInv, Goto
  <2>4. hit.slot \in Nat /\ p \in Maybe /\ NoNode \in Maybe
    BY <1>2, <2>1, NoNodeApart
  <2>5. /\ r \in Locals /\ r.ins = ins /\ r.slot = hit.slot /\ r.p = p /\ SameArg(t, r)
        /\ r.cur = th[t].cur /\ r.pending = th[t].pending /\ r.token = th[t].token
    BY <1>2, <1>3, <2>4 DEF Locals, SameArg
  <2> HIDE DEF r
  <2>6. th'[t] = r /\ pc'[t] = q
    BY <1>2, <2>3 DEF TypeInv
  <2>7. q \in {"store", "split"} /\ q \in Labels /\ q \in PlacePcs
    BY DEF Labels, InsertPcs, PlacePcs
  <2>8. CursorHeld(t)'
    <3>1. \A k \in 0..MaxLevel : th[t].cur[k] # NoNode => lock'[th[t].cur[k]] = t
      BY <1>2, <1>6 DEF CursorHeld, Has, Holds
    <3>2. UNCHANGED <<links, dead>>
      BY <1>4
    <3>3. QED
      BY <1>2, <2>5, <2>6, <3>1, <3>2, CursorKept
  <2>9. \A l \in Levels : Linked(l)' = Linked(l) /\ On(l)' = On(l)
    BY <1>4, SameWalk
  <2>10. Preloaded(t) /\ th[t].pending <= listLevel + 1
    BY <1>1, Parts DEF ThreadInv, PreloadInv, FreshInv, MayAllocate, InsertPcs
  <2>11. Len(slots[p]) = Cap => \A k \in 0..th[t].pending : Ready(t, k)'
    <3>1. SUFFICES ASSUME Len(slots[p]) = Cap, NEW k \in 0..th[t].pending PROVE Ready(t, k)'
      OBVIOUS
    <3>2. Ready(t, k) /\ k \in Levels
      BY <1>1, <1>2, <2>10, <3>1, LevelsDown DEF PlaceInv, PlacePcs, Preloaded
    <3>3. UNCHANGED <<dead, height, lock>>
      BY <1>4, <1>6 DEF leaf
    <3>4. th'[t].p = th[t].p /\ th'[t].cur = th[t].cur
      BY <2>5, <2>6
    <3>5. QED
      BY <2>9, <3>2, <3>3, <3>4 DEF Ready, Has, Holds
  <2>12. PlaceInv(t)'
    <3>1. UNCHANGED <<dead, lock, slots, min, max>>
      BY <1>4, <1>6 DEF leaf
    <3>2. 0 \in Levels
      BY LevelsDown
    <3>3. q = "split" => Len(slots[p]) = Cap /\ p \notin dead
      <4>1. Len(slots[p]) \in Nat /\ Cap \in Nat /\ Cap >= 2 /\ Len(<<>>) = 0
        BY <1>2, CapAssumption
      <4>2. QED
        BY <1>2, <2>2, <4>1
    <3>4. lock'[p] = t /\ Linked(0)' = Linked(0)
      BY <1>2, <2>9, <3>1, <3>2
    <3>5. q = "store" => Len(slots[p]) < Cap
      OBVIOUS
    <3>6. r.p = p /\ r.ins \in {NoNode, p} /\ r.slot \in 1..Len(slots[p]) + 1 /\ r.pending = th[t].pending
      BY <1>3, <2>1, <2>5 DEF ins
    <3> HIDE DEF q
    <3>7. q # "overlap"
      BY <2>7
    <3>8. QED
      BY <2>2, <2>6, <2>8, <2>11, <3>1, <3>3, <3>4, <3>5, <3>6, <3>7, <1>2
         DEF PlaceInv, Holds
  <2>13. ThreadInv(t)'
    <3>1. Preloaded(t)' /\ th'[t].pending <= listLevel' + 1
      BY <1>4, <2>5, <2>6, <2>10 DEF Preloaded
    <3>2. PreloadInv(t)' /\ FreshInv(t)'
      BY <2>6, <2>7, <3>1
         DEF PreloadInv, FreshInv, InsertPcs, PlacePcs, SearchPcs, VerifyPcs
    <3>3. QED
      BY <2>6, <2>7, <2>12, <3>2, ElsewhereNext
         DEF Elsewhere, ThreadInv, WalkPcs, VerifyPcs, SearchPcs, ErasePcs
  <2>14. Private /\ OthersLocks(t) /\ lock' \in [Nodes -> Threads \cup {NoThread}]
    <3>1. UNCHANGED lock
      BY <1>6
    <3>2. QED
      BY <1>2, <1>4, <1>6, <3>1, LockSteps DEF Private
  <2>15. q \notin {"linkback", "eraseback", "link", "linklock"} /\ pc[t] # "rest"
    BY <1>1, <2>7
  <2> HIDE DEF q
  <2>16. QED
    BY <1>2, <2>3, <2>5, <2>7, <2>13, <2>14, <2>15, PrivateStep
<1>7. QED
  BY <1>5, <1>6 DEF FindOrAdd

-----------------------------------------------------------------------------
(* Unlinking: reading and locking the neighbours *)

\* What a thread that unlinks a leaf knows.
LEMMA Erasing ==
  ASSUME SkiplistInv, NEW t \in Threads, pc[t] \in ErasePcs
  PROVE  LET me == th[t]
         IN  /\ TypeInv /\ TypeOK /\ me \in Locals /\ LinksInv /\ RankInv
             /\ dead \subseteq Leaves /\ ~ Linking(t) /\ pc[t] # "rest"
             /\ lock \in [Nodes -> Threads \cup {NoThread}] /\ EraseInv(t)
             /\ me.leaf \in Linked(0) \cap dead /\ me.leaf \in Leaves /\ me.leaf \in Nodes
             /\ me.i \in 0..height[me.leaf] /\ me.i \in Levels
<1>1. /\ TypeInv /\ TypeOK /\ th[t] \in Locals /\ LinksInv /\ RankInv /\ EraseInv(t)
      /\ pc[t] # "rest" /\ ~ Linking(t) /\ height \in [Leaves -> Levels]
      /\ lock \in [Nodes -> Threads \cup {NoThread}] /\ dead \subseteq Leaves
  BY Parts DEF ThreadInv, ErasePcs, Linking, TypeOK
<1> DEFINE n == th[t].leaf
<1>2. n \in Linked(0) \cap dead /\ n \in Leaves /\ n \in Nodes /\ th[t].i \in 0..height[n]
  BY <1>1, NoNodeApart DEF EraseInv, Linked
<1>3. th[t].i \in Levels
  BY <1>1, <1>2, LevelsDown
<1>4. QED
  BY <1>1, <1>2, <1>3

LEMMA ArriveErase ==
  ASSUME NEW t \in Threads, pc'[t] \in ErasePcs, EraseInv(t)'
  PROVE  ThreadInv(t)'
BY ElsewhereNext
   DEF Elsewhere, ThreadInv, MayAllocate, InsertPcs, WalkPcs, VerifyPcs, PlacePcs, SearchPcs,
       ErasePcs

LEMMA EraseReadStep ==
  ASSUME SkiplistInv, NEW t \in Threads, EraseRead(t)
  PROVE  SkiplistInv'
<1> DEFINE n == th[t].leaf
           pr == LivePrev(n, th[t].i)
           q == IF pr = NoNode THEN "oops" ELSE "eraseprev"
           r == [th[t] EXCEPT !.pr = pr]
<1>1. pc[t] = "erase" /\ pc[t] \in ErasePcs
  BY DEF EraseRead, ErasePcs
<1>2. /\ TypeInv /\ th[t] \in Locals /\ LinksInv /\ RankInv
      /\ dead \subseteq Leaves /\ ~ Linking(t) /\ pc[t] # "rest"
      /\ lock \in [Nodes -> Threads \cup {NoThread}]
      /\ n \in Linked(0) \cap dead /\ n \in Leaves
      /\ th[t].i \in 0..height[n] /\ th[t].i \in Levels
  BY <1>1, Erasing
<1>3. pr \in On(th[t].i) \cup {NoNode} /\ pr \in Maybe
  <2>1. PICK N, rank : Ranks(th[t].i, N, rank)
    BY <1>2 DEF RankInv
  <2>2. pr \in On(th[t].i) \cup {NoNode}
    BY <1>2, <2>1, LivePrevIs
  <2>3. QED
    BY <2>2, NoNodeApart DEF On, Linked
<1>4. /\ Private /\ UNCHANGED lock /\ UNCHANGED <<dead, height>>
      /\ th' = [th EXCEPT ![t] = r] /\ pc' = [pc EXCEPT ![t] = q]
      /\ \A k \in Levels : Linked(k)' = Linked(k) /\ On(k)' = On(k)
  BY <1>2, SameWalk DEF EraseRead, Goto, Unlocked, Private, TypeInv, leaf
<1> HIDE DEF pr
<1>5. /\ r \in Locals /\ r.pr = pr /\ r.leaf = n /\ r.i = th[t].i /\ SameArg(t, r)
  BY <1>2, <1>3 DEF Locals, SameArg
<1> HIDE DEF r
<1>6. /\ q \in Labels /\ q \in {"oops", "eraseprev"}
      /\ th'[t] = r /\ pc'[t] = q
  BY <1>2, <1>4 DEF TypeInv, Labels, ErasePcs
<1>7. ThreadInv(t)'
  <2>1. CASE pr = NoNode
    BY <1>6, <2>1, AtRest
  <2>2. CASE pr # NoNode
    <3>1. q = "eraseprev"
      BY <2>2
    <3>2. EraseInv(t)'
      BY <1>2, <1>3, <1>4, <1>5, <1>6, <2>2, <3>1, LevelsDown DEF EraseInv
    <3>3. pc'[t] \in ErasePcs
      BY <1>6, <3>1 DEF ErasePcs
    <3>4. QED
      BY <3>2, <3>3, ArriveErase
  <2>3. QED
    BY <2>1, <2>2
<1>8. OthersLocks(t) /\ lock' \in [Nodes -> Threads \cup {NoThread}]
  BY <1>2, <1>4, LockSteps
<1> HIDE DEF q
<1>9. QED
  BY <1>2, <1>4, <1>5, <1>6, <1>7, <1>8, PrivateStep

LEMMA ErasePrevStep ==
  ASSUME SkiplistInv, NEW t \in Threads, ErasePrev(t)
  PROVE  SkiplistInv'
<1> DEFINE pr == th[t].pr
<1>1. pc[t] = "eraseprev" /\ pc[t] \in ErasePcs
  BY DEF ErasePrev, ErasePcs
<1>2. /\ TypeInv /\ th[t] \in Locals /\ LinksInv /\ ~ Linking(t) /\ pc[t] # "rest"
      /\ lock \in [Nodes -> Threads \cup {NoThread}]
      /\ th[t].leaf \in Linked(0) \cap dead
      /\ th[t].i \in 0..height[th[t].leaf] /\ th[t].i \in Levels
      /\ pr \in On(th[t].i)
  BY <1>1, Erasing DEF EraseInv
<1>3. pr \in Nodes
  BY <1>2, NoNodeApart DEF On, Linked
<1>4. /\ Private /\ Acquire(t, pr) /\ UNCHANGED <<dead, height>>
      /\ th' = [th EXCEPT ![t] = th[t]] /\ pc' = [pc EXCEPT ![t] = "erasenode"]
      /\ \A k \in Levels : Linked(k)' = Linked(k) /\ On(k)' = On(k)
  BY <1>2, SameWalk DEF ErasePrev, Goto, Private, TypeInv, leaf
<1>5. /\ OthersLocks(t) /\ lock' \in [Nodes -> Threads \cup {NoThread}] /\ lock'[pr] = t
  BY <1>2, <1>3, <1>4, LockSteps
<1>6. th'[t] = th[t] /\ pc'[t] = "erasenode" /\ "erasenode" \in Labels
  BY <1>2, <1>4 DEF TypeInv, Labels, ErasePcs
<1>7. EraseInv(t)'
  BY <1>2, <1>3, <1>4, <1>5, <1>6, LevelsDown DEF EraseInv, Holds
<1>8. ThreadInv(t)'
  BY <1>6, <1>7, ArriveErase DEF ErasePcs
<1>9. QED
  BY <1>2, <1>4, <1>5, <1>6, <1>8, PrivateStep DEF SameArg

LEMMA EraseNodeStep ==
  ASSUME SkiplistInv, NEW t \in Threads, EraseNode(t)
  PROVE  SkiplistInv'
<1> DEFINE pr == th[t].pr
           n == th[t].leaf
<1>1. pc[t] = "erasenode" /\ pc[t] \in ErasePcs
  BY DEF EraseNode, ErasePcs
<1>2. /\ TypeInv /\ th[t] \in Locals /\ LinksInv /\ ~ Linking(t) /\ pc[t] # "rest"
      /\ lock \in [Nodes -> Threads \cup {NoThread}]
      /\ n \in Linked(0) \cap dead /\ n \in Nodes
      /\ th[t].i \in 0..height[n] /\ th[t].i \in Levels
      /\ pr \in On(th[t].i) /\ Holds(t, pr)
  BY <1>1, Erasing DEF EraseInv
<1>3. pr \in Nodes /\ lock[pr] = t
  BY <1>2 DEF Holds
<1>4. /\ Private /\ UNCHANGED <<dead, height>> /\ th' = [th EXCEPT ![t] = th[t]]
      /\ \A k \in Levels : Linked(k)' = Linked(k) /\ On(k)' = On(k)
  BY <1>2, SameWalk DEF EraseNode, Private, TypeInv, leaf
<1>5. CASE AcquireRelease(t, n, {pr, n}) /\ Goto(t, "erase")
  <2>1. pc' = [pc EXCEPT ![t] = "erase"]
    BY <1>5 DEF Goto
  <2>2. \A m \in {pr, n} \cap Nodes : lock[m] = t \/ m = n
    BY <1>3
  <2>3. /\ OthersLocks(t) /\ lock' \in [Nodes -> Threads \cup {NoThread}]
    BY <1>2, <1>5, <2>2, LockSteps
  <2>4. th'[t] = th[t] /\ pc'[t] = "erase" /\ "erase" \in Labels
    BY <1>2, <1>4, <2>1 DEF TypeInv, Labels, ErasePcs
  <2>5. EraseInv(t)'
    BY <1>2, <1>4, <2>4, LevelsDown DEF EraseInv
  <2>6. ThreadInv(t)'
    BY <2>4, <2>5, ArriveErase DEF ErasePcs
  <2>7. QED
    BY <1>2, <1>4, <2>1, <2>3, <2>4, <2>6, PrivateStep DEF SameArg
<1>6. CASE pr \notin dead /\ Acquire(t, n) /\ Goto(t, "erasegrab")
  <2>1. pc' = [pc EXCEPT ![t] = "erasegrab"]
    BY <1>6 DEF Goto
  <2>2. /\ OthersLocks(t) /\ lock' \in [Nodes -> Threads \cup {NoThread}]
        /\ lock'[n] = t /\ lock'[pr] = t
    BY <1>2, <1>3, <1>6, LockSteps
  <2>3. th'[t] = th[t] /\ pc'[t] = "erasegrab" /\ "erasegrab" \in Labels
    BY <1>2, <1>4, <2>1 DEF TypeInv, Labels, ErasePcs
  <2>4. EraseInv(t)'
    BY <1>2, <1>3, <1>4, <1>6, <2>2, <2>3, LevelsDown DEF EraseInv, Has, Holds
  <2>5. ThreadInv(t)'
    BY <2>3, <2>4, ArriveErase DEF ErasePcs
  <2>6. QED
    BY <1>2, <1>4, <2>1, <2>2, <2>3, <2>5, PrivateStep DEF SameArg
<1>7. QED
  BY <1>5, <1>6 DEF EraseNode

-----------------------------------------------------------------------------
(* The begin of a call *)

LEMMA AllowedType ==
  ASSUME TypeInv, NEW t \in Threads, NEW w \in Allowed(t)
  PROVE  /\ w \in [op : {"insert", "hole", "delete", "lookup"}, r : Named]
         /\ (IF toFill = <<>> THEN [todo EXCEPT ![t] = Tail(@)] ELSE todo)
              \in [Threads -> Seq([op : {"insert", "hole", "delete", "lookup"}, r : Named])]
<1> DEFINE W == [op : {"insert", "hole", "delete", "lookup"}, r : Named]
<1>1. toFill \in Seq(Named) /\ todo \in [Threads -> Seq(W)]
  BY DEF TypeInv
<1>2. CASE toFill # <<>>
  <2>1. Head(toFill) \in Named
    BY <1>1, <1>2
  <2>2. w = [op |-> "insert", r |-> Head(toFill)]
    BY <1>2 DEF Allowed
  <2>3. QED
    BY <1>1, <1>2, <2>1, <2>2
<1>3. CASE toFill = <<>>
  <2>1. todo[t] \in Seq(W) /\ todo[t] # <<>> /\ w = Head(todo[t])
    BY <1>1, <1>3 DEF Allowed
  <2> HIDE DEF W
  <2>2. Head(todo[t]) \in W /\ Tail(todo[t]) \in Seq(W)
    BY <2>1
  <2>3. [todo EXCEPT ![t] = Tail(@)] \in [Threads -> Seq(W)]
    BY <1>1, <2>2
  <2>4. QED
    BY <1>3, <2>1, <2>2, <2>3 DEF W
<1>4. QED
  BY <1>2, <1>3

LEMMA BeginStep ==
  ASSUME SkiplistInv, NEW t \in Threads, pc[t] = "rest", NEW w \in Allowed(t), Call(t, w),
         preload' \in [Threads -> [Levels -> Levels \cup {Empty}]],
         \A k \in Levels : preload'[t][k] <= k,
         \A u \in Threads \ {t} : preload'[u] = preload[u],
         NEW r \in Locals, th' = [th EXCEPT ![t] = r], r.key = w.r.key, r.size = w.r.size,
         NEW q \in {"fast", "top"}, pc' = [pc EXCEPT ![t] = q],
         ThreadInv(t)'
  PROVE  SkiplistInv'
<1>1. TypeInv /\ TypeOK
  BY Parts
<1>2. w.r \in Named /\ w.r \in Ranges /\ w.r \in Slot
      /\ w.op \in {"insert", "hole", "delete", "lookup"}
  BY <1>1, AllowedType, RangesType
<1>3. /\ UNCHANGED <<links, dead, leaf, listLevel, used>>
      /\ toFill' = toFill /\ buried' = buried /\ lock' = lock
  BY DEF Call
<1>4. /\ th' \in [Threads -> Locals] /\ pc' \in [Threads -> Labels]
      /\ Others(t) /\ th'[t] = r /\ pc'[t] = q
  BY <1>1 DEF TypeInv, Others, Labels, InsertPcs, SearchPcs
<1>5. OthersLocks(t) /\ lock' \in [Nodes -> Threads \cup {NoThread}]
  BY <1>1, <1>3, LockSteps DEF TypeOK
<1>6. Calm(t)
  BY <1>3, <1>4, <1>5 DEF Calm, Linking
<1>7. Contents' = Contents /\ Contents \subseteq Ranges
  BY <1>1, <1>6, CalmKeeps DEF TypeOK, RS!TypeOK
<1>8. Lingering \subseteq Ranges
  <2>1. ASSUME NEW u \in Threads, call[u].op = "deleting" PROVE call[u].r \in Ranges
    BY <1>1, <2>1 DEF TypeOK, RS!TypeOK, RS!Resting, RS!Idle, RS!Calls, RS!Deleting, RS!Ops
  <2>2. QED
    BY <2>1 DEF Lingering
<1> DEFINE e == Contents \cup Lingering
           c == [op |-> w.op, r |-> w.r, ever |-> e, always |-> Contents]
<1>9. c \in RS!Calls
  <2>1. e \in SUBSET Ranges /\ Contents \in SUBSET Ranges
    BY <1>7, <1>8
  <2> HIDE DEF e
  <2>2. QED
    BY <1>2, <2>1 DEF RS!Calls, RS!Ops
<1>10. Record(t, c)
  BY DEF Call
<1>11. call' \in [Threads -> RS!Resting \cup RS!Calls \cup RS!Deleting]
  <2> HIDE DEF c
  <2>1. QED BY <1>1, <1>7, <1>9, <1>10, RecordType
<1>12. todo' \in [Threads -> Seq([op : {"insert", "hole", "delete", "lookup"}, r : Named])]
  BY <1>1, AllowedType DEF Call
<1>13. ArgInv(t)'
  <2>1. [key |-> w.r.key, size |-> w.r.size] = w.r
    BY <1>2 DEF Slot
  <2>2. QED
    BY <1>2, <1>4, <2>1 DEF ArgInv, Arg
<1>14. toFill \in Seq(Named) /\ buried \subseteq Ranges
  BY <1>1 DEF TypeInv, TypeOK
<1>15. QED
  BY <1>3, <1>4, <1>5, <1>6, <1>11, <1>12, <1>13, <1>14, CalmStep

LEMMA BeginSearchStep ==
  ASSUME SkiplistInv, NEW t \in Threads, BeginSearch(t)
  PROVE  SkiplistInv'
<1>1. TypeInv /\ TypeOK
  BY Parts
<1>2. PICK w \in Allowed(t) :
        /\ w.op \in {"delete", "lookup"} /\ Call(t, w)
        /\ th' = [th EXCEPT ![t] = [Resting EXCEPT
             !.op = w.op, !.key = w.r.key, !.size = w.r.size]]
  BY DEF BeginSearch
<1> DEFINE r == [Resting EXCEPT !.op = w.op, !.key = w.r.key, !.size = w.r.size]
<1>3. pc[t] = "rest" /\ pc' = [pc EXCEPT ![t] = "top"] /\ preload' = preload
  BY DEF BeginSearch, Goto
<1>4. /\ preload \in [Threads -> [Levels -> Levels \cup {Empty}]]
      /\ \A k \in Levels : preload[t][k] <= k
  BY <1>1 DEF TypeInv, TypeOK
<1>5. w.r.key \in Nat /\ w.r.size \in Nat
  BY <1>1, AllowedType, RangesType DEF Slot
<1>6. /\ r \in Locals /\ r.key = w.r.key /\ r.size = w.r.size /\ r.op = w.op
      /\ r.cur = NoCursor /\ r.pr = NoNode /\ r.ins = NoNode
  BY <1>2, <1>5, RestingType DEF Resting, Locals
<1> HIDE DEF r
<1>7. th'[t] = r /\ pc'[t] = "top"
  BY <1>1, <1>2, <1>3 DEF TypeInv, r
<1>8. ThreadInv(t)'
  BY <1>2, <1>6, <1>7, ArriveSearch DEF SearchInv, SearchPcs
<1>9. th' = [th EXCEPT ![t] = r]
  BY <1>2 DEF r
<1>10. QED
  BY <1>2, <1>3, <1>4, <1>6, <1>8, <1>9, BeginStep

LEMMA BeginInsertStep ==
  ASSUME SkiplistInv, NEW t \in Threads, BeginInsert(t)
  PROVE  SkiplistInv'
<1> DEFINE token == IF listLevel + 1 < MaxLevel THEN listLevel + 1 ELSE MaxLevel - 1
<1>1. TypeInv /\ TypeOK /\ listLevel \in Levels
  BY Parts DEF TypeOK
<1>2. PICK w \in Allowed(t), level \in Levels :
        /\ w.op \in {"insert", "hole"} /\ Preload(t, token, level) /\ Call(t, w)
        /\ th' = [th EXCEPT ![t] = [Resting EXCEPT
             !.op = w.op, !.key = w.r.key, !.size = w.r.size,
             !.token = token, !.pending = level]]
        /\ Goto(t, IF w.op = "insert" THEN "fast" ELSE "top")
  BY DEF BeginInsert
<1> DEFINE r == [Resting EXCEPT !.op = w.op, !.key = w.r.key, !.size = w.r.size,
                                !.token = token, !.pending = level]
           q == IF w.op = "insert" THEN "fast" ELSE "top"
<1>3. pc[t] = "rest" /\ pc' = [pc EXCEPT ![t] = q] /\ q \in {"fast", "top"}
  BY <1>2 DEF BeginInsert, Goto
<1>4. /\ token \in Levels /\ token \in 1..MaxLevel - 1 /\ token <= listLevel + 1
      /\ token \in Nat /\ level \in Nat
  BY <1>1, SkiplistAssumption DEF Levels
<1> HIDE DEF token
<1>5. /\ preload \in [Threads -> [Levels -> Levels \cup {Empty}]]
      /\ \A u \in Threads, k \in Levels : preload[u][k] <= k
  BY <1>1 DEF TypeInv, TypeOK
<1>6. /\ preload' \in [Threads -> [Levels -> Levels \cup {Empty}]]
      /\ \A k \in Levels : preload'[t][k] <= k
      /\ \A u \in Threads \ {t} : preload'[u] = preload[u]
      /\ preload'[t][token] = level /\ level <= token
  <2>1. CASE preload[t][token] # Empty
    BY <1>2, <1>4, <1>5, <2>1 DEF Preload
  <2>2. CASE preload[t][token] = Empty
    <3> DEFINE row == [l \in Levels |-> IF l = token THEN level
                                        ELSE IF l = 0 /\ preload[t][0] = Empty THEN 0
                                        ELSE preload[t][l]]
    <3>1. preload' = [preload EXCEPT ![t] = row] /\ level <= token
      BY <1>2, <1>5, <2>2 DEF Preload
    <3>2. row \in [Levels -> Levels \cup {Empty}]
      BY <1>4, <1>5, LevelsDown
    <3>3. \A k \in Levels : row[k] <= k
      BY <1>5, <3>1, LevelsDown
    <3>4. row[token] = level
      BY <1>4
    <3> HIDE DEF row
    <3>5. QED
      BY <1>5, <3>1, <3>2, <3>3, <3>4
  <2>3. QED
    BY <2>1, <2>2
<1>7. w.r.key \in Nat /\ w.r.size \in Nat
  BY <1>1, AllowedType, RangesType DEF Slot
<1>8. token \in 0..MaxLevel /\ level \in 0..MaxLevel
  BY <1>4, LevelsDown
<1>9. /\ r \in Locals /\ r.key = w.r.key /\ r.size = w.r.size /\ r.op = w.op
      /\ r.cur = NoCursor /\ r.pr = NoNode /\ r.ins = NoNode
      /\ r.token = token /\ r.pending = level
  BY <1>2, <1>7, <1>8, RestingType DEF Resting, Locals
<1>10. th' = [th EXCEPT ![t] = r]
  BY <1>2
<1> HIDE DEF r
<1>11. th'[t] = r /\ pc'[t] = q /\ listLevel' = listLevel
  BY <1>1, <1>2, <1>3, <1>10 DEF TypeInv, Call
<1>12. Preloaded(t)' /\ th'[t].pending <= listLevel' + 1
  BY <1>1, <1>4, <1>6, <1>9, <1>11, LevelsDown DEF Preloaded
<1>13. ThreadInv(t)'
  <2>1. CASE q = "fast"
    BY <1>9, <1>11, <1>12, <2>1, ArriveFast
  <2>2. CASE q = "top"
    <3>1. SearchInv(t)' /\ pc'[t] \in SearchPcs
      BY <1>11, <2>2 DEF SearchInv, SearchPcs
    <3>2. QED
      BY <1>9, <1>11, <1>12, <3>1, ArriveSearch
  <2>3. QED
    BY <1>3, <2>1, <2>2
<1> HIDE DEF q
<1>14. QED
  BY <1>2, <1>3, <1>5, <1>6, <1>9, <1>10, <1>13, BeginStep

-----------------------------------------------------------------------------
(* The contents of the list *)

GatherBody(f, n) == IF n = NoNode THEN {} ELSE ToSet(slots[n]) \cup f[LiveNext(n, 0)]
Gather == CHOOSE f : f = [n \in Maybe |-> GatherBody(f, n)]

\* The nodes that level 0 leads to from n.
Closed(S) == \A m \in S : m # NoNode => LiveNext(m, 0) \in S
Reached(n) == {m \in Nodes : \A S \in SUBSET Maybe : n \in S /\ Closed(S) => m \in S}

LEMMA ReachedIs ==
  ASSUME \A m \in Nodes : LiveNext(m, 0) \in Maybe
  PROVE  /\ Reached(NoNode) = {}
         /\ \A n \in Nodes : Reached(n) = {n} \cup Reached(LiveNext(n, 0))
<1>1. Reached(NoNode) = {}
  <2>1. {NoNode} \in SUBSET Maybe /\ Closed({NoNode})
    BY NoNodeApart DEF Closed
  <2>2. QED
    BY <2>1, NoNodeApart DEF Reached
<1>2. ASSUME NEW n \in Nodes PROVE Reached(n) = {n} \cup Reached(LiveNext(n, 0))
  <2> DEFINE to == LiveNext(n, 0)
  <2>1. n \in Maybe /\ n # NoNode /\ to \in Maybe
    BY NoNodeApart
  <2>2. ASSUME NEW S \in SUBSET Maybe, n \in S, Closed(S) PROVE to \in S
    BY <2>1, <2>2 DEF Closed
  <2>3. ASSUME NEW S \in SUBSET Maybe, to \in S, Closed(S)
        PROVE  S \cup {n} \in SUBSET Maybe /\ Closed(S \cup {n})
    BY <2>1, <2>3 DEF Closed
  <2> HIDE DEF to
  <2>4. n \in Reached(n)
    BY DEF Reached
  <2>5. ASSUME NEW m \in Reached(to) PROVE m \in Reached(n)
    BY <2>2, <2>5 DEF Reached
  <2>6. ASSUME NEW m \in Reached(n), m # n PROVE m \in Reached(to)
    <3>1. SUFFICES ASSUME NEW S \in SUBSET Maybe, to \in S, Closed(S) PROVE m \in S
      BY DEF Reached
    <3>2. m \in S \cup {n}
      BY <2>3, <3>1 DEF Reached
    <3>3. QED
      BY <2>6, <3>2
  <2>7. QED
    BY <2>4, <2>5, <2>6 DEF to
<1>3. QED
  BY <1>1, <1>2

LEMMA GatherIs ==
  ASSUME \A m \in Nodes : LiveNext(m, 0) \in Maybe
  PROVE  /\ Contents = Gather[LiveNext(HeadNode, 0)]
         /\ \A n \in Maybe : Gather[n] = GatherBody(Gather, n)
<1>1. Contents = Gather[LiveNext(HeadNode, 0)]
  BY DEF Contents, Gather, GatherBody
<1> DEFINE f == [n \in Maybe |-> UNION {ToSet(slots[m]) : m \in Reached(n)}]
<1>2. ASSUME NEW n \in Maybe PROVE f[n] = GatherBody(f, n)
  <2>1. CASE n = NoNode
    BY <2>1, ReachedIs DEF GatherBody
  <2>2. CASE n # NoNode
    <3>1. n \in Nodes /\ LiveNext(n, 0) \in Maybe
      BY <2>2, NoNodeApart
    <3>2. Reached(n) = {n} \cup Reached(LiveNext(n, 0))
      BY <3>1, ReachedIs
    <3>3. UNION {ToSet(slots[m]) : m \in Reached(n)}
            = ToSet(slots[n]) \cup UNION {ToSet(slots[m]) : m \in Reached(LiveNext(n, 0))}
      BY <3>2
    <3>4. QED
      BY <2>2, <3>1, <3>3 DEF GatherBody
  <2>3. QED
    BY <2>1, <2>2
<1>3. f = [n \in Maybe |-> GatherBody(f, n)]
  BY <1>2
<1> HIDE DEF f
<1>4. Gather = [n \in Maybe |-> GatherBody(Gather, n)]
  BY <1>3 DEF Gather
<1>5. QED
  BY <1>1, <1>4

LEMMA ContentsType ==
  ASSUME dead \subseteq Leaves, LinksInv, RankInv, slots \in [Leaves -> Seq(Ranges)]
  PROVE  Contents \subseteq Ranges
<1>1. PICK N, rank : Ranks(0, N, rank)
  BY LevelsDown DEF RankInv
<1>2. \A m \in Nodes :
        /\ LiveNext(m, 0) \in (Linked(0) \ dead) \cup {NoNode}
        /\ LiveNext(m, 0) # NoNode => rank[m] < rank[LiveNext(m, 0)]
  BY <1>1, LevelsDown, LiveNextIs
<1>3. \A m \in Nodes : LiveNext(m, 0) \in Maybe
  BY <1>2, NoNodeApart DEF Linked
<1>4. /\ Contents = Gather[LiveNext(HeadNode, 0)]
      /\ \A n \in Maybe : Gather[n] = GatherBody(Gather, n)
  BY <1>3, GatherIs
<1>5. N \in Nat /\ rank \in [Nodes -> 0..N]
  BY <1>1 DEF Ranks
<1> DEFINE Bad == {m \in Linked(0) : ~ (Gather[m] \subseteq Ranges)}
           T == {N - rank[m] : m \in Bad}
<1>6. \A m \in Linked(0) : m \in Nodes /\ m \in Leaves /\ m # NoNode /\ m \in Maybe
  BY NoNodeApart DEF Linked
<1>7. Gather[NoNode] = {}
  BY <1>4, NoNodeApart DEF GatherBody
<1>8. Bad = {}
  <2>1. SUFFICES ASSUME Bad # {} PROVE FALSE
    OBVIOUS
  <2>2. T \subseteq Nat /\ T # {}
    <3>1. \A m \in Bad : N - rank[m] \in Nat
      BY <1>5, <1>6
    <3>2. QED
      BY <2>1, <3>1
  <2>3. PICK k \in T : \A j \in T : k <= j
    <3> HIDE DEF T
    <3>1. QED BY <2>2, LeastNatural
  <2>4. PICK m \in Bad : k = N - rank[m]
    OBVIOUS
  <2>5. /\ m \in Linked(0) /\ m \in Nodes /\ m \in Leaves /\ m # NoNode /\ m \in Maybe
    BY <1>6
  <2> DEFINE to == LiveNext(m, 0)
  <2>6. Gather[m] = ToSet(slots[m]) \cup Gather[to]
    BY <1>4, <2>5 DEF GatherBody
  <2>7. ToSet(slots[m]) \subseteq Ranges
    BY <2>5, ToSetType
  <2>8. ~ (Gather[to] \subseteq Ranges)
    BY <2>6, <2>7
  <2>9. to \in Linked(0) /\ rank[m] < rank[to] /\ to \in Nodes
    BY <1>2, <1>6, <1>7, <2>5, <2>8
  <2> HIDE DEF to
  <2>10. N - rank[to] \in T
    BY <2>8, <2>9
  <2>11. rank[m] \in 0..N /\ rank[to] \in 0..N
    BY <1>5, <2>5, <2>9
  <2>12. k <= N - rank[to]
    BY <2>3, <2>10
  <2>13. QED
    BY <1>5, <2>4, <2>9, <2>11, <2>12
<1>9. QED
  BY <1>2, <1>4, <1>7, <1>8, NoNodeApart

-----------------------------------------------------------------------------
(* Steps that change the list *)

\* What a step other than a calm one has to show.
LEMMA ChangeStep ==
  ASSUME SkiplistInv, NEW t \in Threads, Others(t), OthersLocks(t),
         LinksInv', RankInv', ChainInv', DeadInv',
         \A u \in Threads \ {t} : Rely(u),
         Linking(t)' =>
           (Linking(t) /\ th'[t].new = th[t].new) \/ th'[t].new \notin used,
         th' \in [Threads -> Locals], pc' \in [Threads -> Labels],
         next' \in [Nodes -> [Levels -> Maybe]], prev' \in [Nodes -> [Levels -> Maybe]],
         dead' \subseteq used', used' \subseteq Leaves,
         lock' \in [Nodes -> Threads \cup {NoThread}], height' \in [Leaves -> Levels],
         slots' \in [Leaves -> Seq(Ranges)], \A n \in Leaves : Len(slots'[n]) <= Cap,
         min' \in [Leaves -> Nat], max' \in [Leaves -> Nat], listLevel' \in Levels,
         preload' \in [Threads -> [Levels -> Levels \cup {Empty}]],
         \A u \in Threads, k \in Levels : preload'[u][k] <= k,
         toFill' \in Seq(Named), todo' = todo,
         \/ call' = call
         \/ \E c \in RS!Resting \cup RS!Deleting : Record(t, c),
         buried' \subseteq Ranges,
         ThreadInv(t)', ArgInv(t)'
  PROVE  SkiplistInv'
<1>1. TypeInv /\ TypeOK /\ NewInv /\ LinksInv
  BY Parts
<1>2. \A u \in Threads \ {t} : ThreadInv(u)'
  BY <1>1, Parts, ThreadStays
<1>3. Contents' \subseteq Ranges
  <2>1. (dead \subseteq Leaves)'
    OBVIOUS
  <2>2. (dead \subseteq Leaves /\ LinksInv /\ RankInv /\ slots \in [Leaves -> Seq(Ranges)]
           => Contents \subseteq Ranges)'
    BY ContentsType, PTL
  <2>3. QED
    BY <2>1, <2>2
<1>4. call' \in [Threads -> RS!Resting \cup RS!Calls \cup RS!Deleting]
  <2>1. CASE call' = call
    BY <1>1, <2>1 DEF TypeOK, RS!TypeOK
  <2>2. CASE \E c \in RS!Resting \cup RS!Deleting : Record(t, c)
    BY <1>1, <1>3, <2>2, RecordType
  <2>3. QED
    BY <2>1, <2>2
<1>5. NewInv'
  <2>1. \A u \in Threads \ {t} : (Linking(u)' <=> Linking(u)) /\ th'[u] = th[u]
    BY DEF Others, Linking
  <2>2. \A u \in Threads : Linking(u) => th[u].new \in used
    BY Parts DEF ThreadInv, LinkInv
  <2>3. ASSUME NEW u \in Threads \ {t}, Linking(t)', Linking(u)', th'[t].new = th'[u].new
        PROVE  FALSE
    <3>1. Linking(u) /\ th[u].new = th'[t].new /\ th[u].new \in used
      BY <2>1, <2>2, <2>3
    <3>2. Linking(t) /\ th[t].new = th[u].new
      BY <2>3, <3>1
    <3>3. QED
      BY <1>1, <3>1, <3>2 DEF NewInv
  <2>4. ASSUME NEW u \in Threads \ {t}, NEW v \in Threads \ {t}, Linking(u)', Linking(v)',
               th'[u].new = th'[v].new
        PROVE  u = v
    BY <1>1, <2>1, <2>4 DEF NewInv
  <2>5. QED
    BY <2>3, <2>4 DEF NewInv
<1>6. TypeOK'
  <2>1. \A n \in Leaves : ToSet(slots'[n]) \subseteq Ranges
    BY ToSetType
  <2>2. RS!TypeOK'
    BY <1>3, <1>4 DEF RS!TypeOK
  <2>3. \A u \in Threads : th'[u] \in Locals
    OBVIOUS
  <2>4. DOMAIN slots' = Leaves
    OBVIOUS
  <2>5. QED
    BY <2>1, <2>2, <2>3, <2>4 DEF TypeOK
<1>7. TypeInv'
  BY <1>1, <1>6 DEF TypeInv
<1>8. \A u \in Threads \ {t} : ArgInv(u)'
  BY Parts DEF ArgInv, Arg, Others
<1>9. QED
  BY <1>2, <1>5, <1>7, <1>8 DEF SkiplistInv

\* Others rely on what they have locked and on levels that only grow.
LEMMA RelyKept ==
  ASSUME NEW t \in Threads, Others(t), OthersLocks(t),
         NEW u \in Threads \ {t}, preload'[u] = preload[u],
         listLevel' \in Levels, listLevel <= listLevel',
         used \subseteq used', \A m \in used : height'[m] = height[m],
         NEW n, n \in used => lock[n] # u, dead \subseteq dead',
         dead' \subseteq dead \cup {n}, n \notin used => dead' = dead, HeadNode # n,
         used \subseteq Leaves,
         \A m \in used : m # n => slots'[m] = slots[m] /\ min'[m] = min[m] /\ max'[m] = max[m],
         \A l \in Levels : Linked(l)' = Linked(l)
  PROVE  Rely(u)
BY NoNodeApart DEF Rely, Others, OthersLocks, Linking

-----------------------------------------------------------------------------
(* Sequences of ranges *)

LEMMA RangesSeq ==
  ASSUME NEW s \in Seq(Slot), \A i \in 1..Len(s) : s[i] \in Ranges
  PROVE  s \in Seq(Ranges)
OBVIOUS

LEMMA InsertAtRanges ==
  ASSUME NEW s \in Seq(Ranges), NEW r \in Ranges, NEW i \in 1..Len(s) + 1
  PROVE  /\ InsertAt(s, i, r) \in Seq(Ranges)
         /\ Len(InsertAt(s, i, r)) = Len(s) + 1
         /\ s = <<>> => InsertAt(s, i, r)[1] = r
<1> DEFINE a == InsertAt(s, i, r)
<1>1. s \in Seq(Slot) /\ r \in Slot /\ Len(s) \in Nat
  BY RangesType
<1>2. /\ a \in Seq(Slot) /\ Len(a) = Len(s) + 1
      /\ \A j \in 1..i - 1 : a[j] = s[j]
      /\ a[i] = r
      /\ \A j \in i + 1..Len(s) + 1 : a[j] = s[j - 1]
  BY <1>1, InsertAtIs
<1> HIDE DEF a
<1>3. ASSUME NEW j \in 1..Len(a) PROVE a[j] \in Ranges
  <2>1. CASE j < i
    <3>1. a[j] = s[j] /\ j \in 1..Len(s)
      BY <1>1, <1>2, <2>1
    <3>2. QED
      BY <3>1
  <2>2. CASE j = i
    BY <1>2, <2>2
  <2>3. CASE j > i
    <3>1. a[j] = s[j - 1] /\ j - 1 \in 1..Len(s)
      BY <1>1, <1>2, <2>3
    <3>2. QED
      BY <3>1
  <2>4. QED
    BY <1>1, <1>2, <2>1, <2>2, <2>3
<1>4. a \in Seq(Ranges)
  BY <1>2, <1>3, RangesSeq
<1>5. s = <<>> => i = 1
  OBVIOUS
<1>6. QED
  BY <1>2, <1>4, <1>5 DEF a

LEMMA RemoveAtRanges ==
  ASSUME NEW s \in Seq(Ranges), NEW i \in 1..Len(s)
  PROVE  RemoveAt(s, i) \in Seq(Ranges) /\ Len(RemoveAt(s, i)) = Len(s) - 1
<1> DEFINE a == RemoveAt(s, i)
<1>1. s \in Seq(Slot) /\ Len(s) \in Nat
  BY RangesType
<1>2. /\ a \in Seq(Slot) /\ Len(a) = Len(s) - 1
      /\ \A j \in 1..i - 1 : a[j] = s[j]
      /\ \A j \in i..Len(s) - 1 : a[j] = s[j + 1]
  BY <1>1, RemoveAtIs
<1> HIDE DEF a
<1>3. ASSUME NEW j \in 1..Len(a) PROVE a[j] \in Ranges
  <2>1. CASE j < i
    <3>1. a[j] = s[j] /\ j \in 1..Len(s)
      BY <1>1, <1>2, <2>1
    <3>2. QED
      BY <3>1
  <2>2. CASE j >= i
    <3>1. a[j] = s[j + 1] /\ j + 1 \in 1..Len(s)
      BY <1>1, <1>2, <2>2
    <3>2. QED
      BY <3>1
  <2>3. QED
    BY <1>1, <1>2, <2>1, <2>2
<1>4. a \in Seq(Ranges)
  BY <1>2, <1>3, RangesSeq
<1>5. QED
  BY <1>2, <1>4 DEF a

LEMMA SplitRanges ==
  ASSUME NEW s \in Seq(Ranges), Len(s) = Cap, NEW r \in Ranges, NEW i \in 1..Cap + 1
  PROVE  /\ SplitMoves(s, i, r) \in Seq(Ranges) /\ SplitMoves(s, i, r) # <<>>
         /\ Len(SplitMoves(s, i, r)) <= Cap
         /\ SplitStays(s, i) \in Seq(Ranges) /\ SplitStays(s, i) # <<>>
         /\ Len(SplitStays(s, i)) <= Cap
<1>1. Cap \in Nat /\ Cap >= 2 /\ Mid \in Nat /\ 1 <= Mid /\ Mid < Cap
  BY CapAssumption, MidType
<1>2. SplitStays(s, i) \in Seq(Ranges) /\ SplitStays(s, i) # <<>> /\ Len(SplitStays(s, i)) <= Cap
  <2>1. CASE i > Len(s)
    BY <1>1, <2>1 DEF SplitStays
  <2>2. CASE ~ (i > Len(s))
    <3>1. SubSeq(s, 1, Mid) \in Seq(Ranges) /\ Len(SubSeq(s, 1, Mid)) = Mid
      BY <1>1
    <3>2. QED
      BY <1>1, <2>2, <3>1 DEF SplitStays
  <2>3. QED
    BY <2>1, <2>2
<1>3. /\ SplitMoves(s, i, r) \in Seq(Ranges) /\ SplitMoves(s, i, r) # <<>>
      /\ Len(SplitMoves(s, i, r)) <= Cap
  <2>1. CASE i > Len(s)
    BY <1>1, <2>1 DEF SplitMoves
  <2>2. CASE ~ (i > Len(s)) /\ i > Mid
    <3> DEFINE a == InsertAt(s, i, r)
    <3>1. a \in Seq(Ranges) /\ Len(a) = Cap + 1
      BY InsertAtRanges
    <3> HIDE DEF a
    <3> DEFINE b == SubSeq(a, Mid + 1, Cap + 1)
    <3>2. b \in Seq(Ranges) /\ Len(b) = Cap + 1 - Mid
      BY <1>1, <3>1
    <3>3. SplitMoves(s, i, r) = b
      BY <2>2 DEF SplitMoves, a
    <3> HIDE DEF b
    <3>4. Len(b) <= Cap /\ Len(b) # 0
      BY <1>1, <3>2
    <3>5. QED
      BY <3>2, <3>3, <3>4
  <2>3. CASE ~ (i > Len(s)) /\ ~ (i > Mid)
    <3>1. SubSeq(s, Mid + 1, Cap) \in Seq(Ranges)
          /\ Len(SubSeq(s, Mid + 1, Cap)) = Cap - Mid
      BY <1>1
    <3>2. SplitMoves(s, i, r) = SubSeq(s, Mid + 1, Cap)
      BY <2>3 DEF SplitMoves
    <3>3. QED
      BY <1>1, <3>1, <3>2
  <2>4. QED
    BY <2>1, <2>2, <2>3
<1>4. QED
  BY <1>2, <1>3

-----------------------------------------------------------------------------
(* Storing, splitting, and the end of a split *)

\* A call that returns.
LEMMA ReturnType ==
  ASSUME TypeInv, NEW t \in Threads, NEW R, Return(t, R), \A m \in R \cap Nodes : lock[m] = t
  PROVE  /\ th'[t] = Resting /\ pc'[t] = "rest" /\ Others(t) /\ OthersLocks(t)
         /\ th' \in [Threads -> Locals] /\ pc' \in [Threads -> Labels]
         /\ lock' \in [Nodes -> Threads \cup {NoThread}]
         /\ toFill' \in Seq(Named) /\ todo' = todo
         /\ ~ Linking(t)' /\ ThreadInv(t)' /\ ArgInv(t)'
<1>1. /\ th' = [th EXCEPT ![t] = Resting] /\ pc' = [pc EXCEPT ![t] = "rest"] /\ Release(R)
      /\ toFill' = (IF toFill = <<>> THEN toFill ELSE Tail(toFill)) /\ todo' = todo
  BY DEF Return, Goto
<1>2. OthersLocks(t) /\ lock' \in [Nodes -> Threads \cup {NoThread}]
  BY <1>1, LockSteps DEF TypeOK, TypeInv
<1>3. /\ th' \in [Threads -> Locals] /\ pc' \in [Threads -> Labels] /\ Others(t)
      /\ th'[t] = Resting /\ pc'[t] = "rest"
  BY <1>1, RestingType DEF TypeInv, Others, Labels
<1>4. toFill' \in Seq(Named)
  BY <1>1, FillType DEF TypeInv
<1>5. ThreadInv(t)' /\ ArgInv(t)' /\ ~ Linking(t)'
  BY <1>3, AtRest DEF ArgInv, Linking
<1>6. QED
  BY <1>1, <1>2, <1>3, <1>4, <1>5

LEMMA StoreStep ==
  ASSUME SkiplistInv, NEW t \in Threads, Store(t)
  PROVE  SkiplistInv'
<1> DEFINE p == th[t].p
           slot == th[t].slot
           r == Arg(t)
           s == InsertAt(slots[p], slot, r)
<1>1. pc[t] = "store" /\ pc[t] \in PlacePcs
  BY DEF Store, PlacePcs
<1>2. /\ TypeInv /\ TypeOK /\ th[t] \in Locals /\ LinksInv /\ ~ Linking(t)
      /\ p \in Leaves /\ p \in Nodes /\ p # HeadNode /\ lock[p] = t
      /\ slots[p] \in Seq(Ranges) /\ Len(slots[p]) \in 0..Cap
      /\ r \in Ranges /\ r \in Slot
      /\ \A m \in Held(t) : m \in Nodes /\ lock[m] = t
  BY <1>1, Placing
<1>3. slot \in 1..Len(slots[p]) + 1 /\ Len(slots[p]) < Cap /\ (p \in dead => slots[p] = <<>>)
  BY <1>1, Placing DEF PlaceInv, PlacePcs
<1>4. LinkTypes /\ RankInv /\ ChainInv /\ DeadInv /\ dead \subseteq Leaves
  BY Parts
<1>5. /\ UNCHANGED <<links, dead, height, listLevel, used, preload>>
      /\ Record(t, Over(FALSE)) /\ Return(t, Held(t))
      /\ slots' = [slots EXCEPT ![p] = s]
      /\ min' = [min EXCEPT ![p] = slots'[p][1].key]
      /\ max' = [max EXCEPT ![p] = IF slot > Len(slots[p]) THEN End(r) ELSE @]
      /\ buried' = IF p \in dead THEN buried \cup {r} ELSE buried
  BY DEF Store
<1>6. /\ th'[t] = Resting /\ pc'[t] = "rest" /\ Others(t) /\ OthersLocks(t)
      /\ th' \in [Threads -> Locals] /\ pc' \in [Threads -> Labels]
      /\ lock' \in [Nodes -> Threads \cup {NoThread}]
      /\ toFill' \in Seq(Named) /\ todo' = todo
      /\ ~ Linking(t)' /\ ThreadInv(t)' /\ ArgInv(t)'
  BY <1>2, <1>5, ReturnType
<1>7. Settled(t)
  BY <1>2, <1>5, <1>6 DEF Settled
<1>8. LinksInv' /\ RankInv' /\ (\A l \in Levels : Linked(l)' = Linked(l)) /\ UNCHANGED <<next, dead>>
  BY <1>2, <1>4, <1>5, <1>7, LevelsKept DEF links
<1>9. ChainInv'
  BY <1>4, <1>8, SameChain
<1>10. s \in Seq(Ranges) /\ Len(s) = Len(slots[p]) + 1 /\ (slots[p] = <<>> => s[1] = r)
  BY <1>2, <1>3, InsertAtRanges
<1>11. /\ slots \in [Leaves -> Seq(Ranges)] /\ min \in [Leaves -> Nat] /\ max \in [Leaves -> Nat]
       /\ \A n \in Leaves : Len(slots[n]) <= Cap
  BY <1>2 DEF TypeInv, TypeOK
<1> HIDE DEF s, r
<1>12. /\ slots' \in [Leaves -> Seq(Ranges)] /\ slots'[p] = s
       /\ \A n \in Leaves : n # p => slots'[n] = slots[n]
  BY <1>2, <1>5, <1>10, <1>11
<1>13. \A n \in Leaves : Len(slots'[n]) <= Cap
  <2>1. Len(s) <= Cap
    BY <1>2, <1>3, <1>10, CapAssumption
  <2>2. QED
    BY <1>11, <1>12, <2>1
<1>14. /\ min' \in [Leaves -> Nat] /\ min'[p] = s[1].key
       /\ \A n \in Leaves : n # p => min'[n] = min[n]
  <2>1. s[1] \in Slot
    <3>1. 1 \in 1..Len(s)
      BY <1>2, <1>10
    <3>2. s[1] \in Ranges
      BY <1>10, <3>1
    <3>3. QED
      BY <3>2, RangesType
  <2>2. s[1].key \in Nat
    BY <2>1 DEF Slot
  <2>3. QED
    BY <1>2, <1>5, <1>11, <1>12, <2>2
<1>15. /\ max' \in [Leaves -> Nat] /\ (slot > Len(slots[p]) => max'[p] = End(r))
       /\ \A n \in Leaves : n # p => max'[n] = max[n]
  <2>1. End(r) \in Nat
    BY <1>2 DEF End, Slot
  <2>2. QED
    BY <1>2, <1>5, <1>11, <2>1
<1>16. DeadInv'
  <2>1. SUFFICES ASSUME NEW n \in dead
                 PROVE  \/ slots'[n] = <<>>
                        \/ /\ Len(slots'[n]) = 1 /\ min'[n] = slots'[n][1].key
                           /\ max'[n] = End(slots'[n][1])
    BY <1>8 DEF DeadInv
  <2>2. n \in Leaves
    BY <1>4
  <2>3. CASE n # p
    BY <1>4, <1>12, <1>14, <1>15, <2>2, <2>3 DEF DeadInv
  <2>4. CASE n = p
    <3>1. slots[p] = <<>> /\ Len(s) = 1 /\ s[1] = r /\ Len(slots[p]) = 0
      BY <1>3, <1>10, <2>4
    <3>2. slot > Len(slots[p])
      BY <1>3, <3>1
    <3>3. QED
      BY <1>12, <1>14, <1>15, <2>4, <3>1, <3>2
  <2>5. QED
    BY <2>3, <2>4
<1>17. ASSUME NEW u \in Threads \ {t} PROVE Rely(u)
  <2>1. p \in used => lock[p] # u
    BY <1>2
  <2>2. listLevel' \in Levels /\ listLevel <= listLevel'
    BY <1>2, <1>5, LevelsDown DEF TypeOK
  <2>3. used \subseteq Leaves
    BY <1>2 DEF TypeOK
  <2>4. \A m \in used : m # p => slots'[m] = slots[m] /\ min'[m] = min[m] /\ max'[m] = max[m]
    BY <1>12, <1>14, <1>15, <2>3
  <2>5. preload'[u] = preload[u] /\ used \subseteq used' /\ dead \subseteq dead' /\ dead' = dead
        /\ \A m \in used : height'[m] = height[m]
    BY <1>5
  <2>6. QED
    BY <1>2, <1>6, <1>8, <2>1, <2>2, <2>3, <2>4, <2>5, RelyKept
<1>18. /\ next' \in [Nodes -> [Levels -> Maybe]] /\ prev' \in [Nodes -> [Levels -> Maybe]]
       /\ dead' \subseteq used' /\ used' \subseteq Leaves /\ height' \in [Leaves -> Levels]
       /\ listLevel' \in Levels
       /\ preload' \in [Threads -> [Levels -> Levels \cup {Empty}]]
       /\ \A u \in Threads, k \in Levels : preload'[u][k] <= k
       /\ buried' \subseteq Ranges
  BY <1>2, <1>5 DEF TypeInv, TypeOK, links
<1>19. \E c \in RS!Resting \cup RS!Deleting : Record(t, c)
  BY <1>5, OverType
<1>20. QED
  BY <1>6, <1>8, <1>9, <1>12, <1>13, <1>14, <1>15, <1>16, <1>17, <1>18, <1>19, ChangeStep

LEMMA ShrinkStep ==
  ASSUME SkiplistInv, NEW t \in Threads, Shrink(t)
  PROVE  SkiplistInv'
<1> DEFINE me == th[t]
           p == me.p
           new == me.new
           stays == SplitStays(slots[p], me.slot)
<1>1. pc[t] = "shrink" /\ ~ Linking(t)
  BY DEF Shrink, Linking
<1>2. /\ TypeInv /\ TypeOK /\ LinkTypes /\ LinksInv /\ RankInv /\ ChainInv /\ DeadInv
      /\ dead \subseteq Leaves /\ me \in Locals /\ LinkInv(t) /\ ArgInv(t)
  BY Parts DEF ThreadInv
<1>3. /\ Has(t, p) /\ p # HeadNode /\ p \in Linked(0) /\ me.slot \in 1..Cap + 1
      /\ Len(slots[p]) = Cap /\ Has(t, new) /\ new # p /\ new \notin CursorNodes(t)
      /\ me.slot <= Cap /\ me.ins \in {NoNode, p} /\ CursorHeld(t)
  BY <1>1, <1>2 DEF LinkInv
<1>4. /\ p \in Leaves /\ p \in Nodes /\ lock[p] = t /\ p \notin dead
      /\ new \in Nodes /\ lock[new] = t
  BY <1>3 DEF Linked, Has, Holds
<1>5. \A m \in Held(t) \cup {new} : m \in Nodes /\ lock[m] = t
  <2>1. \A m \in CursorNodes(t) : m \in Nodes /\ lock[m] = t
    BY <1>3 DEF CursorNodes, CursorHeld, Has, Holds
  <2>2. QED
    BY <1>3, <1>4, <2>1 DEF Held
<1>6. /\ UNCHANGED <<links, dead, height, min, listLevel, used, preload>> /\ Quiet
      /\ max' = [max EXCEPT ![p] = End(stays[Len(stays)])]
      /\ slots' = [slots EXCEPT ![p] = stays]
  BY DEF Shrink
<1>7. /\ slots \in [Leaves -> Seq(Ranges)] /\ max \in [Leaves -> Nat]
      /\ \A n \in Leaves : Len(slots[n]) <= Cap
      /\ lock \in [Nodes -> Threads \cup {NoThread}] /\ th \in [Threads -> Locals]
      /\ pc \in [Threads -> Labels]
  BY <1>2 DEF TypeInv, TypeOK
<1>8. stays \in Seq(Ranges) /\ stays # <<>> /\ Len(stays) <= Cap
  <2>1. slots[p] \in Seq(Ranges)
    BY <1>4, <1>7
  <2>2. Ranges # {}
    <3>1. 1 \in 1..Len(slots[p])
      BY <1>3, CapAssumption
    <3>2. QED
      BY <2>1, <3>1
  <2>3. QED
    BY <1>3, <2>1, <2>2, SplitRanges
<1>9. SplitLeavesRoom(slots[p], me.slot) => me.slot \in 1..Len(stays) + 1 /\ Len(stays) < Cap
  <2>1. ~ (me.slot > Len(slots[p]))
    BY <1>3, CapAssumption
  <2>2. stays = SubSeq(slots[p], 1, Mid)
    BY <2>1 DEF SplitStays
  <2>3. slots[p] \in Seq(Ranges) /\ Mid \in Nat /\ Mid < Cap
    BY <1>4, <1>7, MidType
  <2>4. Len(stays) = Mid
    BY <1>3, <2>2, <2>3, CapAssumption
  <2> HIDE DEF stays
  <2>5. QED
    BY <1>3, <2>3, <2>4, CapAssumption DEF SplitLeavesRoom
<1> HIDE DEF stays
<1>10. /\ slots' \in [Leaves -> Seq(Ranges)] /\ slots'[p] = stays
       /\ \A n \in Leaves : n # p => slots'[n] = slots[n]
       /\ \A n \in Leaves : Len(slots'[n]) <= Cap
  BY <1>4, <1>6, <1>7, <1>8
<1>11. /\ max' \in [Leaves -> Nat] /\ \A n \in Leaves : n # p => max'[n] = max[n]
  <2>1. Len(stays) \in 1..Len(stays)
    BY <1>8
  <2>2. stays[Len(stays)] \in Ranges
    BY <1>8, <2>1
  <2>3. End(stays[Len(stays)]) \in Nat
    BY <2>2, RangesType DEF End, Slot
  <2>4. QED
    BY <1>6, <1>7, <2>3
<1>12. DeadInv'
  BY <1>2, <1>4, <1>6, <1>10, <1>11 DEF DeadInv
<1>13. ASSUME Others(t), OthersLocks(t), pc'[t] \notin {"linkback", "eraseback"}, ~ Linking(t)',
              th' \in [Threads -> Locals], pc' \in [Threads -> Labels],
              lock' \in [Nodes -> Threads \cup {NoThread}],
              toFill' \in Seq(Named), todo' = todo, ThreadInv(t)', ArgInv(t)'
       PROVE  SkiplistInv'
  <2>1. Settled(t)
    BY <1>1, <1>6, <1>13 DEF Settled
  <2>2. LinksInv' /\ RankInv' /\ (\A l \in Levels : Linked(l)' = Linked(l)) /\ UNCHANGED <<next, dead>>
    BY <1>2, <1>6, <2>1, LevelsKept DEF links
  <2>3. ChainInv'
    BY <1>2, <2>2, SameChain
  <2>4. ASSUME NEW u \in Threads \ {t} PROVE Rely(u)
    <3>1. p \in used => lock[p] # u
      BY <1>4
    <3>2. listLevel' \in Levels /\ listLevel <= listLevel'
      BY <1>2, <1>6, LevelsDown DEF TypeOK
    <3>3. used \subseteq Leaves
      BY <1>2 DEF TypeOK
    <3>4. \A m \in used : m # p => slots'[m] = slots[m] /\ min'[m] = min[m] /\ max'[m] = max[m]
      BY <1>6, <1>10, <1>11, <3>3
    <3>5. preload'[u] = preload[u] /\ used \subseteq used' /\ dead \subseteq dead' /\ dead' = dead
          /\ \A m \in used : height'[m] = height[m]
      BY <1>6
    <3>6. QED
      BY <1>3, <1>13, <2>2, <3>1, <3>2, <3>3, <3>4, <3>5, RelyKept
  <2>5. /\ next' \in [Nodes -> [Levels -> Maybe]] /\ prev' \in [Nodes -> [Levels -> Maybe]]
        /\ dead' \subseteq used' /\ used' \subseteq Leaves /\ height' \in [Leaves -> Levels]
        /\ listLevel' \in Levels /\ min' \in [Leaves -> Nat]
        /\ preload' \in [Threads -> [Levels -> Levels \cup {Empty}]]
        /\ \A u \in Threads, k \in Levels : preload'[u][k] <= k
        /\ buried' \subseteq Ranges /\ call' = call
    BY <1>2, <1>6 DEF TypeInv, TypeOK, links, Quiet
  <2>6. QED
    BY <1>10, <1>11, <1>12, <1>13, <2>2, <2>3, <2>4, <2>5, ChangeStep
<1>14. CASE Return(t, Held(t) \cup {new})
  <2>1. \A m \in (Held(t) \cup {new}) \cap Nodes : lock[m] = t
    BY <1>5
  <2>2. /\ th'[t] = Resting /\ pc'[t] = "rest" /\ Others(t) /\ OthersLocks(t)
        /\ th' \in [Threads -> Locals] /\ pc' \in [Threads -> Labels]
        /\ lock' \in [Nodes -> Threads \cup {NoThread}]
        /\ toFill' \in Seq(Named) /\ todo' = todo
        /\ ~ Linking(t)' /\ ThreadInv(t)' /\ ArgInv(t)'
    BY <1>2, <1>14, <2>1, ReturnType
  <2>3. QED
    BY <1>13, <2>2
<1>15. CASE /\ SplitLeavesRoom(slots[p], me.slot)
            /\ Release({new}) /\ Goto(t, "store") /\ UNCHANGED <<th, client>>
  <2>1. /\ th' = th /\ pc' = [pc EXCEPT ![t] = "store"] /\ toFill' = toFill /\ todo' = todo
    BY <1>15 DEF Goto, client
  <2>2. /\ OthersLocks(t) /\ lock' \in [Nodes -> Threads \cup {NoThread}]
        /\ \A m \in Nodes : lock'[m] = IF m = new THEN NoThread ELSE lock[m]
    BY <1>4, <1>7, <1>15, LockSteps
  <2>3. /\ pc'[t] = "store" /\ Others(t) /\ pc' \in [Threads -> Labels]
    BY <1>7, <2>1 DEF Others, Labels
  <2>4. /\ \A l \in Levels : Linked(l)' = Linked(l) /\ On(l)' = On(l)
    BY <1>6, SameWalk
  <2>5. CursorHeld(t)'
    <3>1. \A k \in 0..MaxLevel : th[t].cur[k] # NoNode => lock'[th[t].cur[k]] = t
      BY <1>3, <2>2 DEF CursorHeld, CursorNodes, Has, Holds
    <3>2. UNCHANGED <<links, dead>>
      BY <1>6
    <3>3. QED
      BY <1>3, <2>1, <3>1, <3>2, CursorKept
  <2>6. PlaceInv(t)'
    <3>1. lock'[p] = t /\ dead' = dead /\ Linked(0)' = Linked(0)
      BY <1>3, <1>4, <1>6, <2>2, <2>4, LevelsDown
    <3>2. me.slot \in 1..Len(stays) + 1 /\ Len(stays) < Cap
      BY <1>9, <1>15
    <3>3. QED
      BY <1>3, <1>4, <1>10, <2>1, <2>3, <2>5, <3>1, <3>2 DEF PlaceInv, Holds
  <2>7. ThreadInv(t)'
    BY <2>3, <2>6, ElsewhereNext
       DEF Elsewhere, ThreadInv, MayAllocate, InsertPcs, WalkPcs, VerifyPcs, SearchPcs, ErasePcs
  <2>8. ArgInv(t)'
    BY <1>1, <1>2, <2>1 DEF ArgInv, Arg
  <2>9. toFill' \in Seq(Named) /\ th' \in [Threads -> Locals] /\ ~ Linking(t)'
    BY <1>2, <1>7, <2>1, <2>3 DEF TypeInv, Linking
  <2>10. QED
    BY <1>13, <2>1, <2>2, <2>3, <2>7, <2>8, <2>9
<1>16. QED
  BY <1>14, <1>15 DEF Shrink

-----------------------------------------------------------------------------
(* The end of a search: the leaf that has the range *)

LEMMA GrabStep ==
  ASSUME SkiplistInv, NEW t \in Threads, Grab(t)
  PROVE  SkiplistInv'
<1> DEFINE me == th[t]
           n == me.leaf
           hit == LeafSlotLocked(slots[n], Arg(t))
           left == RemoveAt(slots[n], hit.slot)
<1>1. pc[t] = "grab" /\ pc[t] \in SearchPcs /\ lock[n] = NoThread
  BY DEF Grab, SearchPcs
<1>2. /\ TypeInv /\ TypeOK /\ LinkTypes /\ LinksInv /\ RankInv /\ ChainInv /\ DeadInv
      /\ dead \subseteq Leaves /\ me \in Locals /\ ArgInv(t) /\ ~ Linking(t) /\ pc[t] # "rest"
      /\ n \in Linked(0) /\ lock \in [Nodes -> Threads \cup {NoThread}]
  BY <1>1, Parts, Searching DEF SearchInv
<1>3. n \in Leaves /\ n \in used /\ n \in Nodes /\ n # HeadNode /\ 0 \in Levels
  BY <1>2, LevelsDown, NoNodeApart DEF Linked, LinksInv
<1>4. /\ slots \in [Leaves -> Seq(Ranges)] /\ min \in [Leaves -> Nat] /\ max \in [Leaves -> Nat]
      /\ \A m \in Leaves : Len(slots[m]) <= Cap
      /\ th \in [Threads -> Locals] /\ pc \in [Threads -> Labels]
      /\ height \in [Leaves -> Levels]
  BY <1>2 DEF TypeInv, TypeOK
<1>5. Arg(t) \in Slot /\ slots[n] \in Seq(Slot) /\ slots[n] \in Seq(Ranges)
  BY <1>2, <1>3, <1>4, RangesType DEF ArgInv
<1>6. hit.found \in BOOLEAN /\ hit.slot \in 1..Len(slots[n]) + 1
      /\ (hit.found => hit.slot <= Len(slots[n]))
  BY <1>5, LeafSlotLockedType
<1> HIDE DEF hit
<1>7. CASE Goto(t, "top") /\ UNCHANGED th /\ Unlocked
  <2>1. /\ Private /\ UNCHANGED lock /\ th' = [th EXCEPT ![t] = th[t]]
        /\ pc' = [pc EXCEPT ![t] = "top"] /\ "top" \in SearchPcs
    BY <1>4, <1>7 DEF Goto, Unlocked, SearchPcs
  <2>2. OthersLocks(t) /\ lock' \in [Nodes -> Threads \cup {NoThread}]
    BY <1>2, <2>1, LockSteps
  <2>3. pc'[t] = "top" => SearchInv(t)'
    BY DEF SearchInv
  <2>4. QED
    BY <1>1, <1>2, <2>1, <2>2, <2>3, SearchMove DEF SameArg
<1>8. CASE /\ UNCHANGED <<links, dead, leaf, listLevel, used, preload, buried>>
           /\ Return(t, {}) /\ Record(t, Over(hit.found))
  <2>1. \A m \in {} \cap Nodes : lock[m] = t
    OBVIOUS
  <2>2. QED
    BY <1>2, <1>6, <1>8, <2>1, ReturnStep
<1>9. CASE /\ n \notin dead /\ hit.found
           /\ slots' = [slots EXCEPT ![n] = left]
           /\ min' = [min EXCEPT ![n] = IF left = <<>> THEN @ ELSE left[1].key]
           /\ max' = [max EXCEPT ![n] =
                        IF left # <<>> /\ hit.slot > Len(left)
                        THEN End(left[Len(left)]) ELSE @]
           /\ UNCHANGED <<links, height, listLevel, used, preload>>
           /\ IF left = <<>>
              THEN /\ dead' = dead \cup {n}
                   /\ th' = [th EXCEPT ![t].i = height[n]]
                   /\ Goto(t, "erase")
                   /\ Record(t, [op |-> "deleting", r |-> slots[n][hit.slot]])
                   /\ UNCHANGED <<lock, client, buried>>
              ELSE UNCHANGED dead /\ Return(t, {}) /\ Done(t)
  <2>1. left \in Seq(Ranges) /\ Len(left) = Len(slots[n]) - 1 /\ Len(slots[n]) \in Nat
        /\ slots[n][hit.slot] \in Ranges
    <3>1. hit.slot \in 1..Len(slots[n])
      BY <1>6, <1>9
    <3>2. QED
      BY <1>5, <3>1, RemoveAtRanges
  <2>2. Len(left) <= Cap
    BY <1>3, <1>4, <2>1, CapAssumption
  <2> HIDE DEF left
  <2>3. left # <<>> => left[1].key \in Nat /\ End(left[Len(left)]) \in Nat
    <3>1. ASSUME left # <<>> PROVE left[1] \in Slot /\ left[Len(left)] \in Slot
      <4>1. 1 \in 1..Len(left) /\ Len(left) \in 1..Len(left)
        BY <2>1, <3>1
      <4>2. left[1] \in Ranges /\ left[Len(left)] \in Ranges
        BY <2>1, <4>1
      <4>3. QED
        BY <4>2, RangesType
    <3>2. QED
      BY <3>1 DEF End, Slot
  <2>4. /\ slots' \in [Leaves -> Seq(Ranges)] /\ slots'[n] = left
        /\ \A m \in Leaves : m # n => slots'[m] = slots[m]
        /\ \A m \in Leaves : Len(slots'[m]) <= Cap
    BY <1>3, <1>4, <1>9, <2>1, <2>2
  <2>5. /\ min' \in [Leaves -> Nat] /\ max' \in [Leaves -> Nat]
        /\ \A m \in Leaves : m # n => min'[m] = min[m] /\ max'[m] = max[m]
    BY <1>3, <1>4, <1>9, <2>3
  <2>6. /\ UNCHANGED links /\ next' = next /\ height' = height /\ used' = used /\ listLevel' = listLevel
        /\ preload' = preload
    BY <1>9 DEF links
  <2>7. /\ dead \subseteq dead' /\ dead' \subseteq dead \cup {n}
        /\ (n \in dead' => left = <<>>) /\ (dead' = dead \/ dead' = dead \cup {n})
    BY <1>9
  <2>8. /\ Others(t) /\ OthersLocks(t) /\ pc'[t] \in {"rest", "erase"}
        /\ th' \in [Threads -> Locals] /\ pc' \in [Threads -> Labels]
        /\ lock' \in [Nodes -> Threads \cup {NoThread}]
        /\ toFill' \in Seq(Named) /\ todo' = todo /\ buried' = buried
        /\ ArgInv(t)'
        /\ pc'[t] = "erase" => n \in dead' /\ th'[t].leaf = n /\ th'[t].i = height[n]
        /\ \E c \in RS!Resting \cup RS!Deleting : Record(t, c)
    <3>1. CASE left # <<>>
      <4>1. Return(t, {}) /\ \A m \in {} \cap Nodes : lock[m] = t
        BY <1>9, <3>1
      <4>2. /\ pc'[t] = "rest" /\ Others(t) /\ OthersLocks(t)
            /\ th' \in [Threads -> Locals] /\ pc' \in [Threads -> Labels]
            /\ lock' \in [Nodes -> Threads \cup {NoThread}]
            /\ toFill' \in Seq(Named) /\ todo' = todo /\ ArgInv(t)'
        BY <1>2, <4>1, ReturnType
      <4>3. Record(t, Over(FALSE)) /\ buried' = buried
        BY <1>9, <3>1 DEF Done
      <4>4. QED
        BY <4>2, <4>3, OverType
    <3>2. CASE left = <<>>
      <4> DEFINE r == [me EXCEPT !.i = height[n]]
                 c == [op |-> "deleting", r |-> slots[n][hit.slot]]
      <4>1. /\ th' = [th EXCEPT ![t] = r] /\ pc' = [pc EXCEPT ![t] = "erase"]
            /\ lock' = lock /\ toFill' = toFill /\ todo' = todo /\ buried' = buried
            /\ dead' = dead \cup {n} /\ Record(t, c)
        BY <1>4, <1>9, <3>2 DEF Goto, client
      <4>2. height[n] \in -1..MaxLevel
        BY <1>3, <1>4, LevelsDown
      <4>3. r \in Locals /\ r.leaf = n /\ r.i = height[n] /\ SameArg(t, r)
        BY <1>2, <4>2 DEF Locals, SameArg
      <4>4. c \in RS!Deleting
        BY <2>1 DEF RS!Deleting
      <4> HIDE DEF r, c
      <4>5. /\ th'[t] = r /\ pc'[t] = "erase" /\ Others(t)
            /\ th' \in [Threads -> Locals] /\ pc' \in [Threads -> Labels]
        BY <1>4, <4>1, <4>3 DEF Others, Labels, ErasePcs
      <4>6. ArgInv(t)'
        BY <1>2, <4>3, <4>5 DEF ArgInv, Arg, SameArg
      <4>7. OthersLocks(t) /\ lock' \in [Nodes -> Threads \cup {NoThread}]
        BY <1>2, <4>1, LockSteps
      <4>8. toFill' \in Seq(Named)
        BY <1>2, <4>1 DEF TypeInv
      <4>9. QED
        BY <4>1, <4>3, <4>4, <4>5, <4>6, <4>7, <4>8
    <3>3. QED
      BY <3>1, <3>2
  <2>9. ~ Linking(t)'
    BY <2>8 DEF Linking
  <2>10. Settled(t)
    BY <1>2, <2>6, <2>8, <2>9 DEF Settled
  <2>11. LinksInv' /\ RankInv' /\ \A l \in Levels : Linked(l)' = Linked(l)
    BY <1>2, <2>6, <2>10, LevelsKept
  <2>12. ChainInv'
    <3>1. CASE dead' = dead
      BY <1>2, <2>6, <2>11, <3>1, SameChain
    <3>2. CASE dead' = dead \cup {n}
      <4>1. dead' \subseteq Leaves
        BY <1>2, <1>3, <3>2
      <4>2. QED
        BY <1>2, <1>3, <1>9, <2>6, <2>11, <3>2, <4>1, GrabChain
    <3>3. QED
      BY <2>7, <3>1, <3>2
  <2>13. DeadInv'
    <3>1. SUFFICES ASSUME NEW m \in dead'
                   PROVE  \/ slots'[m] = <<>>
                          \/ /\ Len(slots'[m]) = 1 /\ min'[m] = slots'[m][1].key
                             /\ max'[m] = End(slots'[m][1])
      BY DEF DeadInv
    <3>2. CASE m = n
      BY <2>4, <2>7, <3>2
    <3>3. CASE m # n
      <4>1. m \in dead /\ m \in Leaves
        BY <1>2, <2>7, <3>3
      <4>2. slots'[m] = slots[m] /\ min'[m] = min[m] /\ max'[m] = max[m]
        BY <2>4, <2>5, <3>3, <4>1
      <4>3. QED
        BY <1>2, <4>1, <4>2 DEF DeadInv
    <3>4. QED
      BY <3>2, <3>3
  <2>14. ASSUME NEW u \in Threads \ {t} PROVE Rely(u)
    <3>1. lock[n] # u
      BY <1>1, SkiplistAssumption
    <3>2. listLevel' \in Levels /\ listLevel <= listLevel'
      BY <1>2, <2>6, LevelsDown DEF TypeOK
    <3>3. used \subseteq Leaves
      BY <1>2 DEF TypeOK
    <3>4. \A m \in used : m # n => slots'[m] = slots[m] /\ min'[m] = min[m] /\ max'[m] = max[m]
      BY <2>4, <2>5, <3>3
    <3>5. preload'[u] = preload[u] /\ used \subseteq used' /\ \A m \in used : height'[m] = height[m]
      BY <2>6
    <3>6. QED
      BY <1>3, <2>7, <2>8, <2>11, <3>1, <3>2, <3>3, <3>4, <3>5, RelyKept
  <2>15. ThreadInv(t)'
    <3>1. CASE pc'[t] = "rest"
      BY <3>1, AtRest
    <3>2. CASE pc'[t] = "erase"
      <4>1. height[n] \in 0..height[n]
        BY <1>3, <1>4, LevelsDown
      <4>2. EraseInv(t)'
        BY <1>2, <1>3, <2>6, <2>8, <2>11, <3>2, <4>1 DEF EraseInv
      <4>3. QED
        BY <3>2, <4>2, ArriveErase DEF ErasePcs
    <3>3. QED
      BY <2>8, <3>1, <3>2
  <2>16. /\ next' \in [Nodes -> [Levels -> Maybe]] /\ prev' \in [Nodes -> [Levels -> Maybe]]
         /\ dead' \subseteq used' /\ used' \subseteq Leaves /\ height' \in [Leaves -> Levels]
         /\ listLevel' \in Levels
         /\ preload' \in [Threads -> [Levels -> Levels \cup {Empty}]]
         /\ \A u \in Threads, k \in Levels : preload'[u][k] <= k
         /\ buried' \subseteq Ranges
    BY <1>2, <1>3, <2>6, <2>7, <2>8 DEF TypeInv, TypeOK, links
  <2>17. QED
    BY <2>4, <2>5, <2>8, <2>9, <2>11, <2>12, <2>13, <2>14, <2>15, <2>16, ChangeStep
<1>10. QED
  BY <1>7, <1>8, <1>9 DEF Grab, VerifyKeyInLeaf, hit

-----------------------------------------------------------------------------
(* The new leaf *)

LEMMA NewLeafIs ==
  ASSUME TypeOK, LinksInv, used # Leaves
  PROVE  /\ NewLeaf \in Leaves \ used /\ NewLeaf \in Nodes /\ NewLeaf # HeadNode
         /\ NewLeaf \in Maybe /\ NewLeaf # NoNode
         /\ NewLeaf \notin dead /\ \A l \in Levels : NewLeaf \notin Linked(l)
<1>1. used \subseteq Leaves /\ dead \subseteq used
  BY DEF TypeOK
<1>2. \E n \in Leaves : n \notin used
  BY <1>1
<1>3. NewLeaf \in Leaves \ used
  BY <1>2 DEF NewLeaf
<1> HIDE DEF NewLeaf
<1>4. QED
  BY <1>1, <1>3, NoNodeApart DEF LinksInv

LEMMA NewLeafStep ==
  ASSUME SkiplistInv, NEW t \in Threads, ~ Linking(t), pc[t] # "rest",
         NEW token \in Levels, preload[t][token] \in Levels, TakePreloaded(t, token),
         NEW s \in Seq(Ranges), Len(s) <= Cap, slots' = [slots EXCEPT ![NewLeaf] = s],
         NEW mn \in Nat, min' = [min EXCEPT ![NewLeaf] = mn],
         NEW mx \in Nat, max' = [max EXCEPT ![NewLeaf] = mx],
         UNCHANGED <<links, dead, client>>, Quiet,
         listLevel' \in Levels, listLevel <= listLevel',
         OthersLocks(t),
         lock' \in [Nodes -> Threads \cup {NoThread}],
         NEW r \in Locals, th' = [th EXCEPT ![t] = r], r.new = NewLeaf, SameArg(t, r),
         pc' = [pc EXCEPT ![t] = "link"],
         LinkInv(t)'
  PROVE  SkiplistInv'
<1>1. /\ TypeInv /\ TypeOK /\ LinkTypes /\ LinksInv /\ RankInv /\ ChainInv /\ DeadInv
      /\ dead \subseteq Leaves /\ ArgInv(t)
  BY Parts
<1>2. /\ NewLeaf \in Leaves \ used /\ NewLeaf \in Nodes /\ NewLeaf # HeadNode
      /\ NewLeaf \notin dead /\ \A l \in Levels : NewLeaf \notin Linked(l)
  BY <1>1, NewLeafIs DEF TakePreloaded
<1>3. /\ slots \in [Leaves -> Seq(Ranges)] /\ min \in [Leaves -> Nat] /\ max \in [Leaves -> Nat]
      /\ \A m \in Leaves : Len(slots[m]) <= Cap
      /\ th \in [Threads -> Locals] /\ pc \in [Threads -> Labels]
      /\ height \in [Leaves -> Levels] /\ used \subseteq Leaves /\ dead \subseteq used
      /\ preload \in [Threads -> [Levels -> Levels \cup {Empty}]]
      /\ \A u \in Threads, k \in Levels : preload[u][k] <= k
  BY <1>1 DEF TypeInv, TypeOK
<1>4. /\ used' = used \cup {NewLeaf} /\ height' = [height EXCEPT ![NewLeaf] = preload[t][token]]
      /\ preload' = [preload EXCEPT ![t][token] = Empty]
  BY DEF TakePreloaded
<1> HIDE DEF NewLeaf
<1>5. /\ height' \in [Leaves -> Levels] /\ \A m \in used : height'[m] = height[m]
      /\ used' \subseteq Leaves /\ dead' \subseteq used' /\ dead' = dead
  BY <1>2, <1>3, <1>4
<1>6. /\ preload' \in [Threads -> [Levels -> Levels \cup {Empty}]]
      /\ \A u \in Threads, k \in Levels : preload'[u][k] <= k
      /\ \A u \in Threads \ {t} : preload'[u] = preload[u]
  <2>1. Empty \in Int /\ \A k \in Levels : Empty <= k
    BY LevelsDown DEF Empty
  <2>2. \A u \in Threads, k \in Levels :
          preload'[u][k] = IF u = t /\ k = token THEN Empty ELSE preload[u][k]
    BY <1>3, <1>4
  <2>3. QED
    BY <1>3, <1>4, <2>1, <2>2
<1>7. /\ slots' \in [Leaves -> Seq(Ranges)] /\ slots'[NewLeaf] = s
      /\ min' \in [Leaves -> Nat] /\ max' \in [Leaves -> Nat]
      /\ \A m \in Leaves : Len(slots'[m]) <= Cap
      /\ \A m \in used : m # NewLeaf => slots'[m] = slots[m] /\ min'[m] = min[m] /\ max'[m] = max[m]
  BY <1>2, <1>3
<1>8. /\ th'[t] = r /\ pc'[t] = "link" /\ Others(t)
      /\ th' \in [Threads -> Locals] /\ pc' \in [Threads -> Labels]
  BY <1>3 DEF Others, Labels
<1>9. Linking(t)'
  BY <1>8 DEF Linking
<1>10. Settled(t)
  BY <1>4, <1>5, <1>8, <1>9 DEF Settled
<1>11. LinksInv' /\ RankInv' /\ (\A l \in Levels : Linked(l)' = Linked(l)) /\ next' = next
  BY <1>1, <1>10, LevelsKept DEF links
<1>12. ChainInv'
  BY <1>1, <1>5, <1>11, SameChain
<1>13. DeadInv'
  <2>1. SUFFICES ASSUME NEW m \in dead
                 PROVE  \/ slots'[m] = <<>>
                        \/ /\ Len(slots'[m]) = 1 /\ min'[m] = slots'[m][1].key
                           /\ max'[m] = End(slots'[m][1])
    BY <1>5 DEF DeadInv
  <2>2. m # NewLeaf /\ m \in used
    BY <1>2, <1>3
  <2>3. slots'[m] = slots[m] /\ min'[m] = min[m] /\ max'[m] = max[m]
    BY <1>7, <2>2
  <2>4. QED
    BY <1>1, <2>3 DEF DeadInv
<1>14. ASSUME NEW u \in Threads \ {t} PROVE Rely(u)
  <2>1. NewLeaf \in used => lock[NewLeaf] # u
    BY <1>2
  <2>2. preload'[u] = preload[u] /\ used \subseteq used' /\ dead \subseteq dead'
        /\ dead' \subseteq dead \cup {NewLeaf}
    BY <1>4, <1>5, <1>6
  <2>3. HeadNode # NewLeaf /\ dead' = dead /\ used \subseteq Leaves /\ Others(t)
        /\ \A m \in used : height'[m] = height[m]
    BY <1>2, <1>3, <1>5, <1>8
  <2>4. \A m \in used : m # NewLeaf => slots'[m] = slots[m] /\ min'[m] = min[m] /\ max'[m] = max[m]
    BY <1>7
  <2>5. \A l \in Levels : Linked(l)' = Linked(l)
    BY <1>11
  <2>6. QED
    BY <2>1, <2>2, <2>3, <2>4, <2>5, RelyKept
<1>15. ThreadInv(t)'
  BY <1>8, ElsewhereNext
     DEF Elsewhere, ThreadInv, MayAllocate, InsertPcs, WalkPcs, VerifyPcs, PlacePcs, SearchPcs,
         ErasePcs
<1>16. ArgInv(t)'
  BY <1>1, <1>8 DEF ArgInv, Arg, SameArg
<1>17. /\ next' \in [Nodes -> [Levels -> Maybe]] /\ prev' \in [Nodes -> [Levels -> Maybe]]
       /\ toFill' \in Seq(Named) /\ todo' = todo /\ call' = call /\ buried' \subseteq Ranges
  BY <1>1 DEF TypeInv, TypeOK, links, client, Quiet
<1>18. Linking(t)' => th'[t].new \notin used
  BY <1>2, <1>8
<1>19. QED
  BY <1>5, <1>6, <1>7, <1>8, <1>11, <1>12, <1>13, <1>14, <1>15, <1>16, <1>17, <1>18, ChangeStep

LEMMA SplitStep ==
  ASSUME SkiplistInv, NEW t \in Threads, Split(t)
  PROVE  SkiplistInv'
<1> DEFINE me == th[t]
           p == me.p
           low == height[p] > 0 /\ preload[t][me.token] <= height[p] /\ preload[t][0] # Empty
           token == IF low THEN 0 ELSE me.token
           moved == SplitMoves(slots[p], me.slot, Arg(t))
           mx == IF me.slot > Len(slots[p]) THEN End(Arg(t)) ELSE max[p]
           lev == IF preload[t][token] > listLevel THEN preload[t][token] ELSE listLevel
           r == [me EXCEPT !.new = NewLeaf, !.i = 0]
<1>1. pc[t] = "split" /\ pc[t] \in PlacePcs /\ pc[t] # "rest"
  BY DEF Split, PlacePcs
<1>2. /\ TypeInv /\ TypeOK /\ me \in Locals /\ LinksInv /\ ~ Linking(t)
      /\ lock \in [Nodes -> Threads \cup {NoThread}]
      /\ p \in Linked(0) /\ p \in Leaves /\ p \in Nodes /\ p # HeadNode /\ lock[p] = t
      /\ me.ins \in {NoNode, p} /\ CursorHeld(t) /\ slots[p] \in Seq(Ranges)
      /\ Arg(t) \in Ranges /\ Arg(t) \in Slot
  BY <1>1, Placing
<1>3. /\ me.slot \in 1..Cap + 1 /\ Len(slots[p]) = Cap /\ p \notin dead
      /\ \A k \in 0..me.pending : Ready(t, k)
  BY <1>1, Placing DEF PlaceInv
<1>4. /\ me.token \in 1..MaxLevel - 1 /\ preload[t][me.token] \in 0..me.pending
      /\ me.pending \in Levels
  BY <1>1, Parts DEF ThreadInv, PreloadInv, MayAllocate, InsertPcs, Preloaded
<1>5. /\ preload \in [Threads -> [Levels -> Levels \cup {Empty}]]
      /\ \A u \in Threads, k \in Levels : preload[u][k] <= k
      /\ listLevel \in Levels /\ max \in [Leaves -> Nat] /\ min \in [Leaves -> Nat]
      /\ used \subseteq Leaves /\ dead \subseteq used /\ height \in [Leaves -> Levels]
  BY <1>2 DEF TypeInv, TypeOK
<1>6. me.token \in Levels /\ 0 \in Levels /\ me.pending \in Nat
  BY <1>4, LevelsDown DEF Levels
<1>7. token \in Levels /\ preload[t][token] \in Levels /\ preload[t][token] \in 0..me.pending
  <2>1. CASE low
    <3>1. preload[t][0] \in Levels /\ preload[t][0] <= 0
      BY <1>5, <1>6, <2>1
    <3>2. preload[t][0] = 0
      BY <3>1, LevelsDown
    <3>3. QED
      BY <1>6, <2>1, <3>1, <3>2
  <2>2. CASE ~ low
    <3>1. preload[t][me.token] \in Levels
      BY <1>4, LevelsDown
    <3>2. QED
      BY <1>4, <1>6, <2>2, <3>1
  <2>3. QED
    BY <2>1, <2>2
<1>8. /\ TakePreloaded(t, token) /\ Acquire(t, NewLeaf) /\ Quiet /\ UNCHANGED <<links, dead, client>>
      /\ slots' = [slots EXCEPT ![NewLeaf] = moved]
      /\ min' = [min EXCEPT ![NewLeaf] = moved[1].key]
      /\ max' = [max EXCEPT ![NewLeaf] = mx] /\ listLevel' = lev
      /\ th' = [th EXCEPT ![t] = r] /\ pc' = [pc EXCEPT ![t] = "link"]
  BY <1>2 DEF Split, Goto, TypeInv
<1> HIDE DEF token
<1>9. listLevel' \in Levels /\ listLevel <= listLevel'
  BY <1>5, <1>7, <1>8, LevelsDown
<1>10. /\ NewLeaf \in Leaves \ used /\ NewLeaf \in Nodes /\ NewLeaf # HeadNode
       /\ NewLeaf \in Maybe /\ NewLeaf # NoNode
       /\ NewLeaf \notin dead /\ \A l \in Levels : NewLeaf \notin Linked(l)
  BY <1>2, <1>8, NewLeafIs DEF TakePreloaded
<1>11. moved \in Seq(Ranges) /\ moved # <<>> /\ Len(moved) <= Cap
  BY <1>2, <1>3, SplitRanges
<1>12. moved[1].key \in Nat /\ mx \in Nat
  <2>1. moved[1] \in Slot
    <3> HIDE DEF moved
    <3>1. 1 \in 1..Len(moved)
      BY <1>11
    <3>2. moved[1] \in Ranges
      BY <1>11, <3>1
    <3>3. QED
      BY <3>2, RangesType
  <2>2. End(Arg(t)) \in Nat /\ max[p] \in Nat
    BY <1>2, <1>5 DEF End, Slot
  <2>3. QED
    BY <2>1, <2>2 DEF Slot
<1>13. /\ OthersLocks(t) /\ lock' \in [Nodes -> Threads \cup {NoThread}]
       /\ \A m \in Nodes : lock'[m] = IF m = NewLeaf THEN t ELSE lock[m]
       /\ lock[NewLeaf] = NoThread /\ NoThread # t
  <2>1. lock \in [Nodes -> Threads \cup {NoThread}] /\ NewLeaf \in Nodes
    BY <1>2, <1>10
  <2>2. Acquire(t, NewLeaf)
    BY <1>8
  <2>3. lock[NewLeaf] = NoThread /\ NoThread # t
    BY <2>2, SkiplistAssumption DEF Acquire
  <2>4. QED
    BY <2>1, <2>2, <2>3, LockSteps
<1>14. used' = used \cup {NewLeaf} /\ height' = [height EXCEPT ![NewLeaf] = preload[t][token]]
  BY <1>8 DEF TakePreloaded
<1> HIDE DEF NewLeaf, moved, mx
<1>15. 0 \in -1..MaxLevel
  BY LevelsDown
<1>16. /\ r \in Locals /\ r.new = NewLeaf /\ SameArg(t, r) /\ r.p = p /\ r.ins = me.ins
       /\ r.cur = me.cur /\ r.i = 0 /\ r.slot = me.slot /\ r.pending = me.pending
  BY <1>2, <1>10, <1>15 DEF Locals, SameArg
<1> HIDE DEF r
<1>17. th'[t] = r /\ pc'[t] = "link"
  BY <1>2, <1>8 DEF TypeInv
<1>18. \A l \in Levels : Linked(l)' = Linked(l) /\ On(l)' = On(l)
  BY <1>8, SameWalk
<1>19. LinkInv(t)'
  <2>1. p # NewLeaf /\ lock'[p] = t /\ dead' = dead /\ slots'[p] = slots[p] /\ height'[p] = height[p]
    BY <1>2, <1>5, <1>8, <1>10, <1>13, <1>14 DEF LinksInv
  <2>2. \A k \in 0..MaxLevel : me.cur[k] # NoNode =>
          me.cur[k] \in Nodes /\ lock[me.cur[k]] = t /\ me.cur[k] # NewLeaf
    BY <1>2, <1>13 DEF CursorHeld, Has, Holds
  <2>3. CursorHeld(t)'
    <3>1. \A k \in 0..MaxLevel : me.cur[k] # NoNode => lock'[me.cur[k]] = t
      BY <1>13, <2>2
    <3>2. UNCHANGED <<links, dead>>
      BY <1>8
    <3>3. QED
      BY <1>2, <1>16, <1>17, <3>1, <3>2, CursorKept
  <2>4. NewLeaf \notin CursorNodes(t)'
    BY <1>10, <1>16, <1>17, <2>2 DEF CursorNodes
  <2>5. height'[NewLeaf] = preload[t][token] /\ height'[NewLeaf] \in Nat
    BY <1>5, <1>7, <1>10, <1>14, LevelsDown
  <2>6. \A k \in 0..height'[NewLeaf] : Ready(t, k)'
    <3>1. SUFFICES ASSUME NEW k \in 0..height'[NewLeaf] PROVE Ready(t, k)'
      OBVIOUS
    <3>2. k \in 0..me.pending /\ k \in Levels
      BY <1>4, <1>6, <1>7, <2>5, LevelsDown
    <3>3. Ready(t, k)
      BY <1>3, <3>2
    <3>4. IF k <= height[p] THEN p \in Linked(k)
          ELSE Has(t, me.cur[k]) /\ me.cur[k] \in On(k)
      BY <1>2, <3>3 DEF Ready
    <3>5. k \in 0..MaxLevel
      BY <3>2, LevelsDown
    <3>6. Has(t, me.cur[k]) => lock'[me.cur[k]] = t
      BY <1>13 DEF Has, Holds
    <3>7. IF k <= height'[p] THEN p \in Linked(k)'
          ELSE (me.cur[k] \in Nodes /\ lock'[me.cur[k]] = t /\ me.cur[k] \notin dead')
               /\ me.cur[k] \in On(k)'
      BY <1>18, <2>1, <3>2, <3>4, <3>6 DEF Has, Holds
    <3>8. QED
      BY <1>2, <1>16, <1>17, <3>7 DEF Ready, Has, Holds
  <2>7. \A k \in Levels : NewLeaf \notin Linked(k)'
    BY <1>10, <1>18
  <2>8. 0 \in 0..height'[NewLeaf] /\ NewLeaf \in used' /\ lock'[NewLeaf] = t
        /\ \A k \in Levels : ~ (k < 0)
    BY <1>10, <1>13, <1>14, <2>5, LevelsDown
  <2>9. p \in Linked(0)'
    BY <1>2, <1>6, <1>18
  <2>10. ~ (p = HeadNode) /\ r.i = 0 /\ r.new = NewLeaf /\ r.p = p
    BY <1>2, <1>16
  <2>11. p \notin dead' /\ NewLeaf \notin dead'
    BY <1>3, <1>10, <2>1
  <2>12. QED
    BY <1>2, <1>3, <1>6, <1>10, <1>16, <1>17, <2>1, <2>3, <2>4, <2>6, <2>7, <2>8, <2>9, <2>10, <2>11
       DEF LinkInv, Linking, Has, Holds
<1>20. QED
  BY <1>1, <1>2, <1>7, <1>8, <1>9, <1>11, <1>12, <1>13, <1>16, <1>19, NewLeafStep

LEMMA EmptyListStep ==
  ASSUME SkiplistInv, NEW t \in Threads, EmptyList(t)
  PROVE  SkiplistInv'
<1> DEFINE me == th[t]
           level == preload[t][me.token]
           cur == IF level > listLevel THEN [me.cur EXCEPT ![listLevel + 1] = HeadNode]
                  ELSE me.cur
           r == [me EXCEPT !.new = NewLeaf, !.i = 0, !.cur = cur]
           lev == IF level > listLevel THEN listLevel + 1 ELSE listLevel
           s == <<Arg(t)>>
<1>1. pc[t] = "empty" /\ pc[t] # "rest" /\ ~ Linking(t)
  BY DEF EmptyList, Linking
<1>2. /\ TypeInv /\ TypeOK /\ me \in Locals /\ LinksInv /\ ThreadInv(t) /\ ArgInv(t)
      /\ lock \in [Nodes -> Threads \cup {NoThread}] /\ dead \subseteq Leaves
  BY Parts DEF TypeOK
<1>3. /\ me.p = HeadNode /\ Holds(t, HeadNode) /\ NoLeaf
      /\ \A k \in 0..MaxLevel : me.cur[k] = IF k <= me.pending THEN HeadNode ELSE NoNode
      /\ me.token \in 1..MaxLevel - 1 /\ level \in 0..me.pending /\ me.pending \in Levels
      /\ me.pending <= listLevel + 1 /\ me.ins = NoNode
  BY <1>1, <1>2
     DEF ThreadInv, EmptyInv, PreloadInv, FreshInv, MayAllocate, InsertPcs, PlacePcs, Preloaded
<1>4. /\ preload \in [Threads -> [Levels -> Levels \cup {Empty}]]
      /\ listLevel \in Levels /\ used \subseteq Leaves /\ dead \subseteq used
      /\ height \in [Leaves -> Levels]
  BY <1>2 DEF TypeInv, TypeOK
<1>5. /\ me.token \in Levels /\ 0 \in Levels /\ me.pending \in Nat /\ me.pending < MaxLevel
      /\ listLevel \in Nat /\ level \in Levels /\ level \in Nat
  BY <1>3, <1>4, LevelsDown DEF Levels
<1>6. /\ TakePreloaded(t, me.token) /\ Quiet /\ UNCHANGED <<links, dead, client>> /\ lock' = lock
      /\ slots' = [slots EXCEPT ![NewLeaf] = s]
      /\ min' = [min EXCEPT ![NewLeaf] = me.key]
      /\ max' = [max EXCEPT ![NewLeaf] = End(Arg(t))] /\ listLevel' = lev
      /\ th' = [th EXCEPT ![t] = r] /\ pc' = [pc EXCEPT ![t] = "link"]
  BY <1>2 DEF EmptyList, Goto, TypeInv
<1>7. cur = me.cur
  <2>1. me.cur \in [0..MaxLevel -> Maybe]
    BY <1>2 DEF Locals
  <2>2. CASE level > listLevel
    <3>1. listLevel + 1 = level /\ listLevel + 1 \in 0..MaxLevel /\ listLevel + 1 <= me.pending
      BY <1>3, <1>5, <2>2, LevelsDown
    <3>2. me.cur[listLevel + 1] = HeadNode
      BY <1>3, <3>1
    <3>3. QED
      BY <2>1, <2>2, <3>2
  <2>3. CASE ~ (level > listLevel)
    BY <2>3
  <2>4. QED
    BY <2>2, <2>3
<1>8. listLevel' \in Levels /\ listLevel <= listLevel'
  <2>1. level \in 0..MaxLevel - 1 /\ MaxLevel \in Nat /\ level <= me.pending
    BY <1>3, <1>5, LevelsDown DEF Levels
  <2> HIDE DEF level
  <2>2. lev \in 0..MaxLevel - 1 /\ listLevel <= lev
    BY <1>3, <1>4, <1>5, <2>1 DEF Levels
  <2>3. QED
    BY <1>6, <2>2 DEF Levels
<1> HIDE DEF cur, lev
<1>9. /\ NewLeaf \in Leaves \ used /\ NewLeaf \in Nodes /\ NewLeaf # HeadNode
      /\ NewLeaf \in Maybe /\ NewLeaf # NoNode
      /\ NewLeaf \notin dead /\ \A l \in Levels : NewLeaf \notin Linked(l)
  BY <1>2, <1>6, NewLeafIs DEF TakePreloaded
<1>10. /\ s \in Seq(Ranges) /\ Len(s) <= Cap /\ me.key \in Nat /\ End(Arg(t)) \in Nat
  <2>1. Arg(t) \in Ranges /\ Arg(t) \in Slot
    BY <1>1, <1>2, RangesType DEF ArgInv
  <2>2. s \in Seq(Ranges) /\ Len(s) = 1
    BY <2>1
  <2>3. me.key \in Nat
    BY <1>2 DEF Locals
  <2>4. End(Arg(t)) \in Nat
    BY <2>1 DEF End, Slot
  <2>5. QED
    BY <2>2, <2>3, <2>4, CapAssumption
<1>11. OthersLocks(t) /\ lock' \in [Nodes -> Threads \cup {NoThread}]
  BY <1>2, <1>6, LockSteps
<1>12. used' = used \cup {NewLeaf} /\ height' = [height EXCEPT ![NewLeaf] = level]
  BY <1>6 DEF TakePreloaded
<1> HIDE DEF NewLeaf, s
<1>13. 0 \in -1..MaxLevel /\ cur \in [0..MaxLevel -> Maybe]
  BY <1>2, <1>7, LevelsDown DEF Locals
<1>14. /\ r \in Locals /\ r.new = NewLeaf /\ SameArg(t, r) /\ r.p = HeadNode /\ r.ins = NoNode
       /\ r.cur = me.cur /\ r.i = 0 /\ r.pending = me.pending
  BY <1>2, <1>3, <1>7, <1>9, <1>13 DEF Locals, SameArg
<1> HIDE DEF r
<1>15. th'[t] = r /\ pc'[t] = "link"
  BY <1>2, <1>6 DEF TypeInv
<1>16. \A l \in Levels : Linked(l)' = Linked(l) /\ On(l)' = On(l)
  BY <1>6, SameWalk
<1>17. LinkInv(t)'
  <2>1. HeadNode \in Nodes /\ lock'[HeadNode] = t /\ HeadNode \notin dead' /\ dead' = dead
    BY <1>2, <1>3, <1>6, NoNodeApart DEF Holds
  <2>2. CursorHeld(t)'
    <3>1. ASSUME NEW k \in 0..MaxLevel, k <= me.pending PROVE k \in Levels
      <4>1. MaxLevel \in Nat /\ k \in Nat /\ k < MaxLevel
        BY <1>5, <3>1, LevelsDown
      <4>2. QED
        BY <4>1 DEF Levels
    <3>2. \A k \in Levels : HeadNode \in On(k)'
      BY DEF On
    <3>3. QED
      BY <1>3, <1>14, <1>15, <2>1, <3>1, <3>2 DEF CursorHeld, Has, Holds
  <2>3. height'[NewLeaf] = level
    BY <1>4, <1>5, <1>9, <1>12
  <2>4. \A k \in 0..height'[NewLeaf] : Ready(t, k)'
    <3>1. SUFFICES ASSUME NEW k \in 0..level PROVE Ready(t, k)'
      BY <2>3
    <3>2. k <= me.pending /\ k \in 0..MaxLevel
      <4>1. MaxLevel \in Nat /\ level \in Nat /\ level <= me.pending
        BY <1>3, <1>5, LevelsDown
      <4> HIDE DEF level, me
      <4>2. QED
        BY <1>5, <4>1
    <3>3. me.cur[k] = HeadNode /\ HeadNode \in On(k)'
      BY <1>3, <3>2 DEF On
    <3>4. QED
      BY <1>14, <1>15, <2>1, <3>3 DEF Ready, Has, Holds
  <2>5. \A k \in Levels : NewLeaf \notin Linked(k)' /\ Linked(k)' \subseteq dead' /\ ~ (k < 0)
    <3>1. ASSUME NEW k \in Levels PROVE Linked(k) \subseteq Linked(0) /\ ~ (k < 0)
      BY <1>2, LevelsDown DEF LinksInv
    <3>2. QED
      BY <1>3, <1>9, <1>16, <2>1, <3>1 DEF NoLeaf
  <2>6. 0 \in 0..height'[NewLeaf] /\ NewLeaf \in used' /\ r.ins \in {NoNode, r.p}
    BY <1>5, <1>12, <1>14, <2>3
  <2>7. QED
    BY <1>5, <1>14, <1>15, <2>1, <2>2, <2>4, <2>5, <2>6 DEF LinkInv, Linking, Has, Holds
<1>18. QED
  BY <1>1, <1>5, <1>6, <1>8, <1>10, <1>11, <1>14, <1>17, NewLeafStep

-----------------------------------------------------------------------------
(* Linking *)

\* What a thread knows that is about to link a leaf on the next level.
LEMMA LinkingIs ==
  ASSUME SkiplistInv, NEW t \in Threads, pc[t] \in {"link", "linklock"}
  PROVE  LET me == th[t]
             b == Behind(t, me.i)
         IN  /\ TypeInv /\ TypeOK /\ me \in Locals /\ Linking(t) /\ pc[t] # "rest"
             /\ lock \in [Nodes -> Threads \cup {NoThread}]
             /\ LinkTypes /\ LinksInv /\ RankInv /\ ChainInv /\ NewInv /\ LinkInv(t)
             /\ me.i \in Levels /\ me.i \in 0..height[me.new] /\ height[me.new] \in Levels
             /\ me.new \in used \ Linked(me.i) /\ me.new \in Leaves /\ me.new \in Nodes
             /\ me.new # HeadNode
             /\ b \in On(me.i) \ dead /\ b \in Nodes /\ lock[b] = t /\ b # me.new
             /\ me.new \in dead => Linked(me.i) \subseteq dead
<1> DEFINE me == th[t]
           b == Behind(t, me.i)
<1>1. /\ TypeInv /\ TypeOK /\ me \in Locals /\ LinkTypes /\ LinksInv /\ RankInv /\ ChainInv
      /\ NewInv /\ LinkInv(t) /\ lock \in [Nodes -> Threads \cup {NoThread}]
      /\ used \subseteq Leaves /\ height \in [Leaves -> Levels]
  BY Parts DEF TypeOK, ThreadInv
<1>2. Linking(t) /\ pc[t] # "rest"
  BY DEF Linking
<1>3. /\ me.new \in used /\ me.i \in 0..height[me.new] /\ Has(t, me.p)
      /\ \A k \in me.i..height[me.new] : Ready(t, k)
      /\ me.new \notin Linked(me.i)
      /\ me.p # HeadNode => Has(t, me.new)
      /\ me.p = HeadNode => Linked(me.i) \subseteq dead
  BY <1>1, <1>2 DEF LinkInv
<1>4. me.new \in Leaves /\ height[me.new] \in Levels /\ height[me.new] \in Nat
  BY <1>1, <1>3, LevelsDown
<1>5. me.i \in Levels /\ me.i \in me.i..height[me.new]
  BY <1>3, <1>4, LevelsDown
<1>6. Ready(t, me.i)
  BY <1>3, <1>5
<1>7. b \in On(me.i) \ dead /\ b \in Nodes /\ lock[b] = t
  BY <1>3, <1>6 DEF Behind, Ready, Has, Holds, On
<1>8. me.new # HeadNode /\ me.new \in Nodes /\ b # me.new
  BY <1>3, <1>4, <1>7, NoNodeApart DEF On
<1>9. me.new \in dead => Linked(me.i) \subseteq dead
  BY <1>3 DEF Has
<1>10. QED
  BY <1>1, <1>2, <1>3, <1>4, <1>5, <1>7, <1>8, <1>9

LEMMA ArriveLink ==
  ASSUME NEW t \in Threads, pc'[t] \in {"link", "linklock", "linkback"}, LinkInv(t)'
  PROVE  ThreadInv(t)'
BY ElsewhereNext
   DEF Elsewhere, ThreadInv, MayAllocate, InsertPcs, SearchPcs, WalkPcs, VerifyPcs, PlacePcs,
       ErasePcs

\* Steps that link nothing, with the locks on the nodes that are linked behind.
LEMMA LinkMove ==
  ASSUME SkiplistInv, NEW t \in Threads, pc[t] \in {"link", "linklock"}, Private,
         OthersLocks(t), lock' \in [Nodes -> Threads \cup {NoThread}],
         \A m \in Nodes : lock[m] = t => lock'[m] = t,
         NEW nx \in Maybe, th' = [th EXCEPT ![t] = [th[t] EXCEPT !.nx = nx]],
         NEW q \in {"link", "linklock"}, pc' = [pc EXCEPT ![t] = q],
         q = "linklock" => nx \in Linked(th[t].i)
  PROVE  SkiplistInv'
<1> DEFINE me == th[t]
           r == [me EXCEPT !.nx = nx]
<1>1. /\ TypeInv /\ me \in Locals /\ Linking(t) /\ pc[t] # "rest" /\ LinkInv(t)
      /\ me.i \in Levels /\ height[me.new] \in Levels
  BY LinkingIs
<1>2. /\ r \in Locals /\ r.nx = nx /\ r.new = me.new /\ r.i = me.i /\ r.p = me.p
      /\ r.ins = me.ins /\ r.cur = me.cur /\ r.pending = me.pending /\ r.slot = me.slot
      /\ SameArg(t, r)
  BY <1>1 DEF Locals, SameArg
<1>3. th' = [th EXCEPT ![t] = r]
  OBVIOUS
<1> HIDE DEF r
<1>4. th'[t] = r /\ pc'[t] = q
  BY <1>1, <1>3 DEF TypeInv
<1>5. /\ \A l \in Levels : Linked(l)' = Linked(l) /\ On(l)' = On(l)
      /\ dead' = dead /\ used' = used /\ height' = height /\ slots' = slots
  BY SameWalk DEF Private, links, leaf
<1>6. /\ me.new \in used /\ me.i \in 0..height[me.new]
      /\ Has(t, me.p) /\ me.ins \in {NoNode, me.p} /\ CursorHeld(t)
      /\ me.p # HeadNode =>
           /\ me.p \in Linked(0)
           /\ me.slot \in 1..Cap + 1 /\ Len(slots[me.p]) = Cap
           /\ Has(t, me.new) /\ me.new # me.p /\ me.new \notin CursorNodes(t)
      /\ \A k \in me.i..height[me.new] : Ready(t, k)
      /\ \A k \in Levels :
           /\ k < me.i => me.new \in Linked(k)
           /\ k > me.i => me.new \notin Linked(k)
           /\ k > me.i /\ me.p = HeadNode => Linked(k) \subseteq dead
      /\ me.new \notin Linked(me.i)
      /\ me.p = HeadNode => Linked(me.i) \subseteq dead
  BY <1>1 DEF LinkInv
<1>7. \A m : Has(t, m) => Has(t, m)'
  BY <1>5 DEF Has, Holds
<1>8. CursorHeld(t)'
  <2>1. \A k \in 0..MaxLevel : me.cur[k] # NoNode => lock'[me.cur[k]] = t
    BY <1>6 DEF CursorHeld, Has, Holds
  <2>2. QED
    BY <1>2, <1>4, <1>6, <2>1, CursorKept DEF Private
<1>9. CursorNodes(t)' = CursorNodes(t)
  BY <1>2, <1>4 DEF CursorNodes
<1>10. ASSUME NEW k \in me.i..height[me.new] PROVE Ready(t, k)'
  <2>1. k \in Levels
    BY <1>1, LevelsDown
  <2>2. Ready(t, k)
    BY <1>6
  <2>3. QED
    BY <1>2, <1>4, <1>5, <1>7, <2>1, <2>2 DEF Ready
<1>11. 0 \in Levels /\ Has(t, me.p)' /\ (me.p # HeadNode => Has(t, me.new)')
  BY <1>6, <1>7, LevelsDown
<1>12. LinkInv(t)'
  BY <1>1, <1>2, <1>4, <1>5, <1>6, <1>8, <1>9, <1>10, <1>11 DEF LinkInv, Linking
<1>13. ThreadInv(t)'
  BY <1>4, <1>12, ArriveLink
<1>14. q \in Labels /\ q \notin {"linkback", "eraseback"} /\ pc' = [pc EXCEPT ![t] = q]
  BY DEF Labels
<1>15. Linking(t) <=> q \in {"link", "linklock"}
  BY <1>1
<1>16. QED
  BY <1>1, <1>2, <1>3, <1>13, <1>14, <1>15, PrivateStep

\* The forward pointers are set, and the new leaf is on the level.
LEMMA LinkForwardStep ==
  ASSUME SkiplistInv, NEW t \in Threads, pc[t] \in {"link", "linklock"},
         NEW nx, nx = LiveNext(Behind(t, th[t].i), th[t].i), LinkForward(t, nx),
         UNCHANGED <<dead, leaf, listLevel, used, preload, client>>,
         OthersLocks(t), lock' \in [Nodes -> Threads \cup {NoThread}],
         \A m \in Nodes : lock[m] = t => lock'[m] = t,
         nx # NoNode => lock[nx] # t /\ lock'[nx] = t
  PROVE  SkiplistInv'
<1> DEFINE me == th[t]
           i == me.i
           b == Behind(t, i)
           new == me.new
           r == [me EXCEPT !.nx = nx]
<1>1. /\ TypeInv /\ TypeOK /\ me \in Locals /\ Linking(t) /\ pc[t] # "rest"
      /\ LinkTypes /\ LinksInv /\ RankInv /\ ChainInv /\ NewInv /\ LinkInv(t)
      /\ i \in Levels /\ i \in 0..height[new] /\ height[new] \in Levels
      /\ new \in used \ Linked(i) /\ new \in Leaves /\ new \in Nodes /\ new # HeadNode
      /\ b \in On(i) \ dead /\ b \in Nodes /\ lock[b] = t /\ b # new
      /\ new \in dead => Linked(i) \subseteq dead
  BY LinkingIs
<1>2. /\ \A u \in Threads : LinkInv(u) /\ EraseInv(u) /\ ThreadInv(u) /\ ArgInv(u)
      /\ DeadInv /\ dead \subseteq Leaves
  BY Parts DEF ThreadInv
<1>3. nx \in (Linked(i) \ dead) \cup {NoNode} /\ nx \in Maybe
  <2>1. PICK N, rank : Ranks(i, N, rank)
    BY <1>1 DEF RankInv
  <2>2. nx \in (Linked(i) \ dead) \cup {NoNode}
    BY <1>1, <1>2, <2>1, LiveNextIs
  <2>3. QED
    BY <2>2, NoNodeApart DEF Linked
<1>4. LinkAt(i, b, new, nx)
  BY DEF LinkForward, LinkAt, leaf
<1>5. MayLink(i, b, new, nx)
  <2>1. \A k \in 0..i : k \in Levels
    BY <1>1, LevelsDown
  <2>2. \A k \in 0..i : k < i => new \in Linked(k)
    BY <1>1, <2>1 DEF LinkInv
  <2>3. i <= height[new]
    BY <1>1, LevelsDown
  <2>4. QED
    BY <1>1, <2>2, <2>3 DEF MayLink
<1>6. th' = [th EXCEPT ![t] = r] /\ pc' = [pc EXCEPT ![t] = "linkback"]
  BY <1>1 DEF LinkForward, Goto, TypeInv
<1>7. /\ r \in Locals /\ r.nx = nx /\ r.new = new /\ r.i = i /\ r.p = me.p
      /\ r.ins = me.ins /\ r.cur = me.cur /\ r.pending = me.pending /\ r.slot = me.slot
      /\ SameArg(t, r)
  BY <1>1, <1>3 DEF Locals, SameArg
<1> HIDE DEF r
<1>8. /\ th'[t] = r /\ pc'[t] = "linkback" /\ Others(t) /\ Linking(t)'
      /\ th' \in [Threads -> Locals] /\ pc' \in [Threads -> Labels]
  BY <1>1, <1>6, <1>7 DEF TypeInv, Others, Linking, Labels
<1>9. \A l \in Levels : Linked(l)' = IF l = i THEN Linked(l) \cup {new} ELSE Linked(l)
  BY <1>1, <1>4, <1>5, LinkLinked
<1>10. LinksInv'
  <2>1. \A u \in Threads : Linking(u) => Linking(u)' /\ th'[u].new = th[u].new
    BY <1>7, <1>8 DEF Others, Linking
  <2>2. QED
    BY <1>1, <1>4, <1>5, <2>1, LinkLinks
<1>11. RankInv'
  <2>1. \A u \in Threads \ {t} : th'[u] = th[u] /\ pc'[u] = pc[u]
    BY <1>8 DEF Others
  <2>2. th'[t].new = new /\ th'[t].nx = nx /\ th'[t].i = i
    BY <1>7, <1>8
  <2>3. QED
    BY <1>1, <1>2, <1>4, <1>5, <1>8, <2>1, <2>2, LinkRank
<1>12. ChainInv'
  BY <1>1, <1>4, <1>5, <1>10, <1>11, LinkChain
<1>13. DeadInv'
  BY <1>2 DEF DeadInv, leaf
<1>14. /\ dead' = dead /\ used' = used /\ height' = height /\ slots' = slots /\ min' = min
       /\ max' = max /\ listLevel' = listLevel /\ preload' = preload
       /\ toFill' = toFill /\ todo' = todo
  BY DEF leaf, client
<1>15. ASSUME NEW u \in Threads \ {t} PROVE Rely(u)
  <2>1. /\ th'[u] = th[u] /\ pc'[u] = pc[u] /\ \A n \in Nodes : lock[n] = u => lock'[n] = u
    BY <1>8 DEF Others, OthersLocks
  <2>2. listLevel \in Levels /\ listLevel \in Nat
    BY <1>1, LevelsDown DEF TypeOK
  <2>3. ASSUME NEW l \in Levels
        PROVE  /\ Linked(l) \subseteq Linked(l)'
               /\ Linking(u) /\ th[u].new \in Linked(l)' => th[u].new \in Linked(l)
               /\ lock[HeadNode] = u /\ Linked(l) \subseteq dead => Linked(l)' \subseteq dead'
    <3>1. Linking(u) => th[u].new # new
      BY <1>1 DEF NewInv
    <3>2. lock[HeadNode] = u /\ Linked(i) \subseteq dead => FALSE
      BY <1>1 DEF On
    <3>3. QED
      BY <1>9, <1>14, <3>1, <3>2
  <2>4. QED
    BY <1>14, <2>1, <2>2, <2>3 DEF Rely
<1>16. /\ new \in used /\ i \in 0..height[new]
       /\ Has(t, me.p) /\ me.ins \in {NoNode, me.p} /\ CursorHeld(t)
       /\ me.p # HeadNode =>
           /\ me.p \in Linked(0)
           /\ me.slot \in 1..Cap + 1 /\ Len(slots[me.p]) = Cap
           /\ Has(t, new) /\ new # me.p /\ new \notin CursorNodes(t)
       /\ \A k \in i..height[new] : Ready(t, k)
       /\ \A k \in Levels :
           /\ k < i => new \in Linked(k)
           /\ k > i => new \notin Linked(k)
           /\ k > i /\ me.p = HeadNode => Linked(k) \subseteq dead
  BY <1>1 DEF LinkInv
<1>17. \A m : Has(t, m) => Has(t, m)'
  BY <1>14 DEF Has, Holds
<1>18. \A l \in Levels : Linked(l) \subseteq Linked(l)' /\ On(l) \subseteq On(l)'
  BY <1>9 DEF On
<1>19. CursorHeld(t)' /\ CursorNodes(t)' = CursorNodes(t)
  BY <1>7, <1>8, <1>16, <1>17, <1>18 DEF CursorHeld, CursorNodes
<1>20. ASSUME NEW k \in i..height[new] PROVE Ready(t, k)'
  <2>1. k \in Levels
    BY <1>1, LevelsDown
  <2>2. Ready(t, k)
    BY <1>16
  <2>3. QED
    BY <1>7, <1>8, <1>14, <1>17, <1>18, <2>1, <2>2 DEF Ready
<1>21. LinkInv(t)'
  <2>1. ASSUME NEW k \in Levels
        PROVE  /\ k < i => new \in Linked(k)'
               /\ k > i => new \notin Linked(k)'
               /\ k > i /\ me.p = HeadNode => Linked(k)' \subseteq dead'
    <3>1. k > i => k # i
      BY <1>1, LevelsDown
    <3>2. QED
      BY <1>9, <1>14, <1>16, <3>1
  <2>2. new \in Linked(i)'
    BY <1>1, <1>7, <1>8, <1>9
  <2>3. nx # NoNode =>
          nx \in Linked(i)' /\ Holds(t, nx)' /\ nx \notin CursorNodes(t)' \cup {me.p, new}
    <3>1. nx # NoNode => nx \in Linked(i) /\ nx \in Nodes /\ nx # new
      BY <1>1, <1>3, NoNodeApart DEF Linked
    <3>2. \A m \in CursorNodes(t) \cup {me.p} : lock[m] = t
      BY <1>16 DEF CursorNodes, CursorHeld, Has, Holds
    <3>3. nx # NoNode => Holds(t, nx)'
      BY <3>1 DEF Holds
    <3>4. QED
      BY <1>1, <1>7, <1>8, <1>18, <1>19, <3>1, <3>2, <3>3
  <2>4. 0 \in Levels /\ Has(t, me.p)' /\ (me.p # HeadNode => Has(t, new)')
    BY <1>7, <1>8, <1>16, <1>17, LevelsDown
  <2>5. me.p # HeadNode => me.p \in Linked(0)'
    BY <1>16, <1>18, <2>4
  <2>6. QED
    BY <1>1, <1>7, <1>8, <1>14, <1>16, <1>19, <1>20, <2>1, <2>2, <2>3, <2>4, <2>5
       DEF LinkInv, Linking
<1>22. ThreadInv(t)' /\ ArgInv(t)'
  BY <1>1, <1>2, <1>7, <1>8, <1>21, ArriveLink DEF ArgInv, Arg, SameArg
<1>23. \/ call' = call
       \/ \E c \in RS!Resting \cup RS!Deleting : Record(t, c)
  BY OverType DEF LinkForward, Done, Quiet
<1>24. buried' \subseteq Ranges
  BY <1>1 DEF LinkForward, Done, Quiet, TypeOK
<1>25. next' \in [Nodes -> [Levels -> Maybe]] /\ prev' \in [Nodes -> [Levels -> Maybe]]
  <2>1. new \in Maybe /\ b \in Maybe
    BY <1>1, NoNodeApart
  <2>2. QED
    BY <1>1, <1>3, <1>4, <2>1 DEF LinkAt, LinkTypes
<1>26. /\ dead' \subseteq used' /\ used' \subseteq Leaves /\ height' \in [Leaves -> Levels]
       /\ slots' \in [Leaves -> Seq(Ranges)] /\ \A n \in Leaves : Len(slots'[n]) <= Cap
       /\ min' \in [Leaves -> Nat] /\ max' \in [Leaves -> Nat] /\ listLevel' \in Levels
       /\ preload' \in [Threads -> [Levels -> Levels \cup {Empty}]]
       /\ \A u \in Threads, k \in Levels : preload'[u][k] <= k
       /\ toFill' \in Seq(Named) /\ todo' = todo
  BY <1>1, <1>14 DEF TypeInv, TypeOK
<1>27. Linking(t) /\ th'[t].new = th[t].new
  BY <1>1, <1>7, <1>8
<1>28. QED
  BY <1>8, <1>10, <1>11, <1>12, <1>13, <1>15, <1>22, <1>23, <1>24, <1>25, <1>26, <1>27,
     ChangeStep

LEMMA LinkReadStep ==
  ASSUME SkiplistInv, NEW t \in Threads, LinkRead(t)
  PROVE  SkiplistInv'
<1> DEFINE nx == LiveNext(Behind(t, th[t].i), th[t].i)
<1>1. /\ pc[t] = "link" /\ UNCHANGED <<dead, lock, leaf, listLevel, used, preload, client>>
  BY DEF LinkRead
<1>2. /\ TypeInv /\ LinkTypes /\ LinksInv /\ RankInv /\ th[t].i \in Levels
      /\ Behind(t, th[t].i) \in Nodes /\ lock \in [Nodes -> Threads \cup {NoThread}]
      /\ dead \subseteq Leaves
  BY <1>1, LinkingIs, Parts
<1>3. OthersLocks(t) /\ lock' \in [Nodes -> Threads \cup {NoThread}] /\ lock' = lock
  BY <1>1, <1>2, LockSteps
<1>4. CASE nx = NoNode
  <2>1. LinkForward(t, NoNode)
    BY <1>4 DEF LinkRead
  <2>2. QED
    BY <1>1, <1>3, <1>4, <2>1, LinkForwardStep
<1>5. CASE nx # NoNode
  <2>1. nx \in Linked(th[t].i) /\ nx \in Maybe
    <3>1. PICK N, rank : Ranks(th[t].i, N, rank)
      BY <1>2 DEF RankInv
    <3>2. nx \in (Linked(th[t].i) \ dead) \cup {NoNode}
      BY <1>2, <3>1, LiveNextIs
    <3>3. QED
      BY <1>5, <3>2, NoNodeApart DEF Linked
  <2>2. /\ th' = [th EXCEPT ![t] = [th[t] EXCEPT !.nx = nx]]
        /\ pc' = [pc EXCEPT ![t] = "linklock"] /\ Private
    BY <1>1, <1>2, <1>5 DEF LinkRead, Goto, Private, TypeInv
  <2>3. \A m \in Nodes : lock[m] = t => lock'[m] = t
    BY <1>3
  <2> HIDE DEF nx
  <2>4. QED
    BY <1>1, <1>3, <2>1, <2>2, <2>3, LinkMove
<1>6. QED
  BY <1>4, <1>5

LEMMA LinkLockStep ==
  ASSUME SkiplistInv, NEW t \in Threads, LinkLock(t)
  PROVE  SkiplistInv'
<1> DEFINE me == th[t]
           nx == me.nx
<1>1. /\ pc[t] = "linklock"
      /\ UNCHANGED <<dead, leaf, listLevel, used, preload, client>>
      /\ lock[nx] = NoThread
  BY DEF LinkLock, Acquire, AcquireRelease
<1>2. /\ TypeInv /\ me \in Locals /\ LinkInv(t) /\ Linking(t)
      /\ lock \in [Nodes -> Threads \cup {NoThread}]
      /\ nx \in Linked(me.i) /\ nx \in Nodes /\ nx \in Maybe /\ nx # NoNode
  <2>1. TypeInv /\ me \in Locals /\ LinkInv(t) /\ Linking(t)
        /\ lock \in [Nodes -> Threads \cup {NoThread}]
    BY <1>1, LinkingIs
  <2>2. nx \in Linked(me.i)
    BY <1>1, <2>1 DEF LinkInv
  <2>3. QED
    BY <2>1, <2>2, NoNodeApart DEF Linked
<1>3. t # NoThread
  BY SkiplistAssumption
<1>4. CASE LiveNext(Behind(t, me.i), me.i) = nx /\ Acquire(t, nx) /\ LinkForward(t, nx)
  <2>1. /\ OthersLocks(t) /\ lock' \in [Nodes -> Threads \cup {NoThread}]
        /\ \A m \in Nodes : lock'[m] = IF m = nx THEN t ELSE lock[m]
    BY <1>2, <1>4, LockSteps
  <2>2. lock[nx] # t /\ lock'[nx] = t /\ \A m \in Nodes : lock[m] = t => lock'[m] = t
    BY <1>1, <1>2, <1>3, <2>1
  <2>3. nx = LiveNext(Behind(t, th[t].i), th[t].i)
    BY <1>4
  <2> HIDE DEF nx
  <2>4. QED
    BY <1>1, <1>4, <2>1, <2>2, <2>3, LinkForwardStep
<1>5. CASE AcquireRelease(t, nx, {nx}) /\ Goto(t, "link") /\ Quiet /\ UNCHANGED <<th, links>>
  <2>1. /\ OthersLocks(t) /\ lock' \in [Nodes -> Threads \cup {NoThread}]
        /\ \A m \in Nodes : lock'[m] = IF m = nx THEN NoThread ELSE lock[m]
    BY <1>2, <1>5, LockSteps
  <2>2. \A m \in Nodes : lock[m] = t => lock'[m] = t
    BY <1>1, <1>3, <2>1
  <2>3. th' = [th EXCEPT ![t] = [th[t] EXCEPT !.nx = nx]]
    <3>1. [me EXCEPT !.nx = me.nx] = me
      BY <1>2 DEF Locals
    <3>2. th' = th /\ th = [th EXCEPT ![t] = th[t]]
      BY <1>2, <1>5 DEF TypeInv
    <3>3. QED
      BY <3>1, <3>2
  <2>4. pc' = [pc EXCEPT ![t] = "link"] /\ Private
    BY <1>1, <1>5 DEF Goto, Private
  <2> HIDE DEF nx
  <2>5. QED
    BY <1>1, <1>2, <2>1, <2>2, <2>3, <2>4, LinkMove
<1>6. QED
  BY <1>4, <1>5 DEF LinkLock

LEMMA LinkBackStep ==
  ASSUME SkiplistInv, NEW t \in Threads, LinkBack(t)
  PROVE  SkiplistInv'
<1> DEFINE me == th[t]
           i == me.i
           new == me.new
           nx == me.nx
           p == me.p
           n == IF nx = NoNode THEN HeadNode ELSE nx
           top == height[new]
<1>1. /\ pc[t] = "linkback" /\ pc[t] # "rest" /\ Linking(t)
      /\ prev' = [prev EXCEPT ![n][i] = new]
      /\ Quiet /\ UNCHANGED <<next, dead, leaf, listLevel, used, preload>>
  BY DEF LinkBack, Linking
<1>2. /\ TypeInv /\ TypeOK /\ me \in Locals /\ LinkTypes /\ LinksInv /\ RankInv /\ ChainInv
      /\ LinkInv(t) /\ DeadInv /\ ArgInv(t)
      /\ lock \in [Nodes -> Threads \cup {NoThread}]
      /\ used \subseteq Leaves /\ dead \subseteq Leaves /\ height \in [Leaves -> Levels]
      /\ listLevel \in Levels
  BY Parts DEF TypeOK, ThreadInv
<1>3. /\ new \in used /\ i \in 0..top
      /\ Has(t, p) /\ me.ins \in {NoNode, p} /\ CursorHeld(t)
      /\ p # HeadNode =>
           /\ p \in Linked(0)
           /\ me.slot \in 1..Cap + 1 /\ Len(slots[p]) = Cap
           /\ Has(t, new) /\ new # p /\ new \notin CursorNodes(t)
      /\ \A k \in i..top : Ready(t, k)
      /\ \A k \in Levels :
           /\ k < i => new \in Linked(k)
           /\ k > i => new \notin Linked(k)
           /\ k > i /\ p = HeadNode => Linked(k) \subseteq dead
      /\ new \in Linked(i)
      /\ nx # NoNode =>
           nx \in Linked(i) /\ Holds(t, nx) /\ nx \notin CursorNodes(t) \cup {p, new}
  BY <1>1, <1>2 DEF LinkInv
<1>4. /\ top \in Levels /\ top \in Nat /\ i \in Levels /\ i \in Nat /\ i <= top
      /\ new \in Leaves /\ new \in Nodes /\ top < MaxLevel /\ MaxLevel \in Nat
  <2>1. new \in Leaves /\ top \in Levels
    BY <1>2, <1>3
  <2>2. QED
    BY <1>3, <2>1, LevelsDown, NoNodeApart
<1>5. \A m \in Nodes : m \in {nx} \cup Held(t) \cup (IF p # HeadNode THEN {new} ELSE {}) =>
        lock[m] = t
  <2>1. \A m \in CursorNodes(t) : lock[m] = t
    BY <1>3 DEF CursorNodes, CursorHeld, Has, Holds
  <2>2. \A m \in Nodes : m \in {me.ins} => lock[m] = t
    BY <1>3, NoNodeApart DEF Has, Holds
  <2>3. QED
    BY <1>3, <2>1, <2>2, NoNodeApart DEF Held, Has, Holds
<1> HIDE DEF top
<1>6. /\ dead' = dead /\ used' = used /\ height' = height /\ slots' = slots /\ min' = min
      /\ max' = max /\ listLevel' = listLevel /\ preload' = preload /\ next' = next
      /\ call' = call /\ buried' = buried
  BY <1>1 DEF leaf, Quiet
<1>7. ASSUME Others(t), OthersLocks(t), Linking(t)' \/ i = top,
             pc'[t] \notin {"linkback", "eraseback"},
             Linking(t)' => th'[t].new = new,
             th' \in [Threads -> Locals], pc' \in [Threads -> Labels],
             lock' \in [Nodes -> Threads \cup {NoThread}],
             toFill' \in Seq(Named), todo' = todo,
             (\A l \in Levels : Linked(l)' = Linked(l)) => ThreadInv(t)' /\ ArgInv(t)'
      PROVE  SkiplistInv'
  <2>1. Settled(t)
    <3>1. i = top => \A l \in 0..top : new \in Linked(l)
      <4>1. \A l \in 0..top : l \in Levels /\ l \in Nat /\ (l < top \/ l = top)
        BY <1>4, LevelsDown
      <4>2. QED
        BY <1>3, <4>1
    <3>2. QED
      BY <1>6, <1>7, <3>1 DEF Settled, top
  <2>2. \/ n = HeadNode /\ new \in Linked(i) \cup {NoNode}
        \/ /\ n \in Linked(i) /\ new \in On(i)
           /\ \A N, rank : Ranks(i, N, rank) => rank[new] < rank[n]
    BY <1>1, <1>3 DEF Ranks, On
  <2>3. LinksInv' /\ RankInv' /\ ChainInv' /\ \A l \in Levels : Linked(l)' = Linked(l)
    <3> HIDE DEF n, i, new
    <3>1. QED
      BY <1>1, <1>2, <1>4, <1>6, <2>1, <2>2, BackKept
  <2>4. DeadInv'
    BY <1>2, <1>6 DEF DeadInv
  <2>5. ASSUME NEW u \in Threads \ {t} PROVE Rely(u)
    <3>1. /\ preload'[u] = preload[u] /\ listLevel' \in Levels /\ listLevel <= listLevel'
          /\ used \subseteq used' /\ \A m \in used : height'[m] = height[m]
          /\ dead \subseteq dead' /\ dead' \subseteq dead \cup {NoNode} /\ dead' = dead
          /\ HeadNode # NoNode /\ NoNode \notin used
          /\ \A m \in used : slots'[m] = slots[m] /\ min'[m] = min[m] /\ max'[m] = max[m]
      BY <1>2, <1>6, LevelsDown, NoNodeApart
    <3>2. QED
      BY <1>2, <1>7, <2>3, <3>1, RelyKept
  <2>6. /\ next' \in [Nodes -> [Levels -> Maybe]] /\ prev' \in [Nodes -> [Levels -> Maybe]]
        /\ dead' \subseteq used' /\ used' \subseteq Leaves /\ height' \in [Leaves -> Levels]
        /\ slots' \in [Leaves -> Seq(Ranges)] /\ \A m \in Leaves : Len(slots'[m]) <= Cap
        /\ min' \in [Leaves -> Nat] /\ max' \in [Leaves -> Nat] /\ listLevel' \in Levels
        /\ preload' \in [Threads -> [Levels -> Levels \cup {Empty}]]
        /\ \A u \in Threads, k \in Levels : preload'[u][k] <= k
        /\ buried' \subseteq Ranges
    <3>1. new \in Maybe /\ prev \in [Nodes -> [Levels -> Maybe]]
      BY <1>2, <1>4, NoNodeApart DEF TypeOK
    <3>2. prev' \in [Nodes -> [Levels -> Maybe]]
      BY <1>1, <3>1
    <3>3. QED
      BY <1>2, <1>6, <3>2 DEF TypeInv, TypeOK
  <2>7. Linking(t)' => Linking(t) /\ th'[t].new = th[t].new
    BY <1>1, <1>7
  <2>8. ThreadInv(t)' /\ ArgInv(t)'
    BY <1>7, <2>3
  <2>9. QED
    BY <1>6, <1>7, <2>3, <2>4, <2>5, <2>6, <2>7, <2>8, ChangeStep
<1>8. ASSUME Release({nx}), NEW j \in Levels, j \in 0..top, NEW q \in {"link", "shrink"},
             th' = [th EXCEPT ![t] = [me EXCEPT !.i = j, !.nx = NoNode]],
             pc' = [pc EXCEPT ![t] = q], UNCHANGED client,
             q = "link" => j = i + 1,
             q = "shrink" => i = top /\ p # HeadNode /\ me.slot <= Cap
      PROVE  SkiplistInv'
  <2> DEFINE r == [me EXCEPT !.i = j, !.nx = NoNode]
  <2>1. NoNode \in Maybe /\ j \in -1..MaxLevel
    BY <1>4, <1>8, LevelsDown, NoNodeApart
  <2>2. /\ r \in Locals /\ r.i = j /\ r.new = new /\ r.p = p /\ r.ins = me.ins
        /\ r.cur = me.cur /\ r.pending = me.pending /\ r.slot = me.slot
        /\ SameArg(t, r)
    BY <1>2, <2>1 DEF Locals, SameArg
  <2>3. th' = [th EXCEPT ![t] = r]
    BY <1>8
  <2> HIDE DEF r
  <2>4. /\ th'[t] = r /\ pc'[t] = q /\ Others(t)
        /\ th' \in [Threads -> Locals] /\ pc' \in [Threads -> Labels]
    BY <1>2, <1>8, <2>2, <2>3 DEF TypeInv, Others, Labels
  <2>5. /\ OthersLocks(t) /\ lock' \in [Nodes -> Threads \cup {NoThread}]
        /\ \A m \in Nodes : lock'[m] = IF m = nx THEN NoThread ELSE lock[m]
    BY <1>2, <1>5, <1>8, LockSteps
  <2>6. ASSUME \A l \in Levels : Linked(l)' = Linked(l)
        PROVE  ThreadInv(t)' /\ ArgInv(t)'
    <3>1. \A l \in Levels : On(l)' = On(l)
      BY <2>6 DEF On
    <3>2. \A m : Has(t, m) /\ m # nx => Has(t, m)'
      BY <1>6, <2>5 DEF Has, Holds
    <3>3. /\ p # nx /\ new # nx
          /\ \A k \in 0..MaxLevel : me.cur[k] # NoNode => me.cur[k] # nx
      BY <1>3, <1>4, NoNodeApart DEF CursorNodes, Has, Holds
    <3>4. CursorHeld(t)' /\ CursorNodes(t)' = CursorNodes(t)
      BY <1>3, <2>2, <2>4, <3>1, <3>2, <3>3 DEF CursorHeld, CursorNodes
    <3>5. ASSUME NEW k \in j..top, q = "link" PROVE Ready(t, k)'
      <4>1. k \in Levels /\ k \in i..top /\ k \in 0..MaxLevel
        BY <1>4, <1>8, <3>5, LevelsDown DEF Levels
      <4>2. Ready(t, k)
        BY <1>3, <4>1
      <4>3. CASE p # HeadNode /\ k <= height[p]
        BY <1>6, <2>2, <2>4, <2>6, <4>1, <4>2, <4>3 DEF Ready
      <4>4. CASE ~ (p # HeadNode /\ k <= height[p])
        <5>1. Has(t, me.cur[k]) /\ me.cur[k] \in On(k)
          BY <4>2, <4>4 DEF Ready
        <5>2. me.cur[k] # nx /\ me.cur[k] \in On(k)'
          BY <3>1, <3>3, <4>1, <5>1, NoNodeApart DEF Has, Holds
        <5>3. QED
          BY <1>6, <2>2, <2>4, <3>1, <3>2, <4>1, <4>4, <5>1, <5>2 DEF Ready
      <4>5. QED
        BY <4>3, <4>4
    <3>6. ASSUME NEW k \in Levels, q = "link"
          PROVE  /\ k < j => new \in Linked(k)
                 /\ k >= j => new \notin Linked(k)
                 /\ k >= j /\ p = HeadNode => Linked(k) \subseteq dead
      <4>1. k \in Nat /\ i \in Nat /\ j = i + 1
        BY <1>4, <1>8, <3>6, LevelsDown
      <4>2. (k < j => k < i \/ k = i) /\ (k >= j => k > i)
        BY <4>1
      <4>3. QED
        BY <1>3, <4>2
    <3>7. Has(t, p)' /\ (p # HeadNode => Has(t, new)') /\ 0 \in Levels
      BY <1>3, <2>2, <2>4, <3>2, <3>3, LevelsDown
    <3>8. LinkInv(t)'
      <4>1. CASE q = "link"
        BY <1>3, <1>6, <1>8, <2>2, <2>4, <2>6, <3>4, <3>5, <3>6, <3>7, <4>1, LevelsDown
           DEF LinkInv, Linking, top
      <4>2. CASE q = "shrink"
        BY <1>3, <1>6, <1>8, <2>2, <2>4, <2>6, <3>4, <3>7, <4>2 DEF LinkInv, Linking, top
      <4>3. QED
        BY <4>1, <4>2
    <3>9. ThreadInv(t)'
      BY <2>4, <3>8, ElsewhereNext
         DEF Elsewhere, ThreadInv, MayAllocate, InsertPcs, SearchPcs, WalkPcs, VerifyPcs,
             PlacePcs, ErasePcs
    <3>10. ArgInv(t)'
      BY <1>1, <1>2, <2>2, <2>4 DEF ArgInv, Arg, SameArg
    <3>11. QED
      BY <3>9, <3>10
  <2>7. Linking(t)' \/ i = top
    BY <1>8, <2>4 DEF Linking
  <2>8. toFill' \in Seq(Named) /\ todo' = todo /\ pc'[t] \notin {"linkback", "eraseback"}
    BY <1>2, <1>8, <2>4 DEF client, TypeInv
  <2>9. th'[t].new = new
    BY <2>2, <2>4
  <2>10. QED
    BY <1>7, <2>4, <2>5, <2>6, <2>7, <2>8, <2>9
<1>9. CASE i < top
  <2>1. /\ Release({nx}) /\ UNCHANGED client
        /\ th' = [th EXCEPT ![t] = [me EXCEPT !.i = i + 1, !.nx = NoNode]]
        /\ pc' = [pc EXCEPT ![t] = "link"]
    BY <1>2, <1>9 DEF LinkBack, Goto, TypeInv, top
  <2>2. i + 1 \in Levels /\ i + 1 \in 0..top
    BY <1>4, <1>9 DEF Levels
  <2>3. QED
    BY <1>8, <2>1, <2>2
<1>10. CASE i = top /\ p # HeadNode /\ ~ (me.slot > Len(slots[p]))
  <2>1. ~ (i < top)
    BY <1>4, <1>10
  <2>2. /\ Release({nx}) /\ UNCHANGED client
        /\ th' = [th EXCEPT ![t].nx = NoNode] /\ pc' = [pc EXCEPT ![t] = "shrink"]
    BY <1>10, <2>1 DEF LinkBack, Goto, top
  <2>3. th' = [th EXCEPT ![t] = [me EXCEPT !.i = i, !.nx = NoNode]]
    <3>1. [me EXCEPT !.i = i, !.nx = NoNode] = [me EXCEPT !.nx = NoNode]
      BY <1>2 DEF Locals
    <3>2. QED
      BY <1>2, <2>2, <3>1 DEF TypeInv
  <2>4. me.slot <= Cap
    BY <1>3, <1>10, CapAssumption
  <2>5. QED
    BY <1>3, <1>4, <1>8, <1>10, <2>2, <2>3, <2>4
<1>11. CASE i = top /\ (p = HeadNode \/ me.slot > Len(slots[p]))
  <2> DEFINE R == {nx} \cup Held(t) \cup (IF p # HeadNode THEN {new} ELSE {})
  <2>1. ~ (i < top)
    BY <1>4, <1>11
  <2>2. Return(t, R)
    BY <1>11, <2>1 DEF LinkBack, top
  <2>3. \A m \in R \cap Nodes : lock[m] = t
    BY <1>5
  <2>4. /\ th'[t] = Resting /\ pc'[t] = "rest" /\ Others(t) /\ OthersLocks(t)
        /\ th' \in [Threads -> Locals] /\ pc' \in [Threads -> Labels]
        /\ lock' \in [Nodes -> Threads \cup {NoThread}]
        /\ toFill' \in Seq(Named) /\ todo' = todo
        /\ ~ Linking(t)' /\ ThreadInv(t)' /\ ArgInv(t)'
    BY <1>2, <2>2, <2>3, ReturnType
  <2>5. QED
    BY <1>7, <1>11, <2>4
<1>12. QED
  BY <1>4, <1>9, <1>10, <1>11

-----------------------------------------------------------------------------
(* Unlinking *)

\* Steps that unlink nothing, with the locks or without.
LEMMA EraseMove ==
  ASSUME SkiplistInv, NEW t \in Threads, pc[t] \in {"erasegrab", "erasenext"}, Private,
         OthersLocks(t), lock' \in [Nodes -> Threads \cup {NoThread}],
         NEW nx \in Maybe, th' = [th EXCEPT ![t] = [th[t] EXCEPT !.nx = nx]],
         NEW q \in {"erase", "erasegrab", "erasenext"}, pc' = [pc EXCEPT ![t] = q],
         q # "erase" => \A m \in Nodes : lock[m] = t => lock'[m] = t,
         q = "erasenext" => nx \in Linked(th[t].i)
  PROVE  SkiplistInv'
<1> DEFINE me == th[t]
           r == [me EXCEPT !.nx = nx]
<1>1. /\ TypeInv /\ me \in Locals /\ ~ Linking(t) /\ pc[t] # "rest" /\ EraseInv(t)
      /\ me.leaf \in Linked(0) \cap dead /\ me.i \in 0..height[me.leaf] /\ me.i \in Levels
  BY Erasing DEF ErasePcs
<1>2. /\ r \in Locals /\ r.nx = nx /\ r.leaf = me.leaf /\ r.i = me.i /\ r.pr = me.pr
      /\ SameArg(t, r)
  BY <1>1 DEF Locals, SameArg
<1>3. th' = [th EXCEPT ![t] = r]
  OBVIOUS
<1> HIDE DEF r
<1>4. th'[t] = r /\ pc'[t] = q
  BY <1>1, <1>3 DEF TypeInv
<1>5. /\ \A l \in Levels : Linked(l)' = Linked(l) /\ On(l)' = On(l)
      /\ dead' = dead /\ height' = height
  BY SameWalk DEF Private, links, leaf
<1>6. me.pr \in On(me.i) /\ Has(t, me.pr) /\ Holds(t, me.leaf)
  BY <1>1 DEF EraseInv, ErasePcs
<1>7. q # "erase" => Has(t, me.pr)' /\ Holds(t, me.pr)' /\ Holds(t, me.leaf)'
  BY <1>2, <1>4, <1>5, <1>6 DEF Has, Holds
<1>8. EraseInv(t)'
  BY <1>1, <1>2, <1>4, <1>5, <1>6, <1>7, LevelsDown DEF EraseInv, ErasePcs
<1>9. ThreadInv(t)'
  BY <1>4, <1>8, ArriveErase DEF ErasePcs
<1>10. /\ q \in Labels /\ q \notin {"linkback", "eraseback"} /\ pc' = [pc EXCEPT ![t] = q]
       /\ (Linking(t) <=> q \in {"link", "linklock"})
  BY <1>1 DEF Labels, ErasePcs
<1>11. QED
  BY <1>1, <1>2, <1>3, <1>9, <1>10, PrivateStep

\* The node before the dead leaf gets past it.
LEMMA BypassStep ==
  ASSUME SkiplistInv, NEW t \in Threads, pc[t] \in {"erasegrab", "erasenext"},
         NEW nx, nx = LiveNext(th[t].pr, th[t].i), Bypass(t, nx),
         UNCHANGED <<prev, dead, leaf, listLevel, used, preload, client>>, Quiet,
         OthersLocks(t), lock' \in [Nodes -> Threads \cup {NoThread}],
         \A m \in Nodes : lock[m] = t => lock'[m] = t,
         nx # NoNode => lock'[nx] = t
  PROVE  SkiplistInv'
<1> DEFINE me == th[t]
           i == me.i
           pr == me.pr
           r == [me EXCEPT !.nx = nx]
<1>1. /\ TypeInv /\ TypeOK /\ me \in Locals /\ ~ Linking(t) /\ pc[t] # "rest" /\ EraseInv(t)
      /\ LinksInv /\ RankInv /\ dead \subseteq Leaves
      /\ me.leaf \in Linked(0) \cap dead /\ i \in 0..height[me.leaf] /\ i \in Levels
  BY Erasing DEF ErasePcs
<1>2. pr \in On(i) /\ Has(t, pr) /\ Holds(t, me.leaf) /\ pr \in On(i) \ dead /\ pr \in Nodes
  BY <1>1 DEF EraseInv, ErasePcs, Has, Holds
<1>3. LinkTypes /\ ChainInv /\ DeadInv /\ ArgInv(t)
  BY Parts
<1>4. nx \in (Linked(i) \ dead) \cup {NoNode} /\ nx \in Maybe
  <2>1. PICK N, rank : Ranks(i, N, rank)
    BY <1>1 DEF RankInv
  <2>2. nx \in (Linked(i) \ dead) \cup {NoNode}
    BY <1>1, <1>2, <2>1, LiveNextIs
  <2>3. QED
    BY <2>2, NoNodeApart DEF Linked
<1>5. /\ next' = [next EXCEPT ![pr][i] = nx]
      /\ th' = [th EXCEPT ![t] = r] /\ pc' = [pc EXCEPT ![t] = "eraseback"]
  BY <1>1 DEF Bypass, Goto, TypeInv
<1>6. /\ r \in Locals /\ r.nx = nx /\ r.leaf = me.leaf /\ r.i = i /\ r.pr = pr
      /\ SameArg(t, r)
  BY <1>1, <1>4 DEF Locals, SameArg
<1> HIDE DEF r
<1>7. /\ th'[t] = r /\ pc'[t] = "eraseback" /\ Others(t) /\ ~ Linking(t)'
      /\ th' \in [Threads -> Locals] /\ pc' \in [Threads -> Labels]
  BY <1>1, <1>5, <1>6 DEF TypeInv, Others, Linking, Labels, ErasePcs
<1>8. /\ dead' = dead /\ used' = used /\ height' = height /\ slots' = slots /\ min' = min
      /\ max' = max /\ listLevel' = listLevel /\ preload' = preload /\ prev' = prev
      /\ toFill' = toFill /\ todo' = todo /\ call' = call /\ buried' = buried
  BY DEF leaf, client, Quiet
<1>9. LinksInv' /\ RankInv' /\ ChainInv' /\ \A l \in Levels : Linked(l)' = Linked(l)
  <2>1. th'[t].i = i /\ th'[t].pr = pr /\ th'[t].nx = nx /\ pc'[t] = "eraseback"
    BY <1>6, <1>7
  <2>2. UNCHANGED <<prev, dead, used, height>> /\ nx = LiveNext(pr, i)
    BY <1>8
  <2> HIDE DEF i, pr
  <2>3. QED
    BY <1>1, <1>2, <1>3, <1>5, <1>7, <2>1, <2>2, BypassKept
<1>10. DeadInv'
  BY <1>3, <1>8 DEF DeadInv
<1>11. ASSUME NEW u \in Threads \ {t} PROVE Rely(u)
  <2>1. /\ preload'[u] = preload[u] /\ listLevel' \in Levels /\ listLevel <= listLevel'
        /\ used \subseteq used' /\ \A m \in used : height'[m] = height[m]
        /\ dead \subseteq dead' /\ dead' \subseteq dead \cup {NoNode} /\ dead' = dead
        /\ HeadNode # NoNode /\ NoNode \notin used /\ used \subseteq Leaves
        /\ \A m \in used : slots'[m] = slots[m] /\ min'[m] = min[m] /\ max'[m] = max[m]
    BY <1>1, <1>8, LevelsDown, NoNodeApart DEF TypeOK
  <2>2. QED
    BY <1>7, <1>9, <2>1, RelyKept
<1>12. EraseInv(t)'
  <2>1. nx # NoNode => nx \in Nodes /\ nx \in Linked(i) /\ lock'[nx] = t
    BY <1>4, NoNodeApart DEF Linked
  <2>2. \A l \in Levels : On(l)' = On(l)
    BY <1>9 DEF On
  <2>3. Has(t, me.pr)' /\ Holds(t, me.pr)' /\ Holds(t, me.leaf)'
    BY <1>2, <1>6, <1>7, <1>8 DEF Has, Holds
  <2>4. QED
    BY <1>1, <1>2, <1>6, <1>7, <1>8, <1>9, <2>1, <2>2, <2>3, LevelsDown
       DEF EraseInv, ErasePcs, Holds
<1>13. ThreadInv(t)' /\ ArgInv(t)'
  BY <1>1, <1>3, <1>6, <1>7, <1>12, ArriveErase DEF ErasePcs, ArgInv, Arg, SameArg
<1>14. /\ next' \in [Nodes -> [Levels -> Maybe]] /\ prev' \in [Nodes -> [Levels -> Maybe]]
       /\ dead' \subseteq used' /\ used' \subseteq Leaves /\ height' \in [Leaves -> Levels]
       /\ slots' \in [Leaves -> Seq(Ranges)] /\ \A n \in Leaves : Len(slots'[n]) <= Cap
       /\ min' \in [Leaves -> Nat] /\ max' \in [Leaves -> Nat] /\ listLevel' \in Levels
       /\ preload' \in [Threads -> [Levels -> Levels \cup {Empty}]]
       /\ \A u \in Threads, k \in Levels : preload'[u][k] <= k
       /\ toFill' \in Seq(Named) /\ todo' = todo /\ buried' \subseteq Ranges
  BY <1>1, <1>4, <1>5, <1>8 DEF TypeInv, TypeOK
<1>15. QED
  BY <1>7, <1>8, <1>9, <1>10, <1>11, <1>13, <1>14, ChangeStep

LEMMA EraseGrabStep ==
  ASSUME SkiplistInv, NEW t \in Threads, EraseGrab(t)
  PROVE  SkiplistInv'
<1> DEFINE me == th[t]
           nx == LiveNext(me.pr, me.i)
<1>1. /\ pc[t] = "erasegrab"
      /\ UNCHANGED <<prev, dead, lock, leaf, listLevel, used, preload, client>> /\ Quiet
  BY DEF EraseGrab
<1>2. /\ TypeInv /\ LinksInv /\ RankInv /\ dead \subseteq Leaves /\ EraseInv(t)
      /\ me.i \in Levels /\ lock \in [Nodes -> Threads \cup {NoThread}]
  BY <1>1, Erasing DEF ErasePcs
<1>3. me.pr \in Nodes
  BY <1>1, <1>2 DEF EraseInv, ErasePcs, Holds
<1>4. /\ OthersLocks(t) /\ lock' \in [Nodes -> Threads \cup {NoThread}]
      /\ \A m \in Nodes : lock[m] = t => lock'[m] = t
  BY <1>1, <1>2, LockSteps
<1>5. CASE nx = NoNode
  <2>1. Bypass(t, NoNode)
    BY <1>5 DEF EraseGrab
  <2>2. QED
    BY <1>1, <1>4, <1>5, <2>1, BypassStep
<1>6. CASE nx # NoNode
  <2>1. nx \in Linked(me.i) /\ nx \in Maybe
    <3>1. PICK N, rank : Ranks(me.i, N, rank)
      BY <1>2 DEF RankInv
    <3>2. nx \in (Linked(me.i) \ dead) \cup {NoNode}
      BY <1>2, <1>3, <3>1, LiveNextIs
    <3>3. QED
      BY <1>6, <3>2, NoNodeApart DEF Linked
  <2>2. /\ th' = [th EXCEPT ![t] = [th[t] EXCEPT !.nx = nx]]
        /\ pc' = [pc EXCEPT ![t] = "erasenext"] /\ Private
    BY <1>1, <1>2, <1>6 DEF EraseGrab, Goto, Private, TypeInv, links
  <2> HIDE DEF nx
  <2>3. QED
    BY <1>1, <1>4, <2>1, <2>2, EraseMove
<1>7. QED
  BY <1>5, <1>6

LEMMA EraseNextStep ==
  ASSUME SkiplistInv, NEW t \in Threads, EraseNext(t)
  PROVE  SkiplistInv'
<1> DEFINE me == th[t]
           nx == me.nx
           L == LiveNext(me.pr, me.i)
<1>1. /\ pc[t] = "erasenext" /\ lock[nx] = NoThread
      /\ UNCHANGED <<prev, dead, leaf, listLevel, used, preload, client>> /\ Quiet
  BY DEF EraseNext, Acquire, AcquireRelease
<1>2. /\ TypeInv /\ me \in Locals /\ EraseInv(t) /\ me.i \in Levels
      /\ lock \in [Nodes -> Threads \cup {NoThread}]
  BY <1>1, Erasing DEF ErasePcs
<1>3. /\ Has(t, me.pr) /\ Holds(t, me.leaf) /\ nx \in Linked(me.i)
      /\ nx \in Nodes /\ nx \in Maybe
  BY <1>1, <1>2, NoNodeApart DEF EraseInv, ErasePcs, Linked
<1>4. t # NoThread
  BY SkiplistAssumption
<1>5. th = [th EXCEPT ![t] = [th[t] EXCEPT !.nx = nx]]
  <2>1. [me EXCEPT !.nx = me.nx] = me
    BY <1>2 DEF Locals
  <2>2. th = [th EXCEPT ![t] = th[t]]
    BY <1>2 DEF TypeInv
  <2>3. QED
    BY <2>1, <2>2
<1>6. CASE L = nx /\ Acquire(t, nx) /\ Bypass(t, nx)
  <2>1. /\ OthersLocks(t) /\ lock' \in [Nodes -> Threads \cup {NoThread}]
        /\ \A m \in Nodes : lock'[m] = IF m = nx THEN t ELSE lock[m]
    BY <1>2, <1>3, <1>6, LockSteps
  <2>2. lock'[nx] = t /\ (\A m \in Nodes : lock[m] = t => lock'[m] = t)
    BY <1>3, <2>1
  <2>3. nx = LiveNext(th[t].pr, th[t].i)
    BY <1>6
  <2> HIDE DEF nx
  <2>4. QED
    BY <1>1, <1>6, <2>1, <2>2, <2>3, BypassStep
<1>7. CASE UNCHANGED <<next, th>> /\ AcquireRelease(t, nx, {nx}) /\ Goto(t, "erasegrab")
  <2>1. /\ OthersLocks(t) /\ lock' \in [Nodes -> Threads \cup {NoThread}]
        /\ \A m \in Nodes : lock'[m] = IF m = nx THEN NoThread ELSE lock[m]
    BY <1>2, <1>3, <1>7, LockSteps
  <2>2. \A m \in Nodes : lock[m] = t => lock'[m] = t
    BY <1>1, <1>4, <2>1
  <2>3. /\ th' = [th EXCEPT ![t] = [th[t] EXCEPT !.nx = nx]]
        /\ pc' = [pc EXCEPT ![t] = "erasegrab"] /\ Private
    BY <1>1, <1>5, <1>7 DEF Goto, Private, links
  <2> HIDE DEF nx
  <2>4. QED
    BY <1>1, <1>3, <2>1, <2>2, <2>3, EraseMove
<1>8. CASE /\ UNCHANGED <<next, th>> /\ AcquireRelease(t, nx, {me.pr, me.leaf, nx})
           /\ Goto(t, "erase")
  <2>1. OthersLocks(t) /\ lock' \in [Nodes -> Threads \cup {NoThread}]
    <3>1. \A m \in {me.pr, me.leaf, nx} \cap Nodes : lock[m] = t \/ m = nx
      BY <1>3 DEF Has, Holds
    <3>2. QED
      BY <1>2, <1>3, <1>8, <3>1, LockSteps
  <2>2. /\ th' = [th EXCEPT ![t] = [th[t] EXCEPT !.nx = nx]]
        /\ pc' = [pc EXCEPT ![t] = "erase"] /\ Private
    BY <1>1, <1>5, <1>8 DEF Goto, Private, links
  <2> HIDE DEF nx
  <2>3. QED
    BY <1>1, <1>3, <2>1, <2>2, EraseMove
<1>9. QED
  BY <1>6, <1>7, <1>8 DEF EraseNext

LEMMA EraseBackStep ==
  ASSUME SkiplistInv, NEW t \in Threads, EraseBack(t)
  PROVE  SkiplistInv'
<1> DEFINE me == th[t]
           i == me.i
           pr == me.pr
           nx == me.nx
           back == IF nx = NoNode /\ pr = HeadNode THEN NoNode ELSE pr
           n == IF nx = NoNode THEN HeadNode ELSE nx
           R == {pr, me.leaf, nx}
<1>1. /\ pc[t] = "eraseback" /\ prev' = [prev EXCEPT ![n][i] = back]
      /\ UNCHANGED <<next, dead, leaf, listLevel, used, preload>>
  BY DEF EraseBack
<1>2. /\ TypeInv /\ TypeOK /\ me \in Locals /\ ~ Linking(t) /\ pc[t] # "rest" /\ EraseInv(t)
      /\ LinksInv /\ RankInv /\ lock \in [Nodes -> Threads \cup {NoThread}]
      /\ me.leaf \in Linked(0) \cap dead /\ i \in 0..height[me.leaf] /\ i \in Levels
      /\ me.leaf \in Leaves
  BY <1>1, Erasing DEF ErasePcs
<1>3. LinkTypes /\ ChainInv /\ DeadInv /\ ArgInv(t) /\ dead \subseteq Leaves
  BY Parts
<1>4. /\ pr \in On(i) /\ Has(t, pr) /\ Holds(t, me.leaf) /\ pr \in Nodes
      /\ nx # NoNode => nx \in Linked(i) /\ Holds(t, nx)
  BY <1>1, <1>2 DEF EraseInv, ErasePcs, Has, Holds
<1>5. \A m \in R \cap Nodes : lock[m] = t
  BY <1>4, NoNodeApart DEF Has, Holds
<1>6. /\ dead' = dead /\ used' = used /\ height' = height /\ slots' = slots /\ min' = min
      /\ max' = max /\ listLevel' = listLevel /\ preload' = preload /\ next' = next
  BY <1>1 DEF leaf
<1>7. ASSUME Others(t), OthersLocks(t), pc'[t] \notin {"linkback", "eraseback"}, ~ Linking(t)',
             th' \in [Threads -> Locals], pc' \in [Threads -> Labels],
             lock' \in [Nodes -> Threads \cup {NoThread}],
             toFill' \in Seq(Named), todo' = todo, buried' = buried,
             \/ call' = call
             \/ \E c \in RS!Resting \cup RS!Deleting : Record(t, c),
             (\A l \in Levels : Linked(l)' = Linked(l)) => ThreadInv(t)' /\ ArgInv(t)'
      PROVE  SkiplistInv'
  <2>1. Settled(t)
    BY <1>2, <1>6, <1>7 DEF Settled
  <2>2. \/ n = HeadNode /\ back \in Linked(i) \cup {NoNode}
        \/ /\ n \in Linked(i) /\ back \in On(i)
           /\ \A N, rank : Ranks(i, N, rank) => rank[back] < rank[n]
    <3>1. CASE nx = NoNode
      BY <1>4, <3>1 DEF On
    <3>2. CASE nx # NoNode
      <4>1. n = nx /\ back = pr /\ nx \in Linked(i)
        BY <1>4, <3>2
      <4>2. ASSUME NEW N, NEW rank, Ranks(i, N, rank) PROVE rank[pr] < rank[nx]
        BY <1>1, <3>2, <4>2 DEF Ranks
      <4>3. QED
        BY <1>4, <4>1, <4>2
    <3>3. QED
      BY <3>1, <3>2
  <2>3. LinksInv' /\ RankInv' /\ ChainInv' /\ \A l \in Levels : Linked(l)' = Linked(l)
    <3> HIDE DEF n, i, back
    <3>1. QED
      BY <1>1, <1>2, <1>3, <1>6, <2>1, <2>2, BackKept
  <2>4. DeadInv'
    BY <1>3, <1>6 DEF DeadInv
  <2>5. ASSUME NEW u \in Threads \ {t} PROVE Rely(u)
    <3>1. /\ preload'[u] = preload[u] /\ listLevel' \in Levels /\ listLevel <= listLevel'
          /\ used \subseteq used' /\ \A m \in used : height'[m] = height[m]
          /\ dead \subseteq dead' /\ dead' \subseteq dead \cup {NoNode} /\ dead' = dead
          /\ HeadNode # NoNode /\ NoNode \notin used /\ used \subseteq Leaves
          /\ \A m \in used : slots'[m] = slots[m] /\ min'[m] = min[m] /\ max'[m] = max[m]
      BY <1>2, <1>6, LevelsDown, NoNodeApart DEF TypeOK
    <3>2. QED
      BY <1>7, <2>3, <3>1, RelyKept
  <2>6. prev' \in [Nodes -> [Levels -> Maybe]]
    <3>1. back \in Maybe /\ prev \in [Nodes -> [Levels -> Maybe]]
      BY <1>2, <1>4, NoNodeApart DEF TypeOK
    <3>2. QED
      BY <1>1, <3>1
  <2>7. /\ next' \in [Nodes -> [Levels -> Maybe]]
        /\ dead' \subseteq used' /\ used' \subseteq Leaves /\ height' \in [Leaves -> Levels]
        /\ slots' \in [Leaves -> Seq(Ranges)] /\ \A m \in Leaves : Len(slots'[m]) <= Cap
        /\ min' \in [Leaves -> Nat] /\ max' \in [Leaves -> Nat] /\ listLevel' \in Levels
        /\ preload' \in [Threads -> [Levels -> Levels \cup {Empty}]]
        /\ \A u \in Threads, k \in Levels : preload'[u][k] <= k
        /\ buried' \subseteq Ranges
    BY <1>2, <1>6, <1>7 DEF TypeInv, TypeOK
  <2>8. ThreadInv(t)' /\ ArgInv(t)'
    BY <1>7, <2>3
  <2>9. QED
    BY <1>7, <2>3, <2>4, <2>5, <2>6, <2>7, <2>8, ChangeStep
<1>8. CASE i > 0
  <2> DEFINE r == [me EXCEPT !.i = i - 1, !.nx = NoNode]
  <2>1. /\ Release(R) /\ Quiet /\ UNCHANGED client
        /\ th' = [th EXCEPT ![t] = r] /\ pc' = [pc EXCEPT ![t] = "erase"]
    BY <1>2, <1>8 DEF EraseBack, Goto, TypeInv
  <2>2. NoNode \in Maybe /\ i - 1 \in -1..MaxLevel /\ i - 1 \in 0..height[me.leaf]
    <3>1. height[me.leaf] \in Levels
      BY <1>2, <1>3 DEF LinkTypes
    <3>2. QED
      BY <1>2, <1>8, <3>1, LevelsDown, NoNodeApart
  <2>3. r \in Locals /\ r.i = i - 1 /\ r.leaf = me.leaf /\ SameArg(t, r)
    BY <1>2, <2>2 DEF Locals, SameArg
  <2> HIDE DEF r
  <2>4. /\ th'[t] = r /\ pc'[t] = "erase" /\ Others(t) /\ ~ Linking(t)'
        /\ th' \in [Threads -> Locals] /\ pc' \in [Threads -> Labels]
    BY <1>2, <2>1, <2>3 DEF TypeInv, Others, Labels, Linking, ErasePcs
  <2>5. OthersLocks(t) /\ lock' \in [Nodes -> Threads \cup {NoThread}]
    BY <1>2, <1>5, <2>1, LockSteps
  <2>6. ASSUME \A l \in Levels : Linked(l)' = Linked(l) PROVE ThreadInv(t)' /\ ArgInv(t)'
    <3>1. EraseInv(t)'
      BY <1>2, <1>6, <2>2, <2>3, <2>4, <2>6, LevelsDown DEF EraseInv, ErasePcs
    <3>2. QED
      BY <1>2, <1>3, <2>3, <2>4, <3>1, ArriveErase DEF ErasePcs, ArgInv, Arg, SameArg
  <2>7. /\ toFill' \in Seq(Named) /\ todo' = todo /\ call' = call /\ buried' = buried
    BY <1>2, <2>1 DEF client, Quiet, TypeInv
  <2>8. QED
    BY <1>7, <2>4, <2>5, <2>6, <2>7
<1>9. CASE ~ (i > 0)
  <2>1. Return(t, R) /\ Done(t)
    BY <1>9 DEF EraseBack
  <2>2. /\ th'[t] = Resting /\ pc'[t] = "rest" /\ Others(t) /\ OthersLocks(t)
        /\ th' \in [Threads -> Locals] /\ pc' \in [Threads -> Labels]
        /\ lock' \in [Nodes -> Threads \cup {NoThread}]
        /\ toFill' \in Seq(Named) /\ todo' = todo
        /\ ~ Linking(t)' /\ ThreadInv(t)' /\ ArgInv(t)'
    BY <1>2, <1>5, <2>1, ReturnType
  <2>3. buried' = buried /\ \E c \in RS!Resting \cup RS!Deleting : Record(t, c)
    BY <2>1, OverType DEF Done
  <2>4. QED
    BY <1>7, <2>2, <2>3
<1>10. QED
  BY <1>8, <1>9

-----------------------------------------------------------------------------
(* The invariant *)

LEMMA InitHolds == Init => SkiplistInv
<1> SUFFICES ASSUME Init PROVE SkiplistInv
  OBVIOUS
<1>1. PICK g \in Programs : toFill = g.fill /\ todo = g.todo
  BY DEF Init
<1>2. toFill \in Seq(Named)
  <2>1. g.fill \in Seq(Slot) /\ ToSet(g.fill) \subseteq Named
    BY ProgramsAssumption, RangesType
  <2>2. QED
    BY <1>1, <2>1 DEF ToSet
<1>3. todo \in [Threads -> Seq([op : {"insert", "hole", "delete", "lookup"}, r : Named])]
  <2> DEFINE Work(S) == [op : {"insert", "hole", "delete", "lookup"}, r : S]
  <2>1. g.todo \in [Threads -> Seq(Work(Slot))]
    BY ProgramsAssumption
  <2>2. ASSUME NEW t \in Threads PROVE g.todo[t] \in Seq(Work(Named))
    <3>1. g.todo[t] \in Seq(Work(Slot)) /\ {w.r : w \in ToSet(g.todo[t])} \subseteq Named
      BY <2>1, RangesType
    <3>2. PICK s : s = g.todo[t]
      OBVIOUS
    <3>3. ASSUME NEW w \in ToSet(s) PROVE w \in Work(Named)
      <4>1. w \in Work(Slot) /\ w.r \in Named
        BY <3>1, <3>2, <3>3, ToSetType
      <4>2. QED
        BY <4>1
    <3> HIDE DEF Work
    <3>4. s \in Seq(Work(Slot))
      BY <3>1, <3>2
    <3>5. s \in Seq(Work(Named))
      BY <3>3, <3>4 DEF ToSet
    <3>6. QED
      BY <3>2, <3>5
  <2>3. QED
    BY <1>1, <2>1, <2>2
<1>4. /\ next = [n \in Nodes |-> [l \in Levels |-> NoNode]] /\ prev = next
      /\ dead = {} /\ used = {} /\ lock = [n \in Nodes |-> NoThread]
      /\ height = [n \in Leaves |-> 0] /\ slots = [n \in Leaves |-> <<>>]
      /\ min = [n \in Leaves |-> 0] /\ max = [n \in Leaves |-> 0]
      /\ listLevel = 0 /\ preload = [t \in Threads |-> [l \in Levels |-> Empty]]
      /\ pc = [t \in Threads |-> "rest"] /\ th = [t \in Threads |-> Resting]
      /\ call = [t \in Threads |-> [op |-> "none", found |-> FALSE]] /\ buried = {}
  BY DEF Init
<1>5. 0 \in Levels /\ NoNode \in Maybe /\ \A l \in Levels : l \in Nat
  BY LevelsDown, NoNodeApart
<1>6. /\ \A n \in Nodes, l \in Levels : next[n][l] = NoNode /\ prev[n][l] = NoNode
      /\ \A l \in Levels : Linked(l) = {}
  BY <1>4, NoNodeApart DEF Linked
<1>7. LinksInv
  BY <1>4, <1>6, NoNodeApart DEF LinksInv
<1>8. RankInv
  <2> DEFINE rank == [n \in Nodes |-> 0]
  <2>1. ASSUME NEW l \in Levels PROVE Ranks(l, 0, rank)
    <3>1. rank \in [Nodes -> 0..0] /\ 0 \in Nat
      OBVIOUS
    <3>2. \A t \in Threads : th[t].nx = NoNode
      BY <1>4 DEF Resting
    <3>3. QED
      BY <1>6, <3>1, <3>2, NoNodeApart DEF Ranks
  <2>2. QED
    BY <2>1 DEF RankInv
<1>9. ChainInv /\ DeadInv /\ NewInv
  BY <1>4, <1>6 DEF ChainInv, DeadInv, NewInv, Linking
<1>10. \A t \in Threads : ThreadInv(t) /\ ArgInv(t)
  <2>1. \A t \in Threads : pc[t] = "rest"
    BY <1>4
  <2>2. QED
    BY <2>1, ElsewhereNow
       DEF Elsewhere, ThreadInv, InsertPcs, WalkPcs, VerifyPcs, PlacePcs, SearchPcs, ErasePcs,
           MayAllocate, ArgInv
<1>11. slots \in [Leaves -> Seq(Ranges)] /\ dead \subseteq Leaves
  BY <1>4
<1>12. RS!TypeOK
  <2>1. Contents \subseteq Ranges
    BY <1>7, <1>8, <1>11, ContentsType
  <2>2. [op |-> "none", found |-> FALSE] \in RS!Resting
    BY DEF RS!Resting, RS!Idle
  <2>3. QED
    BY <1>4, <2>1, <2>2 DEF RS!TypeOK
<1>13. TypeOK
  <2>1. ASSUME NEW n \in Leaves PROVE Len(slots[n]) <= Cap /\ ToSet(slots[n]) \subseteq Ranges
    BY <1>4, CapAssumption DEF ToSet
  <2>2. \A t \in Threads : th[t] \in Locals
    BY <1>4, RestingType
  <2>3. Empty \in Levels \cup {Empty}
    OBVIOUS
  <2>4. /\ next \in [Nodes -> [Levels -> Maybe]] /\ prev \in [Nodes -> [Levels -> Maybe]]
        /\ dead \subseteq used /\ used \subseteq Leaves
        /\ lock \in [Nodes -> Threads \cup {NoThread}] /\ height \in [Leaves -> Levels]
        /\ DOMAIN slots = Leaves /\ min \in [Leaves -> Nat] /\ max \in [Leaves -> Nat]
        /\ listLevel \in Levels /\ preload \in [Threads -> [Levels -> Levels \cup {Empty}]]
        /\ buried \subseteq Ranges
    BY <1>4, <1>5
  <2>5. QED
    BY <1>12, <2>1, <2>2, <2>4 DEF TypeOK
<1>14. TypeInv
  <2>1. th \in [Threads -> Locals] /\ pc \in [Threads -> Labels]
    BY <1>4, RestingType DEF Labels
  <2>2. \A t \in Threads, k \in Levels : preload[t][k] <= k
    BY <1>4, <1>5 DEF Empty
  <2>3. QED
    BY <1>2, <1>3, <1>11, <1>13, <2>1, <2>2 DEF TypeInv
<1>15. QED
  BY <1>7, <1>8, <1>9, <1>10, <1>14 DEF SkiplistInv

\* Nothing the invariant is about changes when nothing does.
LEMMA StutterHolds == SkiplistInv /\ UNCHANGED vars => SkiplistInv'
<1> SUFFICES ASSUME SkiplistInv, UNCHANGED vars PROVE SkiplistInv'
  OBVIOUS
<1>1. /\ next' = next /\ prev' = prev /\ dead' = dead /\ lock' = lock /\ height' = height
      /\ slots' = slots /\ min' = min /\ max' = max /\ listLevel' = listLevel /\ used' = used
      /\ preload' = preload /\ pc' = pc /\ th' = th /\ toFill' = toFill /\ todo' = todo
      /\ call' = call /\ buried' = buried
  BY DEF vars, links, leaf, client
<1>2. /\ TypeInv /\ TypeOK /\ LinksInv /\ \A u \in Threads : ThreadInv(u) /\ ArgInv(u)
  BY Parts
<1>3. \A l \in Levels : Linked(l)' = Linked(l)
  BY <1>1 DEF Linked
<1>4. ASSUME NEW u \in Threads PROVE ThreadInv(u)' /\ ArgInv(u)'
  <2>1. listLevel \in Levels /\ listLevel \in Nat
    BY <1>2, LevelsDown DEF TypeOK
  <2>2. Rely(u)
    BY <1>1, <1>3, <2>1 DEF Rely
  <2>3. QED
    BY <1>1, <1>2, <2>2, ThreadStays DEF ArgInv, Arg
<1>5. LinksInv' /\ RankInv' /\ NewInv' /\ DeadInv'
  <2>1. LinksInv /\ RankInv /\ NewInv /\ DeadInv
    BY Parts
  <2>2. LinksInv'
    <3>1. /\ \A l \in Levels : On(l)' = On(l)
          /\ \A t \in Threads : Linking(t)' <=> Linking(t)
      BY <1>1, <1>3 DEF On, Linking
    <3>2. /\ \A l \in Levels, n \in Nodes :
               /\ next'[n][l] \in Linked(l)' \cup {NoNode}
               /\ prev'[n][l] \in On(l)' \cup {NoNode}
          /\ \A l \in Levels :
               /\ prev'[HeadNode][l] # HeadNode
               /\ \A n \in Leaves \ Linked(l)' : next'[n][l] = NoNode
      BY <1>1, <1>3, <2>1, <3>1 DEF LinksInv
    <3>3. ASSUME NEW l \in Levels, NEW n \in Linked(l)'
          PROVE  n \in used' /\ l <= height'[n] /\ \A k \in 0..l : n \in Linked(k)'
      BY <1>1, <1>3, <2>1, LevelsDown DEF LinksInv
    <3>4. ASSUME NEW n \in used'
          PROVE  \/ \A l \in 0..height'[n] : n \in Linked(l)'
                 \/ \E t \in Threads : Linking(t)' /\ th'[t].new = n
      <4>1. n \in used /\ height[n] \in Levels
        BY <1>1, <1>2 DEF TypeOK
      <4>2. QED
        BY <1>1, <1>3, <2>1, <3>1, <4>1, LevelsDown DEF LinksInv
    <3>5. QED
      BY <3>2, <3>3, <3>4 DEF LinksInv
  <2>3. RankInv'
    BY <1>1, <2>1 DEF RankInv, Ranks
  <2>4. NewInv' /\ DeadInv'
    BY <1>1, <2>1 DEF NewInv, DeadInv, Linking
  <2>5. QED
    BY <2>2, <2>3, <2>4
<1>6. ChainInv'
  BY <1>1, <1>3, Parts, SameChain
<1>7. TypeInv'
  <2>1. Contents' = Contents
    BY <1>1 DEF Contents, LiveNext
  <2>2. RS!TypeOK'
    BY <1>1, <1>2, <2>1 DEF TypeOK, RS!TypeOK
  <2>3. TypeOK'
    BY <1>1, <1>2, <2>2 DEF TypeOK
  <2>4. QED
    BY <1>1, <1>2, <2>3 DEF TypeInv
<1>8. QED
  BY <1>4, <1>5, <1>6, <1>7 DEF SkiplistInv

LEMMA StepHolds ==
  ASSUME SkiplistInv, NEW t \in Threads, Step(t)
  PROVE  SkiplistInv'
<1>1. CASE Insert(t)
  BY <1>1, BeginInsertStep, FastReadStep, FastLockStep, FromTheTopStep, HeadLockStep,
     SkipLevelStep, WalkStep, WalkLockStep, CompareStep, RecheckStep, HomeLockStep, DownStep,
     VerifyPrevStep, VerifyNodeStep, VerifyNextStep, FindOrAddStep, StoreStep, SplitStep,
     EmptyListStep, LinkReadStep, LinkLockStep, LinkBackStep, ShrinkStep DEF Insert
<1>2. CASE Search(t)
  BY <1>2, BeginSearchStep, SearchFromTheTopStep, SeekStep, ExamineStep, StableStep, GrabStep
     DEF Search
<1>3. CASE Erase(t)
  BY <1>3, EraseReadStep, ErasePrevStep, EraseNodeStep, EraseGrabStep, EraseNextStep,
     EraseBackStep DEF Erase
<1>4. CASE Hole(t)
  BY <1>4, HoleCheckStep, HoleLockStep, HoleWalkStep, HoleNextStep DEF Hole
<1>5. QED
  BY <1>1, <1>2, <1>3, <1>4 DEF Step

LEMMA NextHolds == SkiplistInv /\ [Next]_vars => SkiplistInv'
BY StepHolds, StutterHolds DEF Next, Stopped

LEMMA AlwaysHolds == Spec => []SkiplistInv
BY InitHolds, NextHolds, PTL DEF Spec

-----------------------------------------------------------------------------
(* What it comes to *)

\* The links, locks, leaves and locals of the threads are always what the code
\* takes them to be: no step of skiplist.c leaves a level with a pointer to
\* something that is not a node, a leaf with more than Cap ranges, or a cursor
\* that is read past its end, however many threads there are.
THEOREM TypeCorrect == Spec => []TypeOK
BY AlwaysHolds, Parts, PTL

\* sl_link_one_level() asserts that the node it links behind is locked and not
\* dead.  It always is: whether the node comes from the cursor or is the leaf
\* that has been split, its thread has not given the lock up since it last saw
\* the node alive.
THEOREM LinksBehindLiveLocked == Spec => []LinkBehindLiveLocked
<1>1. ASSUME SkiplistInv PROVE LinkBehindLiveLocked
  <2>1. ASSUME NEW t \in Threads, pc[t] \in {"link", "linklock"}
        PROVE  LET b == Behind(t, th[t].i)
               IN  b # NoNode /\ b \notin dead /\ lock[b] = t
    BY <1>1, <2>1, LinkingIs, NoNodeApart
  <2>2. QED
    BY <2>1 DEF LinkBehindLiveLocked
<1>2. QED
  BY <1>1, AlwaysHolds, PTL

\* No level runs in a circle, links only its own leaves, and loses a live one:
\* the links of a level follow an order of the nodes, and every live leaf on it
\* is what a walk finds next after some live node.
THEOREM LevelsHoldTogether == Spec => [](LinksInv /\ RankInv /\ ChainInv)
BY AlwaysHolds, Parts, PTL

\* A step changes the label of the thread that takes it, and of no other; of a
\* thread that has a dead leaf to unlink, the step reads the way back.
LEMMA StepsApart ==
  ASSUME TypeInv, NEW u \in Threads, Step(u)
  PROVE  /\ \E q : pc' = [pc EXCEPT ![u] = q]
         /\ pc[u] = "erase" => EraseRead(u)
<1>1. pc = [pc EXCEPT ![u] = pc[u]]
  BY DEF TypeInv
<1>2. CASE Insert(u)
  <2>1. CASE \/ BeginInsert(u) \/ FastRead(u) \/ FastLock(u)
             \/ FromTheTop(u) \/ HeadLock(u) \/ SkipLevel(u)
    BY <1>1, <2>1 DEF BeginInsert, FastRead, FastLock, FromTheTop, HeadLock, SkipLevel, Goto
  <2>2. CASE Walk(u) \/ WalkLock(u) \/ Compare(u) \/ Recheck(u) \/ HomeLock(u) \/ Down(u)
    BY <2>2 DEF Walk, WalkLock, Compare, Recheck, HomeLock, Down, Goto
  <2>3. CASE VerifyPrev(u) \/ VerifyNode(u) \/ VerifyNext(u)
    BY <2>3 DEF VerifyPrev, VerifyNode, VerifyNext, Failed, Verified, Goto
  <2>4. CASE FindOrAdd(u) \/ Store(u) \/ Split(u) \/ EmptyList(u)
    BY <2>4 DEF FindOrAdd, Store, Split, EmptyList, Return, Goto
  <2>5. CASE LinkRead(u) \/ LinkLock(u) \/ LinkBack(u) \/ Shrink(u)
    BY <2>5 DEF LinkRead, LinkLock, LinkForward, LinkBack, Shrink, Return, Goto
  <2>6. QED
    BY <1>2, <2>1, <2>2, <2>3, <2>4, <2>5 DEF Insert
<1>3. CASE Search(u)
  BY <1>3 DEF Search, BeginSearch, SearchFromTheTop, Seek, SearchDown, Examine, Stable, Grab,
     Return, Goto
<1>4. CASE Erase(u)
  BY <1>4 DEF Erase, EraseRead, ErasePrev, EraseNode, EraseGrab, EraseNext, EraseBack, Bypass,
     Return, Goto
<1>5. CASE Hole(u)
  BY <1>1, <1>5 DEF Hole, HoleCheck, HoleLock, HoleWalk, HoleNext, Return, Goto
<1>6. QED
  BY <1>2, <1>3, <1>4, <1>5 DEF Step

LEMMA OopsStep ==
  ASSUME SkiplistInv, [Next]_vars, NEW t \in Threads, pc[t] = "erase", pc'[t] = "oops"
  PROVE  \E u \in Threads : th[u].new = th[t].leaf /\ th[u].p = HeadNode
<1> DEFINE me == th[t]
<1>1. EraseRead(t)
  <2>1. CASE UNCHANGED vars \/ Stopped
    BY <2>1 DEF Stopped, vars
  <2>2. ASSUME NEW u \in Threads, Step(u) PROVE EraseRead(t)
    <3>1. CASE u = t
      BY <2>2, <3>1, StepsApart, Parts
    <3>2. CASE u # t
      <4>1. PICK q : pc' = [pc EXCEPT ![u] = q]
        BY <2>2, StepsApart, Parts
      <4>2. pc \in [Threads -> Labels]
        BY Parts DEF TypeInv
      <4>3. QED
        BY <3>2, <4>1, <4>2
    <3>3. QED
      BY <3>1, <3>2
  <2>3. QED
    BY <2>1, <2>2 DEF Next
<1>2. /\ TypeInv /\ TypeOK /\ LinksInv /\ RankInv /\ dead \subseteq Leaves
      /\ me.leaf \in Linked(0) \cap dead /\ me.leaf \in Leaves
      /\ me.i \in 0..height[me.leaf] /\ me.i \in Levels
  BY Erasing DEF ErasePcs
<1>3. LivePrev(me.leaf, me.i) = NoNode
  BY <1>1, <1>2 DEF EraseRead, Goto, TypeInv
<1>4. me.leaf \notin Linked(me.i)
  <2>1. PICK N, rank : Ranks(me.i, N, rank)
    BY <1>2 DEF RankInv
  <2>2. QED
    BY <1>2, <1>3, <2>1, LivePrevIs
<1>5. me.leaf \in used
  BY <1>2 DEF TypeOK
<1>6. PICK u \in Threads : Linking(u) /\ th[u].new = me.leaf
  BY <1>2, <1>4, <1>5 DEF LinksInv
<1>7. LinkInv(u)
  BY Parts DEF ThreadInv
<1>8. th[u].p # HeadNode => th[u].new \notin dead
  BY <1>6, <1>7 DEF LinkInv, Has
<1>9. QED
  BY <1>2, <1>6, <1>8

\* find_live_prev() dereferences NULL when sl_erase() unlinks a leaf from a
\* level it is not on.  That can only be the one leaf of a list found empty,
\* which its insertion, without a lock on it, still links on its upper levels
\* when another thread has already taken the range out again.
THEOREM OopsOnlyThere == Spec => OopsOnlyWhileLinking
<1>1. SkiplistInv /\ [Next]_vars
      => [\A t \in Threads : pc[t] = "erase" /\ pc'[t] = "oops" =>
            \E u \in Threads : th[u].new = th[t].leaf /\ th[u].p = HeadNode]_vars
  BY OopsStep
<1>2. QED
  BY <1>1, AlwaysHolds, PTL DEF Spec, OopsOnlyWhileLinking

-----------------------------------------------------------------------------
(* What the leaves in the list hold *)

\* r belongs between the ranges before and from slot of a leaf with the ranges s.
Fits(s, slot, r) ==
  /\ slot \in 1..Len(s) + 1
  /\ \A i \in 1..slot - 1 : End(s[i]) <= r.key
  /\ \A i \in slot..Len(s) : End(r) <= s[i].key

\* From the search in the leaf to the store, over a split if there is one, the
\* place found stays that of the range: the leaf is locked all the time.
FitPcs == {"store", "split", "link", "linklock", "linkback", "shrink"}
FitInv(t) ==
  /\ pc[t] \in FitPcs
  /\ pc[t] \notin {"store", "split"} => th[t].p # HeadNode
  => Fits(slots[th[t].p], th[t].slot, Arg(t))

\* Sound(n) of what it is about.
Whole(s, first, end) ==
  s # <<>> /\ Ordered(s) /\ first = s[1].key /\ end = End(s[Len(s)])

SoundInv == LiveLeavesSound /\ \A t \in Threads : FitInv(t)

\* The place that another thread has found is not touched.
LEMMA FitStays ==
  ASSUME SkiplistInv, NEW t \in Threads, Others(t), NEW u \in Threads \ {t}, FitInv(u),
         \A n \in used : lock[n] = u => slots'[n] = slots[n]
  PROVE  FitInv(u)'
<1>1. th'[u] = th[u] /\ pc'[u] = pc[u]
  BY DEF Others
<1>2. SUFFICES ASSUME pc[u] \in FitPcs, pc[u] \notin {"store", "split"} => th[u].p # HeadNode
               PROVE  slots'[th[u].p] = slots[th[u].p]
  BY <1>1 DEF FitInv, Arg
<1>3. LinksInv /\ PlaceInv(u) /\ LinkInv(u)
  BY Parts DEF ThreadInv
<1>4. th[u].p \in Linked(0) /\ lock[th[u].p] = u
  BY <1>2, <1>3 DEF PlaceInv, LinkInv, FitPcs, PlacePcs, Linking, Has, Holds
<1>5. th[u].p \in used
  BY <1>3, <1>4, LevelsDown DEF LinksInv
<1>6. QED
  BY <1>4, <1>5

\* A step that leaves the leaves alone.
LEMMA LeavesKept ==
  ASSUME SkiplistInv, SoundInv, NEW t \in Threads, Others(t),
         UNCHANGED <<leaf, used, dead>>, FitInv(t)'
  PROVE  SoundInv'
<1>1. /\ slots' = slots /\ min' = min /\ max' = max /\ used' = used /\ dead' = dead
  BY DEF leaf
<1>2. LiveLeavesSound'
  BY <1>1 DEF SoundInv, LiveLeavesSound, Sound
<1>3. \A u \in Threads \ {t} : FitInv(u)'
  BY <1>1, FitStays DEF SoundInv
<1>4. QED
  BY <1>2, <1>3 DEF SoundInv

\* A step that changes what one leaf holds, live before or new.
LEMMA LeafChanged ==
  ASSUME SkiplistInv, SoundInv, NEW t \in Threads, Others(t), FitInv(t)',
         NEW n \in Leaves, n \notin used \/ lock[n] \in {t, NoThread},
         used' \ dead' \subseteq (used \ dead) \cup {n},
         \A m \in Leaves \ {n} : slots'[m] = slots[m] /\ min'[m] = min[m] /\ max'[m] = max[m],
         n \in used' \ dead' => Whole(slots'[n], min'[n], max'[n])
  PROVE  SoundInv'
<1>1. used \subseteq Leaves
  BY Parts DEF TypeOK
<1>2. LiveLeavesSound'
  BY <1>1 DEF SoundInv, LiveLeavesSound, Sound, Whole
<1>3. \A u \in Threads \ {t} : FitInv(u)'
  <2>1. ASSUME NEW u \in Threads \ {t}, NEW m \in used, lock[m] = u PROVE slots'[m] = slots[m]
    BY <1>1, <2>1, SkiplistAssumption
  <2>2. QED
    BY <2>1, FitStays DEF SoundInv
<1>4. QED
  BY <1>2, <1>3 DEF SoundInv

\* The steps of an insertion before it has found the place, of a search before
\* it locks the leaf, and of an erasure.
LEMMA SearchesKeep ==
  ASSUME SkiplistInv, SoundInv, NEW t \in Threads,
         Step(t), ~ FindOrAdd(t), ~ Store(t), ~ Split(t), ~ EmptyList(t),
         ~ LinkRead(t), ~ LinkLock(t), ~ LinkBack(t), ~ Shrink(t), ~ Grab(t)
  PROVE  SoundInv'
<1>1. th \in [Threads -> Locals] /\ pc \in [Threads -> Labels]
  BY Parts DEF TypeInv
<1>2. UNCHANGED <<leaf, used, dead>>
  <2>1. CASE \/ BeginInsert(t) \/ FastRead(t) \/ FastLock(t)
             \/ FromTheTop(t) \/ HeadLock(t) \/ SkipLevel(t)
    BY <2>1 DEF BeginInsert, Call, FastRead, FastLock, FromTheTop, HeadLock, SkipLevel,
       Unlocked, Private
  <2>2. CASE Walk(t) \/ WalkLock(t) \/ Compare(t) \/ Recheck(t) \/ HomeLock(t) \/ Down(t)
    BY <2>2 DEF Walk, WalkLock, Compare, Recheck, HomeLock, Down, Unlocked, Private
  <2>3. CASE VerifyPrev(t) \/ VerifyNode(t) \/ VerifyNext(t)
    BY <2>3 DEF VerifyPrev, VerifyNode, VerifyNext, Private
  <2>4. CASE BeginSearch(t) \/ SearchFromTheTop(t) \/ Seek(t) \/ Examine(t) \/ Stable(t)
    BY <2>4 DEF BeginSearch, Call, SearchFromTheTop, Seek, SearchDown, Examine, Stable,
       Unlocked, Private
  <2>5. CASE Erase(t)
    BY <2>5 DEF Erase, EraseRead, ErasePrev, EraseNode, EraseGrab, EraseNext, EraseBack,
       Unlocked, Private
  <2>6. CASE Hole(t)
    BY <2>6 DEF Hole, HoleCheck, HoleLock, HoleWalk, HoleNext, Unlocked, Private
  <2>7. QED
    BY <2>1, <2>2, <2>3, <2>4, <2>5, <2>6 DEF Step, Insert, Search
<1>3. pc'[t] \notin FitPcs /\ \A u \in Threads \ {t} : pc'[u] = pc[u]
  <2>1. CASE \/ BeginInsert(t) \/ FastRead(t) \/ FastLock(t)
             \/ FromTheTop(t) \/ HeadLock(t) \/ SkipLevel(t)
    BY <1>1, <2>1 DEF BeginInsert, FastRead, FastLock, FromTheTop, HeadLock, SkipLevel, Goto,
       FitPcs
  <2>2. CASE Walk(t) \/ WalkLock(t) \/ Compare(t) \/ Recheck(t) \/ HomeLock(t) \/ Down(t)
    BY <1>1, <2>2 DEF Walk, WalkLock, Compare, Recheck, HomeLock, Down, Goto, FitPcs
  <2>3. CASE VerifyPrev(t) \/ VerifyNode(t) \/ VerifyNext(t)
    BY <1>1, <2>3 DEF VerifyPrev, VerifyNode, VerifyNext, Failed, Verified, Goto, FitPcs
  <2>4. CASE BeginSearch(t) \/ SearchFromTheTop(t) \/ Seek(t) \/ Examine(t) \/ Stable(t)
    BY <1>1, <2>4 DEF BeginSearch, SearchFromTheTop, Seek, SearchDown, Examine, Stable,
       Return, Goto, FitPcs
  <2>5. CASE Erase(t)
    BY <1>1, <2>5 DEF Erase, EraseRead, ErasePrev, EraseNode, EraseGrab, EraseNext, EraseBack,
       Bypass, Return, Goto, FitPcs
  <2>6. CASE Hole(t)
    BY <1>1, <2>6 DEF Hole, HoleCheck, HoleLock, HoleWalk, HoleNext, Return, Goto, FitPcs
  <2>7. QED
    BY <2>1, <2>2, <2>3, <2>4, <2>5, <2>6 DEF Step, Insert, Search
<1>4. \A u \in Threads \ {t} : th'[u] = th[u]
  <2>1. CASE \/ BeginInsert(t) \/ FastRead(t) \/ FastLock(t)
             \/ FromTheTop(t) \/ HeadLock(t) \/ SkipLevel(t)
    BY <1>1, <2>1 DEF BeginInsert, FastRead, FastLock, FromTheTop, HeadLock, SkipLevel
  <2>2. CASE Walk(t) \/ WalkLock(t) \/ Compare(t) \/ Recheck(t) \/ HomeLock(t) \/ Down(t)
    BY <1>1, <2>2 DEF Walk, WalkLock, Compare, Recheck, HomeLock, Down
  <2>3. CASE VerifyPrev(t) \/ VerifyNode(t) \/ VerifyNext(t)
    BY <1>1, <2>3 DEF VerifyPrev, VerifyNode, VerifyNext, Failed, Verified
  <2>4. CASE BeginSearch(t) \/ SearchFromTheTop(t) \/ Seek(t) \/ Examine(t) \/ Stable(t)
    BY <1>1, <2>4 DEF BeginSearch, SearchFromTheTop, Seek, SearchDown, Examine, Stable, Return
  <2>5. CASE Erase(t)
    BY <1>1, <2>5 DEF Erase, EraseRead, ErasePrev, EraseNode, EraseGrab, EraseNext, EraseBack,
       Bypass, Return
  <2>6. CASE Hole(t)
    BY <1>1, <2>6 DEF Hole, HoleCheck, HoleLock, HoleWalk, HoleNext, Return
  <2>7. QED
    BY <2>1, <2>2, <2>3, <2>4, <2>5, <2>6 DEF Step, Insert, Search
<1>5. QED
  BY <1>2, <1>3, <1>4, LeavesKept DEF FitInv, Others

\* The last range of a leaf in order ends behind all others.
LEMMA LastEnds ==
  ASSUME NEW s \in Seq(Slot), Ordered(s), NEW i \in 1..Len(s)
  PROVE  End(s[i]) <= End(s[Len(s)])
<1>1. s[i] \in Slot /\ s[Len(s)] \in Slot
  OBVIOUS
<1>2. CASE i = Len(s)
  BY <1>1, <1>2 DEF End, Slot
<1>3. CASE i < Len(s)
  <2>1. End(s[i]) <= s[Len(s)].key
    BY <1>3 DEF Ordered
  <2>2. QED
    BY <1>1, <2>1 DEF End, Slot
<1>4. QED
  BY <1>2, <1>3

\* The place found in the leaf is that of the range.
LEMMA FindOrAddSound ==
  ASSUME SkiplistInv, SoundInv, NEW t \in Threads, FindOrAdd(t)
  PROVE  SoundInv'
<1> DEFINE p == th[t].p
           s == slots[p]
           hit == IF th[t].key < max[p] THEN LeafSlotLocked(s, Arg(t))
                  ELSE [found |-> FALSE, slot |-> Len(s) + 1]
           q == IF Len(s) < Cap THEN "store" ELSE "split"
           ins == IF th[t].ins = NoNode /\ ~ InCursor(t, p) THEN p ELSE th[t].ins
<1>1. pc[t] = "overlap" /\ pc[t] \in PlacePcs
  BY DEF FindOrAdd, PlacePcs
<1>2. /\ TypeInv /\ LinksInv /\ DeadInv /\ th \in [Threads -> Locals] /\ pc \in [Threads -> Labels]
      /\ p \in Linked(0) /\ p \in Leaves /\ p \in Nodes /\ PlaceInv(t)
      /\ s \in Seq(Slot) /\ Arg(t) \in Slot /\ max[p] \in Nat /\ th[t].key \in Nat
  <2>1. /\ p \in Linked(0) /\ p \in Leaves /\ p \in Nodes /\ PlaceInv(t)
        /\ s \in Seq(Slot) /\ Arg(t) \in Slot /\ th[t] \in Locals
    BY <1>1, Placing
  <2>2. /\ TypeInv /\ LinksInv /\ DeadInv
        /\ th \in [Threads -> Locals] /\ pc \in [Threads -> Labels]
    BY Parts DEF TypeInv
  <2>3. max \in [Leaves -> Nat]
    BY <2>2 DEF TypeInv, TypeOK
  <2>4. max[p] \in Nat /\ th[t].key \in Nat
    BY <2>1, <2>3 DEF Locals
  <2>5. QED
    BY <2>1, <2>2, <2>4
<1>3. p \in used /\ UNCHANGED <<leaf, used, dead>>
  BY <1>2, LevelsDown DEF LinksInv, FindOrAdd
<1>4. CASE Return(t, Held(t) \cup {ins})
  <2>1. Others(t) /\ pc'[t] = "rest"
    BY <1>2, <1>4 DEF Return, Goto, Others
  <2>2. QED
    BY <1>3, <2>1, LeavesKept DEF FitInv, FitPcs
<1>5. CASE /\ ~ hit.found
           /\ th' = [th EXCEPT ![t].ins = ins, ![t].slot = hit.slot]
           /\ Goto(t, q)
  <2>1. Ordered(s)
    <3>1. CASE p \in dead
      BY <1>2, <3>1 DEF DeadInv, Ordered
    <3>2. CASE p \notin dead
      BY <1>3, <3>2 DEF SoundInv, LiveLeavesSound, Sound
    <3>3. QED
      BY <3>1, <3>2
  <2>2. Fits(s, hit.slot, Arg(t))
    <3>1. CASE th[t].key < max[p]
      <4>1. hit = LeafSlotLocked(s, Arg(t))
        BY <3>1
      <4>2. s \in Seq(Slot) /\ Arg(t) \in Slot /\ ~ hit.found
        BY <1>2, <1>5
      <4> HIDE DEF hit, s
      <4>3. /\ hit \in [found : BOOLEAN, slot : 1..Len(s) + 1]
            /\ \A i \in 1..hit.slot - 1 : End(s[i]) <= Arg(t).key
            /\ \A i \in hit.slot..Len(s) : End(Arg(t)) <= s[i].key
        BY <2>1, <4>1, <4>2, LeafSlotLockedRight
      <4>4. QED
        BY <4>3 DEF Fits
    <3>2. CASE ~ (th[t].key < max[p])
      <4>1. p \notin dead
        BY <1>1, <1>2, <3>2 DEF PlaceInv, PlacePcs
      <4>2. s # <<>> /\ max[p] = End(s[Len(s)])
        BY <1>3, <4>1 DEF SoundInv, LiveLeavesSound, Sound
      <4>3. ASSUME NEW i \in 1..Len(s) PROVE End(s[i]) <= Arg(t).key
        <5>1. End(s[i]) <= max[p] /\ s[i] \in Slot
          BY <1>2, <2>1, <4>2, LastEnds
        <5>2. End(s[i]) \in Nat /\ Arg(t).key = th[t].key
          BY <5>1 DEF Arg, End, Slot
        <5>3. QED
          BY <1>2, <3>2, <5>1, <5>2
      <4>4. hit.slot = Len(s) + 1 /\ Len(s) \in Nat
        BY <1>2, <3>2
      <4>5. QED
        BY <4>3, <4>4 DEF Fits
    <3>3. QED
      BY <3>1, <3>2
  <2> HIDE DEF hit
  <2>3. /\ Others(t) /\ th'[t].p = p /\ th'[t].slot = hit.slot /\ Arg(t)' = Arg(t)
        /\ slots' = slots /\ pc'[t] = q
    BY <1>2, <1>3, <1>5 DEF Others, Goto, Arg, Locals, leaf
  <2>4. FitInv(t)'
    BY <2>2, <2>3 DEF FitInv
  <2>5. QED
    BY <1>3, <2>3, <2>4, LeavesKept
<1>6. QED
  BY <1>4, <1>5 DEF FindOrAdd

\* The range goes to the place found, and to the ends of the leaf with it.
LEMMA StoreSound ==
  ASSUME SkiplistInv, SoundInv, NEW t \in Threads, Store(t)
  PROVE  SoundInv'
<1> DEFINE p == th[t].p
           slot == th[t].slot
           s == slots[p]
           r == Arg(t)
           w == InsertAt(s, slot, r)
<1>1. pc[t] = "store" /\ pc[t] \in PlacePcs
  BY DEF Store, PlacePcs
<1>2. /\ TypeInv /\ TypeOK /\ LinksInv /\ p \in Linked(0) /\ p \in Leaves /\ lock[p] = t
      /\ s \in Seq(Slot) /\ r \in Slot /\ PlaceInv(t)
  BY <1>1, Placing
<1>3. /\ slots' = [slots EXCEPT ![p] = w]
      /\ min' = [min EXCEPT ![p] = slots'[p][1].key]
      /\ max' = [max EXCEPT ![p] = IF slot > Len(s) THEN End(r) ELSE @]
      /\ dead' = dead /\ used' = used /\ Return(t, Held(t))
  BY DEF Store
<1>4. /\ slots \in [Leaves -> Seq(Ranges)] /\ min \in [Leaves -> Nat] /\ max \in [Leaves -> Nat]
      /\ th \in [Threads -> Locals] /\ pc \in [Threads -> Labels]
  BY <1>2 DEF TypeInv, TypeOK
<1>5. Others(t) /\ FitInv(t)'
  BY <1>3, <1>4 DEF Return, Goto, Others, FitInv, FitPcs
<1>6. Fits(s, slot, r)
  BY <1>1 DEF SoundInv, FitInv, FitPcs
<1>7. /\ w \in Seq(Slot) /\ Len(w) = Len(s) + 1 /\ w[slot] = r
      /\ \A j \in slot + 1..Len(s) + 1 : w[j] = s[j - 1]
      /\ slot \in 1..Len(s) + 1 /\ Len(s) \in Nat
  <2>1. slot \in 1..Len(s) + 1 /\ Len(s) \in Nat
    BY <1>2, <1>6 DEF Fits
  <2>2. s \in Seq(Slot) /\ r \in Slot
    BY <1>2
  <2> HIDE DEF s, slot, r
  <2>3. /\ InsertAt(s, slot, r) \in Seq(Slot)
        /\ Len(InsertAt(s, slot, r)) = Len(s) + 1
        /\ InsertAt(s, slot, r)[slot] = r
        /\ \A j \in slot + 1..Len(s) + 1 : InsertAt(s, slot, r)[j] = s[j - 1]
    BY <2>1, <2>2, InsertAtIs
  <2>4. QED
    BY <2>1, <2>3
<1>8. /\ slots'[p] = w /\ min'[p] = w[1].key
      /\ max'[p] = IF slot > Len(s) THEN End(r) ELSE max[p]
      /\ \A m \in Leaves \ {p} : slots'[m] = slots[m] /\ min'[m] = min[m] /\ max'[m] = max[m]
  BY <1>2, <1>3, <1>4
<1> HIDE DEF w
<1>9. ASSUME p \in used \ dead PROVE Whole(w, min'[p], max'[p])
  <2>1. Ordered(s) /\ s # <<>> /\ max[p] = End(s[Len(s)])
    BY <1>9 DEF SoundInv, LiveLeavesSound, Sound
  <2>2. Ordered(w)
    BY <1>2, <1>6, <2>1, InsertKeepsOrder DEF Fits, w
  <2>3. w # <<>>
    BY <1>7
  <2>4. max'[p] = End(w[Len(w)])
    <3>1. CASE slot > Len(s)
      <4>1. slot = Len(w)
        BY <1>7, <3>1
      <4>2. QED
        BY <1>7, <1>8, <3>1, <4>1
    <3>2. CASE ~ (slot > Len(s))
      <4>1. w[Len(w)] = s[Len(s)]
        <5>1. Len(s) + 1 \in slot + 1..Len(s) + 1 /\ (Len(s) + 1) - 1 = Len(s)
          BY <1>7, <3>2
        <5>2. w[Len(s) + 1] = s[(Len(s) + 1) - 1]
          BY <1>7, <5>1
        <5>3. QED
          BY <1>7, <5>1, <5>2
      <4>2. QED
        BY <1>8, <2>1, <3>2, <4>1
    <3>3. QED
      BY <3>1, <3>2
  <2>5. QED
    BY <1>8, <2>2, <2>3, <2>4 DEF Whole
<1> HIDE DEF p
<1>10. QED
  BY <1>2, <1>3, <1>5, <1>8, <1>9, LeafChanged

\* The new leaf of a split takes over its part of the old one.
LEMMA SplitSound ==
  ASSUME SkiplistInv, SoundInv, NEW t \in Threads, Split(t)
  PROVE  SoundInv'
<1> DEFINE p == th[t].p
           slot == th[t].slot
           s == slots[p]
           r == Arg(t)
           moved == SplitMoves(s, slot, r)
           new == NewLeaf
<1>1. pc[t] = "split" /\ pc[t] \in PlacePcs
  BY DEF Split, PlacePcs
<1>2. /\ TypeInv /\ TypeOK /\ LinksInv /\ p \in Linked(0) /\ p \in Leaves /\ th[t] \in Locals
      /\ s \in Seq(Slot) /\ r \in Slot /\ PlaceInv(t)
      /\ slots \in [Leaves -> Seq(Ranges)] /\ min \in [Leaves -> Nat] /\ max \in [Leaves -> Nat]
      /\ th \in [Threads -> Locals] /\ pc \in [Threads -> Labels]
  BY <1>1, Placing DEF TypeInv, TypeOK
<1>3. Len(s) = Cap /\ p \notin dead /\ p \in used /\ Cap \in Nat /\ Cap >= 2
  BY <1>1, <1>2, LevelsDown, CapAssumption DEF PlaceInv, PlacePcs, LinksInv
<1>4. Fits(s, slot, r)
  BY <1>1 DEF SoundInv, FitInv, FitPcs
<1>5. Ordered(s) /\ max[p] = End(s[Len(s)])
  BY <1>3 DEF SoundInv, LiveLeavesSound, Sound
<1>6. /\ used # Leaves /\ used' = used \cup {new} /\ dead' = dead
      /\ slots' = [slots EXCEPT ![new] = moved]
      /\ min' = [min EXCEPT ![new] = moved[1].key]
      /\ max' = [max EXCEPT ![new] = IF slot > Len(s) THEN End(r) ELSE max[p]]
      /\ th' = [th EXCEPT ![t].new = new, ![t].i = 0] /\ pc' = [pc EXCEPT ![t] = "link"]
  BY DEF Split, TakePreloaded, Goto
<1>7. new \in Leaves \ used /\ new \notin dead
  BY <1>2, <1>6, NewLeafIs
<1> HIDE DEF moved, new
<1>8. /\ slots'[new] = moved /\ min'[new] = moved[1].key
      /\ max'[new] = IF slot > Len(s) THEN End(r) ELSE max[p]
      /\ \A m \in Leaves \ {new} : slots'[m] = slots[m] /\ min'[m] = min[m] /\ max'[m] = max[m]
  BY <1>2, <1>6, <1>7
<1>9. Others(t) /\ FitInv(t)'
  <2>1. th'[t].p = p /\ th'[t].slot = slot /\ Arg(t)' = r /\ Others(t)
    BY <1>2, <1>6 DEF Others, Arg, Locals
  <2>2. slots'[p] = s
    BY <1>2, <1>3, <1>7, <1>8
  <2>3. QED
    BY <1>4, <2>1, <2>2 DEF FitInv
<1>10. Whole(moved, min'[new], max'[new])
  <2>1. CASE slot > Len(s)
    <3>1. moved = <<r>>
      BY <2>1 DEF moved, SplitMoves
    <3>2. Len(moved) = 1 /\ moved[1] = r /\ moved # <<>>
      BY <3>1
    <3>3. Ordered(moved)
      BY <3>2 DEF Ordered
    <3>4. QED
      BY <1>8, <2>1, <3>2, <3>3 DEF Whole
  <2>2. CASE ~ (slot > Len(s))
    <3>1. /\ slot \in 1..Cap
          /\ \A i \in 1..slot - 1 : End(s[i]) <= r.key
          /\ \A i \in slot..Cap : End(r) <= s[i].key
      BY <1>3, <1>4, <2>2 DEF Fits
    <3>2. s \in Seq(Slot) /\ r \in Slot
      BY <1>2
    <3>3. moved # <<>> /\ Ordered(moved) /\ moved[Len(moved)] = s[Cap]
      <4> HIDE DEF s, r, slot
      <4>1. QED
        BY <1>3, <1>5, <3>1, <3>2, SplitMovesIs DEF moved
    <3>4. QED
      BY <1>3, <1>5, <1>8, <2>2, <3>3 DEF Whole
  <2>3. QED
    BY <2>1, <2>2
<1>11. used' \ dead' \subseteq (used \ dead) \cup {new}
  BY <1>6
<1>12. QED
  BY <1>7, <1>8, <1>9, <1>10, <1>11, LeafChanged

\* The first leaf of a list holds the one range.
LEMMA EmptyListSound ==
  ASSUME SkiplistInv, SoundInv, NEW t \in Threads, EmptyList(t)
  PROVE  SoundInv'
<1> DEFINE new == NewLeaf
           r == Arg(t)
<1>1. /\ TypeInv /\ TypeOK /\ LinksInv
      /\ slots \in [Leaves -> Seq(Ranges)] /\ min \in [Leaves -> Nat] /\ max \in [Leaves -> Nat]
      /\ th \in [Threads -> Locals] /\ pc \in [Threads -> Labels] /\ EmptyInv(t)
  BY Parts DEF TypeInv, TypeOK, ThreadInv
<1>2. /\ pc[t] = "empty" /\ used # Leaves /\ used' = used \cup {new} /\ dead' = dead
      /\ slots' = [slots EXCEPT ![new] = <<r>>]
      /\ min' = [min EXCEPT ![new] = th[t].key] /\ max' = [max EXCEPT ![new] = End(r)]
      /\ pc' = [pc EXCEPT ![t] = "link"]
  BY DEF EmptyList, TakePreloaded, Goto
<1>3. Others(t) /\ th'[t].p = HeadNode /\ pc'[t] = "link"
  BY <1>1, <1>2 DEF EmptyList, Others, EmptyInv, Locals
<1>4. new \in Leaves \ used
  BY <1>1, <1>2, NewLeafIs
<1> HIDE DEF new
<1>5. /\ slots'[new] = <<r>> /\ min'[new] = th[t].key /\ max'[new] = End(r)
      /\ \A m \in Leaves \ {new} : slots'[m] = slots[m] /\ min'[m] = min[m] /\ max'[m] = max[m]
  BY <1>1, <1>2, <1>4
<1>6. Whole(slots'[new], min'[new], max'[new])
  <2>1. Len(<<r>>) = 1 /\ <<r>>[1] = r /\ <<r>> # <<>> /\ r.key = th[t].key
    BY DEF Arg
  <2>2. Ordered(<<r>>)
    BY DEF Ordered
  <2> HIDE DEF r
  <2>3. QED
    BY <1>5, <2>1, <2>2 DEF Whole
<1>7. FitInv(t)'
  BY <1>3 DEF FitInv
<1>8. used' \ dead' \subseteq (used \ dead) \cup {new}
  BY <1>2
<1>9. QED
  BY <1>3, <1>4, <1>5, <1>6, <1>7, <1>8, LeafChanged

\* Linking does not look into the leaves.
LEMMA LinkSound ==
  ASSUME SkiplistInv, SoundInv, NEW t \in Threads, LinkRead(t) \/ LinkLock(t) \/ LinkBack(t)
  PROVE  SoundInv'
<1>1. /\ th \in [Threads -> Locals] /\ pc \in [Threads -> Labels] /\ FitInv(t)
  BY Parts DEF TypeInv, SoundInv
<1>2. UNCHANGED <<leaf, used, dead>> /\ slots' = slots
  BY DEF LinkRead, LinkLock, LinkBack, leaf
<1>3. \/ Others(t) /\ pc'[t] = "rest"
      \/ /\ Others(t) /\ pc[t] \in {"link", "linklock", "linkback"}
         /\ pc'[t] \in {"link", "linklock", "linkback", "shrink"}
         /\ th'[t].p = th[t].p /\ th'[t].slot = th[t].slot
         /\ th'[t].key = th[t].key /\ th'[t].size = th[t].size
  <2>1. CASE LinkRead(t)
    <3>1. /\ pc[t] = "link"
          /\ \E nx : th' = [th EXCEPT ![t].nx = nx]
          /\ Goto(t, "linkback") \/ Goto(t, "linklock")
      BY <2>1 DEF LinkRead, LinkForward
    <3>2. QED
      BY <1>1, <3>1 DEF Goto, Others, Locals
  <2>2. CASE LinkLock(t)
    <3>1. /\ pc[t] = "linklock"
          /\ th' = th \/ th' = [th EXCEPT ![t].nx = th[t].nx]
          /\ Goto(t, "linkback") \/ Goto(t, "link")
      BY <2>2 DEF LinkLock, LinkForward
    <3>2. QED
      BY <1>1, <3>1 DEF Goto, Others, Locals
  <2>3. CASE LinkBack(t)
    <3> DEFINE gone == {th[t].nx} \cup Held(t)
                       \cup (IF th[t].p # HeadNode THEN {th[t].new} ELSE {})
               up == [th EXCEPT ![t].i = th[t].i + 1, ![t].nx = NoNode]
               done == [th EXCEPT ![t].nx = NoNode]
    <3>1. /\ pc[t] = "linkback"
          /\ \/ Goto(t, "link") /\ th' = up
             \/ Goto(t, "shrink") /\ th' = done
             \/ Return(t, gone)
      BY <2>3 DEF LinkBack
    <3>2. CASE Return(t, gone)
      BY <1>1, <3>2 DEF Return, Goto, Others
    <3>3. CASE Goto(t, "link") /\ th' = up
      BY <1>1, <3>1, <3>3 DEF Goto, Others, Locals
    <3>4. CASE Goto(t, "shrink") /\ th' = done
      BY <1>1, <3>1, <3>4 DEF Goto, Others, Locals
    <3>5. QED
      BY <3>1, <3>2, <3>3, <3>4
  <2>4. QED
    BY <2>1, <2>2, <2>3
<1>4. FitInv(t)'
  BY <1>1, <1>2, <1>3 DEF FitInv, FitPcs, Arg
<1>5. QED
  BY <1>2, <1>3, <1>4, LeavesKept

\* What stays in the old leaf of a split keeps its order, and the place found is
\* still that of the range if the range is to go there.
LEMMA ShrinkSound ==
  ASSUME SkiplistInv, SoundInv, NEW t \in Threads, Shrink(t)
  PROVE  SoundInv'
<1> DEFINE p == th[t].p
           slot == th[t].slot
           s == slots[p]
           r == Arg(t)
           stays == SplitStays(s, slot)
<1>1. pc[t] = "shrink"
  BY DEF Shrink
<1>2. /\ TypeInv /\ TypeOK /\ LinksInv /\ LinkInv(t) /\ ArgInv(t)
  BY Parts DEF ThreadInv
<1>3. /\ p # HeadNode /\ p \in Linked(0) /\ Has(t, p)
      /\ Len(s) = Cap /\ slot \in 1..Cap
  BY <1>1, <1>2, CapAssumption DEF LinkInv
<1>4. p \in Leaves /\ lock[p] = t /\ p \notin dead /\ p \in used
  BY <1>2, <1>3, LevelsDown DEF Linked, Has, Holds, LinksInv
<1>5. /\ slots \in [Leaves -> Seq(Ranges)] /\ min \in [Leaves -> Nat] /\ max \in [Leaves -> Nat]
      /\ th \in [Threads -> Locals] /\ pc \in [Threads -> Labels]
  BY <1>2 DEF TypeInv, TypeOK
<1>6. /\ max' = [max EXCEPT ![p] = End(stays[Len(stays)])] /\ min' = min
      /\ slots' = [slots EXCEPT ![p] = stays] /\ used' = used /\ dead' = dead
      /\ \/ /\ SplitLeavesRoom(s, slot) /\ Goto(t, "store") /\ UNCHANGED th
         \/ Return(t, Held(t) \cup {th[t].new})
  BY DEF Shrink
<1>7. s \in Seq(Slot) /\ r \in Slot /\ Ordered(s) /\ min[p] = s[1].key
  <2>1. s \in Seq(Ranges)
    BY <1>4, <1>5
  <2>2. s \in Seq(Slot) /\ r \in Slot
    BY <1>1, <1>2, <2>1, RangesType DEF ArgInv
  <2>3. QED
    BY <1>4, <2>2 DEF SoundInv, LiveLeavesSound, Sound
<1>8. Fits(s, slot, r)
  BY <1>1, <1>3 DEF SoundInv, FitInv, FitPcs
<1>9. /\ Len(stays) = Mid /\ Ordered(stays) /\ \A j \in 1..Mid : stays[j] = s[j]
      /\ Mid \in 1..Cap
  <2>1. stays = SubSeq(s, 1, Mid)
    <3>1. ~ (slot > Len(s))
      BY <1>3
    <3>2. QED
      BY <3>1 DEF SplitStays
  <2>2. Mid \in 1..Len(s) /\ Mid \in 1..Cap
    BY <1>3, MidType, CapAssumption
  <2> HIDE DEF s, stays
  <2>3. QED
    BY <1>7, <2>1, <2>2, LowerIs
<1> HIDE DEF stays
<1>10. /\ slots'[p] = stays /\ min'[p] = min[p] /\ max'[p] = End(stays[Len(stays)])
       /\ \A m \in Leaves \ {p} : slots'[m] = slots[m] /\ min'[m] = min[m] /\ max'[m] = max[m]
  BY <1>4, <1>5, <1>6
<1>11. Whole(stays, min'[p], max'[p])
  <2>1. stays # <<>> /\ stays[1] = s[1]
    BY <1>9
  <2>2. QED
    BY <1>7, <1>9, <1>10, <2>1 DEF Whole
<1>12. Others(t)
  BY <1>5, <1>6 DEF Return, Goto, Others
<1>13. FitInv(t)'
  <2>1. CASE Return(t, Held(t) \cup {th[t].new})
    BY <1>5, <2>1 DEF Return, Goto, FitInv, FitPcs
  <2>2. CASE SplitLeavesRoom(s, slot) /\ Goto(t, "store") /\ UNCHANGED th
    <3>1. th'[t].p = p /\ th'[t].slot = slot /\ Arg(t)' = r
      BY <2>2 DEF Arg
    <3>2. slot \in 1..Mid /\ Mid \in Nat /\ Mid <= Len(s)
      BY <1>3, <1>9, <2>2 DEF SplitLeavesRoom
    <3>3. Fits(stays, slot, r)
      <4>1. slot \in 1..Len(stays) + 1
        BY <1>9, <3>2
      <4>2. ASSUME NEW i \in 1..slot - 1 PROVE End(stays[i]) <= r.key
        <5>1. i \in 1..Mid /\ stays[i] = s[i]
          BY <1>9, <3>2, <4>2
        <5>2. QED
          BY <1>8, <5>1 DEF Fits
      <4>3. ASSUME NEW i \in slot..Len(stays) PROVE End(r) <= stays[i].key
        <5>1. i \in slot..Len(s) /\ stays[i] = s[i]
          BY <1>9, <3>2, <4>3
        <5>2. QED
          BY <1>8, <5>1 DEF Fits
      <4>4. QED
        BY <4>1, <4>2, <4>3 DEF Fits
    <3>4. QED
      BY <1>10, <3>1, <3>3 DEF FitInv
  <2>3. QED
    BY <1>6, <2>1, <2>2
<1> HIDE DEF p
<1>14. QED
  BY <1>4, <1>6, <1>10, <1>11, <1>12, <1>13, LeafChanged

\* A deletion takes one range out of the leaf, which dies with its last one.
LEMMA GrabSound ==
  ASSUME SkiplistInv, SoundInv, NEW t \in Threads, Grab(t)
  PROVE  SoundInv'
<1> DEFINE n == th[t].leaf
           s == slots[n]
           hit == LeafSlotLocked(s, Arg(t))
           left == RemoveAt(s, hit.slot)
<1>1. pc[t] = "grab" /\ pc[t] \in SearchPcs /\ lock[n] = NoThread
  BY DEF Grab, SearchPcs
<1>2. TypeInv /\ TypeOK /\ LinksInv /\ ArgInv(t) /\ n \in Linked(0)
  BY <1>1, Parts, Searching DEF SearchInv
<1>3. n \in Leaves /\ n \in used
  BY <1>2, LevelsDown DEF Linked, LinksInv
<1>4. /\ slots \in [Leaves -> Seq(Ranges)] /\ min \in [Leaves -> Nat] /\ max \in [Leaves -> Nat]
      /\ th \in [Threads -> Locals] /\ pc \in [Threads -> Labels]
  BY <1>2 DEF TypeInv, TypeOK
<1>5. Arg(t) \in Slot /\ s \in Seq(Slot)
  <2>1. s \in Seq(Ranges)
    BY <1>3, <1>4
  <2>2. QED
    BY <1>1, <1>2, <2>1, RangesType DEF ArgInv
<1>6. hit.slot \in 1..Len(s) + 1 /\ (hit.found => hit.slot <= Len(s))
  BY <1>5, LeafSlotLockedType
<1> HIDE DEF hit
<1>7. CASE /\ UNCHANGED <<leaf, used, dead>>
           /\ \/ Goto(t, "top") /\ UNCHANGED th
              \/ Return(t, {})
  <2>1. Others(t) /\ FitInv(t)'
    BY <1>4, <1>7 DEF Return, Goto, Others, FitInv, FitPcs
  <2>2. QED
    BY <1>7, <2>1, LeavesKept
<1>8. CASE /\ n \notin dead /\ hit.found
           /\ slots' = [slots EXCEPT ![n] = left]
           /\ min' = [min EXCEPT ![n] = IF left = <<>> THEN @ ELSE left[1].key]
           /\ max' = [max EXCEPT ![n] =
                        IF left # <<>> /\ hit.slot > Len(left)
                        THEN End(left[Len(left)]) ELSE @]
           /\ used' = used
           /\ IF left = <<>>
              THEN /\ dead' = dead \cup {n}
                   /\ th' = [th EXCEPT ![t].i = height[n]]
                   /\ Goto(t, "erase")
              ELSE dead' = dead /\ Return(t, {})
  <2>1. Ordered(s) /\ max[n] = End(s[Len(s)])
    BY <1>3, <1>8 DEF SoundInv, LiveLeavesSound, Sound
  <2>2. hit.slot \in 1..Len(s) /\ Len(s) \in Nat
    BY <1>5, <1>6, <1>8
  <2>3. /\ left \in Seq(Slot) /\ Len(left) = Len(s) - 1 /\ Ordered(left)
        /\ \A j \in hit.slot..Len(s) - 1 : left[j] = s[j + 1]
    <3> HIDE DEF s
    <3>1. QED
      BY <1>5, <2>1, <2>2, RemoveAtIs, RemoveKeepsOrder
  <2> HIDE DEF left
  <2>4. /\ slots'[n] = left
        /\ min'[n] = IF left = <<>> THEN min[n] ELSE left[1].key
        /\ max'[n] = IF left # <<>> /\ hit.slot > Len(left) THEN End(left[Len(left)]) ELSE max[n]
        /\ \A m \in Leaves \ {n} : slots'[m] = slots[m] /\ min'[m] = min[m] /\ max'[m] = max[m]
    BY <1>3, <1>4, <1>8
  <2>5. ASSUME left # <<>> PROVE Whole(left, min'[n], max'[n])
    <3>1. CASE hit.slot > Len(left)
      BY <2>3, <2>4, <2>5, <3>1 DEF Whole
    <3>2. CASE ~ (hit.slot > Len(left))
      <4>1. left[Len(left)] = s[Len(s)]
        BY <2>2, <2>3, <3>2
      <4>2. QED
        BY <2>1, <2>3, <2>4, <2>5, <3>2, <4>1 DEF Whole
    <3>3. QED
      BY <3>1, <3>2
  <2>6. n \in used' \ dead' => Whole(slots'[n], min'[n], max'[n])
    BY <1>8, <2>4, <2>5
  <2>7. Others(t) /\ FitInv(t)'
    BY <1>4, <1>8 DEF Return, Goto, Others, FitInv, FitPcs
  <2>8. used' \ dead' \subseteq (used \ dead) \cup {n}
    BY <1>8
  <2> HIDE DEF n
  <2>9. QED
    BY <1>1, <1>3, <2>4, <2>6, <2>7, <2>8, LeafChanged
<1>9. QED
  BY <1>7, <1>8 DEF Grab, VerifyKeyInLeaf, hit, Unlocked, Private

\* There are no leaves at first.
LEMMA SoundInit == Init => SoundInv
BY DEF Init, SoundInv, LiveLeavesSound, FitInv, FitPcs

\* Every step keeps the leaves whole.
LEMMA SoundNext == SkiplistInv /\ SoundInv /\ [Next]_vars => SoundInv'
<1> SUFFICES ASSUME SkiplistInv, SoundInv, [Next]_vars PROVE SoundInv'
  OBVIOUS
<1>1. ASSUME NEW t \in Threads, Step(t) PROVE SoundInv'
  <2>1. CASE FindOrAdd(t) \/ Store(t) \/ Split(t) \/ EmptyList(t)
    BY <2>1, FindOrAddSound, StoreSound, SplitSound, EmptyListSound
  <2>2. CASE LinkRead(t) \/ LinkLock(t) \/ LinkBack(t) \/ Shrink(t) \/ Grab(t)
    BY <2>2, LinkSound, ShrinkSound, GrabSound
  <2>3. QED
    BY <1>1, <2>1, <2>2, SearchesKeep
<1>2. CASE UNCHANGED vars \/ Stopped
  BY <1>2 DEF Stopped, vars, leaf, SoundInv, LiveLeavesSound, Sound, FitInv, Arg
<1>3. QED
  BY <1>1, <1>2 DEF Next

\* The leaves of the list, locked or not, keep what the walks without locks
\* rely on: they are not empty, their ranges are in order and apart, and min and
\* max are those of their ranges, through every insertion, split and deletion.
THEOREM LeavesSound == Spec => []LiveLeavesSound
<1>1. SoundInv => LiveLeavesSound
  BY DEF SoundInv
<1>2. QED
  BY <1>1, SoundInit, SoundNext, AlwaysHolds, PTL DEF Spec

=============================================================================
