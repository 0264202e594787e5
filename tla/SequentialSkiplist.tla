-------------------------- MODULE SequentialSkiplist --------------------------
(***************************************************************************)
(* The sequential skip list of skiplist/src: whole operations of a single  *)
(* thread.  The ring of links of level i is the sequence levels[i] of the  *)
(* nodes between head[i] and head[i]; a walk goes down from a node to the  *)
(* same node one level below, as `pos--' does.                             *)
(***************************************************************************)
EXTENDS Integers, SequencesExt, FiniteSets

CONSTANTS Nodes,       \* the memory malloc() hands out
          HeadNode,    \* list->head
          Null,        \* the NULL sl_search() returns
          MaxLevel,    \* SL_MAXLEVEL
          Keys, Vals

ASSUME SequentialAssumption ==
  HeadNode \notin Nodes /\ Null \notin Vals /\ MaxLevel \in Nat \ {0} /\ Keys \subseteq Int

VARIABLES
  levels, level, size,   \* struct sl_list
  node,                  \* node[n]: key and val of an allocated node
  gone,                  \* sl_delete() has been called
  content,               \* history: what has been inserted and not erased
  dangling               \* history: nodes freed while they are linked

list == <<levels, level, size>>
vars == <<list, node, gone, content, dangling>>

\* malloc() takes any node that is not in use.
Used == DOMAIN node
Levels == 0..MaxLevel - 1

\* sl_list_alloc()
Init ==
  /\ levels = [i \in Levels |-> <<>>]
  /\ level = 0 /\ size = 0
  /\ node = <<>>
  /\ gone = FALSE
  /\ content = <<>>
  /\ dangling = {}

\* Where p lies in the ring of level i: the head comes before all nodes.
Place(p, i) ==
  IF p = HeadNode THEN 0 ELSE CHOOSE j \in DOMAIN levels[i] : levels[i][j] = p

\* list_for_each_from() behind p on level i: it stops at the first key that is
\* not below, the head included.
Stop(p, i, key) ==
  LET ends == {j \in Place(p, i) + 1..Len(levels[i]) : node[levels[i][j]].key >= key}
  IN  Min(ends \cup {Len(levels[i]) + 1})

Hit(p, i, key) ==
  Stop(p, i, key) <= Len(levels[i]) /\ node[levels[i][Stop(p, i, key)]].key = key

\* Seeded defect: one level down from the node the walk has stopped at.
PredStopped(p, i, key) ==
  IF Stop(p, i, key) <= Len(levels[i]) THEN levels[i][Stop(p, i, key)] ELSE p

\* The place the walk leaves level i at: `pos->prev'.
Pred(p, i, key) ==
  IF Stop(p, i, key) = 1 THEN HeadNode ELSE levels[i][Stop(p, i, key) - 1]

\* Where a walk that starts at head[top] comes into each level, and the level
\* it meets the key on, or -1.
Entry(top, key) ==
  LET entry[i \in 0..top] == IF i = top THEN HeadNode ELSE Pred(entry[i + 1], i + 1, key)
  IN  entry

Meets(top, key) ==
  LET met == {i \in 0..top : Hit(Entry(top, key)[i], i, key)}
  IN  IF met = {} THEN -1 ELSE Max(met)

Met(top, key) ==
  LET i == Meets(top, key)
  IN  levels[i][Stop(Entry(top, key)[i], i, key)]

\* sl_search()
Search(key) == IF Meets(level, key) < 0 THEN Null ELSE node[Met(level, key)].val

\* list_add() behind p.
Linked(i, new, p) == InsertAt(levels[i], Place(p, i) + 1, new)

\* list_del()
Unlinked(i, old) == RemoveAt(levels[i], Place(old, i))

\* Seeded defect: by one at most, like the concurrent list.
RaisedByOne(top) == IF top > level THEN level + 1 ELSE level

Raised(top) == IF top > level THEN top ELSE level

\* sl_insert() with a level from random_level().  The list's level is raised
\* first; a key met on a lower level ends it when the node is already linked on
\* the levels above.
Insert(key, val, top) ==
  LET new == CHOOSE n \in Nodes : n \notin Used
      met == Meets(top, key)
      pred == [i \in 0..top |-> Pred(Entry(top, key)[i], i, key)]
  IN  /\ ~ gone /\ dangling = {} /\ Used # Nodes
      /\ level' = Raised(top)
      /\ levels' = [i \in Levels |->
           IF i \in (met + 1)..top THEN Linked(i, new, pred[i]) ELSE levels[i]]
      /\ IF met < 0
         THEN /\ size' = size + 1
              /\ node' = [n \in Used \cup {new} |->
                            IF n = new THEN [key |-> key, val |-> val] ELSE node[n]]
              /\ content' = [k \in DOMAIN content \cup {key} |->
                               IF k = key THEN val ELSE content[k]]
              /\ UNCHANGED dangling
         ELSE /\ dangling' = IF met < top THEN {new} ELSE {}
              /\ UNCHANGED <<size, node, content>>
      /\ UNCHANGED gone

\* sl_erase(): every level left empty lowers the list's level.
Erase(key) ==
  LET met == Meets(level, key)
      old == Met(level, key)
  IN  /\ ~ gone /\ dangling = {}
      /\ met >= 0
      /\ levels' = [i \in Levels |->
           IF i \in 0..met THEN Unlinked(i, old) ELSE levels[i]]
      /\ level' = level - Cardinality({i \in 0..met : levels'[i] = <<>>})
      /\ size' = size - 1
      /\ node' = [n \in Used \ {old} |-> node[n]]
      /\ dangling' = {n \in {old} : \E i \in Levels : n \in ToSet(levels'[i])}
      /\ content' = [k \in DOMAIN content \ {key} |-> content[k]]
      /\ UNCHANGED gone

\* sl_delete(): the nodes of level 0 are freed.
Delete ==
  /\ ~ gone /\ dangling = {}
  /\ gone' = TRUE
  /\ node' = [n \in Used \ ToSet(levels[0]) |-> node[n]]
  /\ content' = <<>>
  /\ UNCHANGED <<list, dangling>>

\* Behaviour with a freed node in the list is undefined: nothing is said of it.
Stopped == (gone \/ dangling # {}) /\ UNCHANGED vars

Next ==
  \/ \E key \in Keys, val \in Vals, top \in Levels : Insert(key, val, top)
  \/ \E key \in Keys : Erase(key)
  \/ Delete
  \/ Stopped

Spec == Init /\ [][Next]_vars
-----------------------------------------------------------------------------
(* Properties *)

\* A search finds what has been inserted and not erased, and nothing else,
\* whatever levels were drawn and however list->level has gone up and down; and
\* size counts it.  sl_delete() leaves no node behind.
SearchIsRight ==
  dangling = {} =>
    /\ gone => Used = {}
    /\ ~ gone => /\ \A key \in Keys : Search(key) =
                      IF key \in DOMAIN content THEN content[key] ELSE Null
                 /\ size = Cardinality(DOMAIN content)

\* A node is freed while it is linked only by an insertion of a key that is
\* there already, on fewer levels than the new node was to have.
DanglesOnlyOnRefusal ==
  [][dangling' # {} => \E i \in Levels \ {0} :
       /\ content' = content
       /\ dangling' \subseteq ToSet(levels'[i])
       /\ \E n \in Used : n \in ToSet(levels[0]) \ ToSet(levels[i])]_vars

=============================================================================
