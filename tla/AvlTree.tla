------------------------------- MODULE AvlTree -------------------------------
(***************************************************************************)
(* AvlTree (free-tree/avl-tree.hpp) over AvlNode (free-tree/avl-node.hpp): *)
(* the linked structure, with every pointer and depth the code writes.     *)
(*                                                                         *)
(* The memory of a node is named for the value it is to hold, since it     *)
(* does not matter which memory the allocator gives; nodes of equal value  *)
(* are a value that occurs more than once.  What the code does on the left *)
(* and on the right in the same way is one operator of a side.  An Add     *)
(* whose allocation fails, and a search that does not remove, change       *)
(* nothing and are no step.                                                *)
(***************************************************************************)
EXTENDS Integers, Sequences, FiniteSets

CONSTANTS
    Nodes,      \* memory for nodes, positive integers
    ValueOf,    \* the value each of them is to hold
    Probes      \* values the client searches from

\* Memory is finite and not at address 0; a value is anything with an order.
ASSUME TreeAssumption ==
    /\ IsFiniteSet(Nodes) /\ Nodes \subseteq Nat \ {0}
    /\ ValueOf \in [Nodes -> Int]
    /\ Probes \subseteq Int

VARIABLES
    tree,       \* root, and the fields of every node
    lent        \* nodes that the allocator has given and not got back

vars == <<tree, lent>>

Null == 0

\* What the link fields of memory hold that is not a node.
Freed == -1

Sides == {"left", "right"}

Other(side) == IF side = "left" THEN "right" ELSE "left"

Values == {ValueOf[n] : n \in Nodes}

Filled(x) == [n \in Nodes |-> x]

Init ==
    /\ tree = [root |-> Null, left |-> Filled(Freed), right |-> Filled(Freed),
               parent |-> Filled(Freed), depth |-> Filled(Freed), sound |-> TRUE]
    /\ lent = {}

\* An assertion: tree.sound is FALSE from its failure on.
Asserted(t, condition) == [t EXCEPT !.sound = @ /\ condition]

-----------------------------------------------------------------------------
(* AvlNode.                                                                *)

\* GetLeftDepth and GetRightDepth.
SideDepth(t, n, side) == IF t[side][n] = Null THEN 0 ELSE t.depth[t[side][n]] + 1

IsHeavy(t, n, side) == SideDepth(t, n, Other(side)) < SideDepth(t, n, side)

LongerSide(t, n) ==
    LET left == SideDepth(t, n, "left")
        right == SideDepth(t, n, "right")
    IN  IF left > right THEN left ELSE right

RecomputeDepth(t, n) == [t EXCEPT !.depth[n] = LongerSide(t, n)]

SetParent(t, n, parent) == IF n = Null THEN t ELSE [t EXCEPT !.parent[n] = parent]

\* RotateLeft for the right side and RotateRight for the left: the child on
\* that side takes the place of its parent.
Rotate(t, n, side) ==
    LET child == t[side][n]
        inner == t[Other(side)][child]
        linked == [t EXCEPT !.parent[child] = t.parent[n],
                            !.parent[n] = child,
                            ![side][n] = inner,
                            ![Other(side)][child] = n]
    IN  RecomputeDepth(RecomputeDepth(SetParent(linked, inner, n), n), child)

\* Mutant of Straighten: a child that is heavy on its inner side stays so.
StraightenNot(t, n, side) == t

\* The first rotation of two, which must not change the depth of the node.
Straighten(t, n, side) ==
    LET child == t[side][n]
        rotated == [Rotate(t, child, Other(side))
                        EXCEPT ![side][n] = t[Other(side)][child]]
    IN  IF IsHeavy(t, child, Other(side))
        THEN Asserted(rotated, RecomputeDepth(rotated, n) = rotated)
        ELSE t

\* AvlNode::Rebalance, and the node that takes the place of n.
RebalanceNode(t, n) ==
    LET imbalance == SideDepth(t, n, "left") - SideDepth(t, n, "right")
        side == IF imbalance < 0 THEN "right" ELSE "left"
        straight == Straighten(t, n, side)
    IN  IF imbalance \in -1..1
        THEN [tree |-> t, top |-> n]
        ELSE [tree |-> Rotate(Asserted(straight, imbalance \in {-2, 2}), n, side),
              top |-> straight[side][n]]

-----------------------------------------------------------------------------
(* AvlTree.                                                                *)

\* NodeParentSlot: the field that points to a node.
Slot(t, n) ==
    LET parent == t.parent[n]
    IN  [owner |-> parent,
         side |-> IF parent # Null /\ n = t.right[parent] THEN "right" ELSE "left"]

Fill(t, slot, n) ==
    IF slot.owner = Null THEN [t EXCEPT !.root = n]
    ELSE [t EXCEPT ![slot.side][slot.owner] = n]

\* A node takes the place of another under its parent.
Replace(t, slot, n) == SetParent(Fill(t, slot, n), n, slot.owner)

\* The loop in Rebalance, once around: the tree it makes of s.tree at s.at, and
\* the node it goes on with, which is Null when it has ended.
Ascend(s) ==
    LET balanced == RebalanceNode(RecomputeDepth(s.tree, s.at), s.at)
        done == Fill(balanced.tree, Slot(s.tree, s.at), balanced.top)
    IN  IF s.at = Null THEN s
        ELSE [tree |-> done,
              at |-> IF done.depth[balanced.top] = s.tree.depth[s.at] THEN Null
                     ELSE s.tree.parent[s.at]]

\* Rebalance: once around for each node at most.
Rebalance(t, n) ==
    LET round[i \in 0..Cardinality(Nodes)] ==
            IF i = 0 THEN [tree |-> t, at |-> n] ELSE Ascend(round[i - 1])
    IN  round[Cardinality(Nodes)].tree

\* Where Add hangs a value below n: equal ones go to the left.
LeafSlot(t, v, n) ==
    LET side(m) == IF v > ValueOf[m] THEN "right" ELSE "left"
        from[m \in lent] ==
            IF t[side(m)][m] = Null THEN [owner |-> m, side |-> side(m)]
            ELSE from[t[side(m)][m]]
    IN  from[n]

AllocNode(t, n) ==
    [t EXCEPT !.left[n] = Null, !.right[n] = Null, !.parent[n] = Null, !.depth[n] = 0]

DeallocNode(t, n) ==
    [t EXCEPT !.left[n] = Freed, !.right[n] = Freed, !.parent[n] = Freed,
              !.depth[n] = Freed]

Add(n) ==
    LET t == AllocNode(tree, n)
        slot == LeafSlot(t, ValueOf[n], t.root)
    IN  /\ n \notin lent
        /\ lent' = lent \cup {n}
        /\ tree' = IF t.root = Null THEN [t EXCEPT !.root = n]
                   ELSE Rebalance(Replace(t, slot, n), slot.owner)

-----------------------------------------------------------------------------
(* Removal.                                                                *)

Rightmost(t, n) ==
    LET from[m \in lent] == IF t.right[m] = Null THEN m ELSE from[t.right[m]]
    IN  from[n]

IsLeaf(t, n) == t.left[n] = Null /\ t.right[n] = Null

\* Mutant of TakeOver: the right subtree keeps its parent.
TakeOverLeft(t, n, p) ==
    LET t2 == [Replace(t, Slot(t, n), p)
                   EXCEPT !.left[p] = t.left[n], !.right[p] = t.right[n],
                          !.depth[p] = t.depth[n]]
    IN  SetParent(t2, t.left[n], p)

\* The predecessor p of n, out of its own place, takes that of n.
TakeOver(t, n, p) ==
    LET t2 == [Replace(t, Slot(t, n), p)
                   EXCEPT !.left[p] = t.left[n], !.right[p] = t.right[n],
                          !.depth[p] = t.depth[n]]
    IN  SetParent(SetParent(t2, t.right[n], p), t.left[n], p)

\* Mutant of RemoveInner: what hangs below the predecessor is not hung in its
\* place.
RemoveInnerShort(t, n) ==
    LET p == Rightmost(t, t.left[n])
        without == Replace(t, Slot(t, p), Null)
    IN  Rebalance(TakeOver(without, n, p),
                  IF t.parent[p] = n THEN p ELSE t.parent[p])

\* A node with two children: its in-order predecessor replaces it.
RemoveInner(t, n) ==
    LET p == Rightmost(t, t.left[n])
        child == t.left[p]
        without == Asserted(Replace(t, Slot(t, p), child),
                            child # Null => IsLeaf(t, child))
    IN  Rebalance(TakeOver(without, n, p),
                  IF t.parent[p] = n THEN p ELSE t.parent[p])

RemoveNode(t, n) ==
    DeallocNode(
        IF Null \notin {t.left[n], t.right[n]}
        THEN RemoveInner(t, n)
        ELSE Rebalance(Replace(t, Slot(t, n),
                               IF t.left[n] = Null THEN t.right[n] ELSE t.left[n]),
                       t.parent[n]),
        n)

\* What becomes of the node that a search with remove = true has found.
Take(n) ==
    /\ n # Null
    /\ tree' = RemoveNode(tree, n)
    /\ lent' = lent \ {n}

-----------------------------------------------------------------------------
(* The searches.  They return a node, or Null.                             *)

\* Mutant of SearchAbove: what is found on the left of an answer is not used.
SearchAboveFirst(n, v, allowEqual) ==
    LET from[m \in lent \cup {Null}] ==
            IF m = Null THEN Null
            ELSE IF ValueOf[m] < v \/ (~ allowEqual /\ ValueOf[m] = v)
                 THEN from[tree.right[m]]
                 ELSE m
    IN  from[n]

\* RecursivelySearchAbove.
SearchAbove(n, v, allowEqual) ==
    LET from[m \in lent \cup {Null}] ==
            IF m = Null THEN Null
            ELSE IF ValueOf[m] < v \/ (~ allowEqual /\ ValueOf[m] = v)
                 THEN from[tree.right[m]]
            ELSE IF allowEqual /\ ValueOf[m] = v THEN m
            ELSE LET lower == from[tree.left[m]]
                 IN  IF lower # Null THEN lower ELSE m
    IN  from[n]

\* RecursivelySearchBelow.
SearchBelow(n, v, allowEqual) ==
    LET from[m \in lent \cup {Null}] ==
            IF m = Null THEN Null
            ELSE IF ValueOf[m] > v \/ (~ allowEqual /\ ValueOf[m] = v)
                 THEN from[tree.left[m]]
            ELSE IF allowEqual /\ ValueOf[m] = v THEN m
            ELSE LET higher == from[tree.right[m]]
                 IN  IF higher # Null THEN higher ELSE m
    IN  from[n]

\* Search, for a Query that is content with the values in lo..hi; FindEqual is
\* the search of one value.
SearchNode(n, lo, hi) ==
    LET from[m \in lent \cup {Null}] ==
            IF m = Null THEN Null
            ELSE IF ValueOf[m] \in lo..hi THEN m
            ELSE from[IF ValueOf[m] > hi THEN tree.left[m] ELSE tree.right[m]]
    IN  from[n]

FindEqual(v) == SearchNode(tree.root, v, v)

\* EnumerateFromNode, with a callback that returns false at the value last: what
\* the callback has seen in the end.
Enumerate(n, last) ==
    LET stopped(s) == s # <<>> /\ s[Len(s)] = last
        from[m \in lent \cup {Null}] ==
            [seen \in Seq(Values) |->
                LET before == from[tree.left[m]][seen]
                    here == Append(before, ValueOf[m])
                IN  IF m = Null \/ stopped(seen) THEN seen
                    ELSE IF stopped(before) THEN before
                    ELSE IF stopped(here) THEN here
                    ELSE from[tree.right[m]][here]]
    IN  from[n][<<>>]

FindGT(v) == Take(SearchAbove(tree.root, v, FALSE))
FindGE(v) == Take(SearchAbove(tree.root, v, TRUE))
FindLT(v) == Take(SearchBelow(tree.root, v, FALSE))
FindLE(v) == Take(SearchBelow(tree.root, v, TRUE))
Search(lo, hi) == Take(SearchNode(tree.root, lo, hi))
RemoveValue(v) == Take(FindEqual(v))

-----------------------------------------------------------------------------
Below(n) ==
    LET from[m \in lent \cup {Null}] ==
            IF m = Null THEN {}
            ELSE {m} \cup from[tree.left[m]] \cup from[tree.right[m]]
    IN  from[n]

\* Clear, and the destructor, free what they find from the root on.
Clear ==
    LET gone == Below(tree.root)
        kept(field) == [n \in Nodes |-> IF n \in gone THEN Freed ELSE field[n]]
    IN  /\ tree.root # Null
        /\ lent' = lent \ gone
        /\ tree' = [tree EXCEPT !.root = Null,
                                !.left = kept(@), !.right = kept(@),
                                !.parent = kept(@), !.depth = kept(@)]

Next ==
    \/ \E n \in Nodes : Add(n)
    \/ \E v \in Values : RemoveValue(v)
    \/ \E v \in Probes : FindGT(v) \/ FindGE(v) \/ FindLT(v) \/ FindLE(v)
    \/ \E lo, hi \in Probes : lo < hi /\ Search(lo, hi)
    \/ Clear

Spec == Init /\ [][Next]_vars

-----------------------------------------------------------------------------
\* Every link of a node in use leads to one in use or nowhere: none is left
\* behind to memory that was freed.
TypeOK ==
    /\ lent \subseteq Nodes
    /\ tree.root \in lent \cup {Null}
    /\ \A n \in lent :
        /\ {tree.left[n], tree.right[n], tree.parent[n]} \subseteq lent \cup {Null}
        /\ tree.depth[n] \in 0..Cardinality(Nodes)
    /\ \A n \in Nodes \ lent :
        {tree.left[n], tree.right[n], tree.parent[n], tree.depth[n]} = {Freed}

\* No node is lost, parents and children agree, depths are exact, and no two
\* subtrees of a node differ in depth by more than one, although rebalancing
\* stops at the first ancestor that keeps its depth; and no assertion on the
\* way has failed.
Balanced ==
    /\ tree.sound
    /\ tree.root # Null => tree.parent[tree.root] = Null
    /\ Below(tree.root) = lent
    /\ \A n \in lent :
        /\ \A side \in Sides :
                tree[side][n] # Null => tree.parent[tree[side][n]] = n
        /\ tree.depth[n] = LongerSide(tree, n)
        /\ SideDepth(tree, n, "left") - SideDepth(tree, n, "right") \in -1..1

\* What the tree contains is what its links reach.
Reached == Below(tree.root)

Contract == INSTANCE DynamicTree WITH Entries <- Nodes, contents <- Reached

Found(n) == IF n = Null THEN {} ELSE {ValueOf[n]}

\* Every search finds what DynamicTree promises, and enumeration visits every
\* node up to the one it stops at, in order: for values that occur more than
\* once too, which rotations may have put on either side of each other.
SearchExact ==
    /\ \A v \in Values :
        /\ Found(SearchAbove(tree.root, v, FALSE)) = Contract!FoundGT(v)
        /\ Found(SearchAbove(tree.root, v, TRUE)) = Contract!FoundGE(v)
        /\ Found(SearchBelow(tree.root, v, FALSE)) = Contract!FoundLT(v)
        /\ Found(SearchBelow(tree.root, v, TRUE)) = Contract!FoundLE(v)
        /\ Found(FindEqual(v)) = {v} \cap Contract!Present
    /\ \A lo, hi \in Probes :
        LET n == SearchNode(tree.root, lo, hi)
        IN  IF n = Null THEN lo..hi \cap Contract!Present = {}
            ELSE ValueOf[n] \in lo..hi
    /\ \A last \in Probes \cup {Freed} :
        LET seen == Enumerate(tree.root, last)
        IN  /\ \A i \in 1..(Len(seen) - 1) : seen[i] <= seen[i + 1] /\ seen[i] # last
            /\ Len(seen) = IF last \in Contract!Present
                           THEN Cardinality({n \in lent : ValueOf[n] < last}) + 1
                           ELSE Cardinality(lent)

\* Add adds one occurrence of a value, a removal takes away one, and Clear
\* leaves none, among the values that a walk from the root meets: none drops
\* out with the one that is removed, and none is met again.
DynamicTreeContract == Contract!Spec
===============================================================================
