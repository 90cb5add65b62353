--------------------------- MODULE StructureProofs ---------------------------
(***************************************************************************)
(* Proofs about the two structures that allocators are built from.         *)
(*                                                                         *)
(* AvlTree, for any memory and any values.  The inductive invariant says   *)
(* that there is a function sub, of what is below each node, with which    *)
(* the tree is linked, ordered, level and clean of old links.  Every       *)
(* operation is described by what it writes (fields), then by what it does *)
(* to sub (shape), then by what it leaves out of balance (depths); and     *)
(* Rebalance by the one node that may be, which climbs to the root.  What  *)
(* the recursive functions return is shown by induction on the number of   *)
(* nodes below a node.                                                     *)
(*                                                                         *)
(* BufferedStack, for any capacity, soft bounds and number of objects: at  *)
(* the end of the module.                                                  *)
(***************************************************************************)
EXTENDS AvlTree, BufferedStack, FiniteSetTheorems, SequenceTheorems, TLAPS

-----------------------------------------------------------------------------
(* The memory.                                                             *)


\* What a link field may hold.
Link == Nodes \cup {Null, Freed}

\* What the tree may be, however its nodes are linked.
Trees == [root : Link, left : [Nodes -> Link], right : [Nodes -> Link],
          parent : [Nodes -> Link], depth : [Nodes -> Int], sound : BOOLEAN]

\* No node is at an address that means something else.
LEMMA ConstantFacts ==
    /\ Null \notin Nodes /\ Freed \notin Nodes /\ Null # Freed
    /\ IsFiniteSet(Nodes)
    /\ Cardinality(Nodes) \in Nat
    /\ \A n \in Nodes : ValueOf[n] \in Int
    /\ \A n \in Nodes : ValueOf[n] \in Values
    /\ Values \subseteq Int
<1>1. IsFiniteSet(Nodes)
  BY TreeAssumption
<1>2. Cardinality(Nodes) \in Nat
  BY <1>1, FS_CardinalityType
<1> QED
  BY <1>1, <1>2, TreeAssumption DEF Null, Freed, Values

\* There are two sides, each the other of the other.
LEMMA SideFacts ==
    /\ \A side \in Sides : Other(side) \in Sides /\ Other(side) # side
                           /\ Other(Other(side)) = side
    /\ \A s, side \in Sides : s = side \/ s = Other(side)
    /\ "left" \in Sides /\ "right" \in Sides
    /\ Other("left") = "right" /\ Other("right") = "left"
BY DEF Sides, Other

-----------------------------------------------------------------------------
(* What the code writes.                                                   *)

\* The fields of a tree.
LEMMA TreeFields ==
    ASSUME NEW t \in Trees
    PROVE  /\ t.root \in Link /\ t.sound \in BOOLEAN
           /\ \A n \in Nodes : t.parent[n] \in Link /\ t.depth[n] \in Int
           /\ \A side \in Sides, n \in Nodes : t[side][n] \in Link
           /\ \A n \in Nodes : t.left[n] \in Link /\ t.right[n] \in Link
           /\ t.left = t["left"] /\ t.right = t["right"]
BY DEF Trees, Sides

\* An assertion changes nothing but sound.
IsAsserted(t, u, c) ==
    /\ u \in Trees
    /\ u.root = t.root /\ u.parent = t.parent /\ u.depth = t.depth
    /\ \A side \in Sides : u[side] = t[side]
    /\ u.sound = (t.sound /\ c)

\* An assertion writes nothing but whether one has failed.
LEMMA AssertedFields ==
    ASSUME NEW t \in Trees, NEW c \in BOOLEAN
    PROVE  IsAsserted(t, Asserted(t, c), c)
BY DEF Trees, Sides, Asserted, IsAsserted

\* The field a slot stands for is overwritten.
IsFilled(t, u, p, s, n) ==
    /\ u \in Trees
    /\ u.parent = t.parent /\ u.depth = t.depth /\ u.sound = t.sound
    /\ u.root = IF p = Null THEN n ELSE t.root
    /\ \A side \in Sides, m \in Nodes :
            u[side][m] = IF m = p /\ side = s THEN n ELSE t[side][m]

\* Fill writes the one field that a slot is.
LEMMA FillFields ==
    ASSUME NEW t \in Trees, NEW p \in Nodes \cup {Null}, NEW s \in Sides,
           NEW n \in Link
    PROVE  IsFilled(t, Fill(t, [owner |-> p, side |-> s], n), p, s, n)
BY ConstantFacts DEF Trees, Sides, Fill, IsFilled

\* The parent of a node, if there is a node, is overwritten.
IsAdopted(t, u, n, p) ==
    /\ u \in Trees
    /\ u.root = t.root /\ u.depth = t.depth /\ u.sound = t.sound
    /\ \A side \in Sides : u[side] = t[side]
    /\ \A m \in Nodes : u.parent[m] = IF m = n THEN p ELSE t.parent[m]

\* SetParent writes the parent of a node, if it is one.
LEMMA SetParentFields ==
    ASSUME NEW t \in Trees, NEW n \in Nodes \cup {Null}, NEW p \in Link
    PROVE  IsAdopted(t, SetParent(t, n, p), n, p)
BY ConstantFacts DEF Trees, Sides, SetParent, IsAdopted

\* The depth of a node is computed again.
IsRecomputed(t, u, n) ==
    /\ u \in Trees
    /\ u.root = t.root /\ u.parent = t.parent /\ u.sound = t.sound
    /\ \A side \in Sides : u[side] = t[side]
    /\ \A m \in Nodes : u.depth[m] = IF m = n THEN LongerSide(t, n) ELSE t.depth[m]

\* RecomputeDepth writes the depth of one node.
LEMMA RecomputeFields ==
    ASSUME NEW t \in Trees, NEW n \in Nodes, LongerSide(t, n) \in Int
    PROVE  IsRecomputed(t, RecomputeDepth(t, n), n)
BY DEF Trees, Sides, RecomputeDepth, IsRecomputed

\* The depth below a node, whichever side is named first.
Higher(a, b) == IF a > b THEN a ELSE b

\* LongerSide is the depth of the deeper of two sides, whichever is named first.
LEMMA LongerSideIs ==
    ASSUME NEW t, NEW n, NEW side \in Sides,
           \A s \in Sides : SideDepth(t, n, s) \in Int
    PROVE  /\ LongerSide(t, n) = Higher(SideDepth(t, n, side), SideDepth(t, n, Other(side)))
           /\ LongerSide(t, n) \in Int
BY DEF Sides, Other, LongerSide, Higher

\* The depth of a side is a number.
LEMMA SideDepthType ==
    ASSUME NEW t \in Trees, NEW n \in Nodes, NEW side \in Sides,
           t[side][n] \in Nodes \cup {Null}
    PROVE  SideDepth(t, n, side) \in Int
BY TreeFields DEF SideDepth

\* What a rotation makes of the fields.
IsRotated(t, u, n, child, inner, side) ==
    /\ u \in Trees
    /\ u.root = t.root /\ u.sound = t.sound
    /\ \A m \in Nodes : u.parent[m] = IF m = inner THEN n
                                      ELSE IF m = n THEN child
                                      ELSE IF m = child THEN t.parent[n]
                                      ELSE t.parent[m]
    /\ \A s \in Sides, m \in Nodes :
            u[s][m] = IF m = n /\ s = side THEN inner
                      ELSE IF m = child /\ s = Other(side) THEN n
                      ELSE t[s][m]
    /\ \A m \in Nodes \ {n, child} : u.depth[m] = t.depth[m]
    /\ u.depth[n] = Higher(SideDepth(t, n, Other(side)),
                           SideDepth(t, child, Other(side)))
    /\ u.depth[child] = Higher(u.depth[n] + 1, SideDepth(t, child, side))

\* It does so where the node and the child are in different places and the links
\* of both lead somewhere.
LEMMA RotateFields ==
    ASSUME NEW t \in Trees, NEW n \in Nodes, NEW side \in Sides,
           NEW child \in Nodes, child = t[side][n], child # n,
           NEW inner \in Nodes \cup {Null}, inner = t[Other(side)][child],
           inner # n, inner # child,
           t[Other(side)][n] \in Nodes \cup {Null}, t[Other(side)][n] # n,
           t[Other(side)][n] # child,
           t[side][child] \in Nodes \cup {Null}, t[side][child] # n,
           t[side][child] # child
    PROVE  IsRotated(t, Rotate(t, n, side), n, child, inner, side)
<1> DEFINE u == Rotate(t, n, side)
           linked == [t EXCEPT !.parent[child] = t.parent[n],
                               !.parent[n] = child,
                               ![side][n] = inner,
                               ![Other(side)][child] = n]
           placed == SetParent(linked, inner, n)
           first == RecomputeDepth(placed, n)
<1>1. u = RecomputeDepth(first, child)
  BY DEF Rotate
<1> HIDE DEF u
<1>2. /\ linked \in Trees
      /\ linked.root = t.root /\ linked.depth = t.depth /\ linked.sound = t.sound
      /\ \A m \in Nodes : linked.parent[m] = IF m = n THEN child
                                             ELSE IF m = child THEN t.parent[n]
                                             ELSE t.parent[m]
      /\ \A s \in Sides, m \in Nodes :
            linked[s][m] = IF m = n /\ s = side THEN inner
                           ELSE IF m = child /\ s = Other(side) THEN n
                           ELSE t[s][m]
  <2>1. /\ linked \in Trees
        /\ linked.root = t.root /\ linked.depth = t.depth /\ linked.sound = t.sound
    BY ConstantFacts DEF Trees, Sides, Other, Link
  <2>2. \A m \in Nodes : linked.parent[m] = IF m = n THEN child
                                            ELSE IF m = child THEN t.parent[n]
                                            ELSE t.parent[m]
    BY ConstantFacts DEF Trees, Sides, Other, Link
  <2>3. ASSUME NEW m \in Nodes
        PROVE  /\ linked.left[m] = IF m = n /\ "left" = side THEN inner
                                   ELSE IF m = child /\ "left" = Other(side) THEN n
                                   ELSE t.left[m]
               /\ linked.right[m] = IF m = n /\ "right" = side THEN inner
                                    ELSE IF m = child /\ "right" = Other(side) THEN n
                                    ELSE t.right[m]
    <3>1. CASE side = "left"
      BY <2>3, <3>1 DEF Trees, Sides, Other, Link
    <3>2. CASE side = "right"
      BY <2>3, <3>2 DEF Trees, Sides, Other, Link
    <3> QED
      BY <3>1, <3>2 DEF Sides
  <2> HIDE DEF linked
  <2> QED
    BY <2>1, <2>2, <2>3 DEF Sides
<1> HIDE DEF linked
<1>3. /\ placed \in Trees
      /\ placed.root = t.root /\ placed.depth = t.depth /\ placed.sound = t.sound
      /\ \A s \in Sides : placed[s] = linked[s]
      /\ \A m \in Nodes : placed.parent[m] = IF m = inner THEN n ELSE linked.parent[m]
  <2>1. IsAdopted(linked, placed, inner, n)
    BY <1>2, SetParentFields DEF Link
  <2> QED
    BY <1>2, <2>1 DEF IsAdopted
<1> HIDE DEF placed
<1>4. /\ Other(side) \in Sides /\ Other(side) # side /\ Other(Other(side)) = side
      /\ \A s \in Sides : s = side \/ s = Other(side)
  BY SideFacts
<1>5. /\ placed[side][n] = inner /\ placed[Other(side)][n] = t[Other(side)][n]
      /\ placed[Other(side)][child] = n /\ placed[side][child] = t[side][child]
  BY <1>2, <1>3, <1>4
<1>6. /\ SideDepth(placed, n, Other(side)) = SideDepth(t, n, Other(side))
      /\ SideDepth(placed, n, side) = SideDepth(t, child, Other(side))
  BY <1>3, <1>5 DEF SideDepth
<1>7. \A s \in Sides : SideDepth(placed, n, s) \in Int
  BY <1>3, <1>4, <1>5, SideDepthType
<1>8. LongerSide(placed, n) = Higher(SideDepth(t, n, Other(side)),
                                     SideDepth(t, child, Other(side)))
      /\ LongerSide(placed, n) \in Int
  BY <1>4, <1>6, <1>7, LongerSideIs
<1>9. /\ first \in Trees
      /\ first.root = t.root /\ first.parent = placed.parent /\ first.sound = t.sound
      /\ \A s \in Sides : first[s] = placed[s]
      /\ \A m \in Nodes : first.depth[m] = IF m = n THEN LongerSide(placed, n)
                                           ELSE t.depth[m]
  <2>1. IsRecomputed(placed, first, n)
    BY <1>3, <1>8, RecomputeFields
  <2> QED
    BY <1>3, <2>1 DEF IsRecomputed
<1> HIDE DEF first
<1>10. /\ SideDepth(first, child, Other(side)) = first.depth[n] + 1
       /\ SideDepth(first, child, side) = SideDepth(t, child, side)
  BY <1>3, <1>5, <1>9, <1>4, ConstantFacts DEF SideDepth
<1>11. \A s \in Sides : SideDepth(first, child, s) \in Int
  BY <1>3, <1>4, <1>5, <1>9, SideDepthType
<1>12. LongerSide(first, child) = Higher(first.depth[n] + 1, SideDepth(t, child, side))
       /\ LongerSide(first, child) \in Int
  BY <1>4, <1>10, <1>11, LongerSideIs
<1>13. /\ u \in Trees
       /\ u.root = t.root /\ u.parent = placed.parent /\ u.sound = t.sound
       /\ \A s \in Sides : u[s] = first[s]
       /\ \A m \in Nodes : u.depth[m] = IF m = child THEN LongerSide(first, child)
                                        ELSE first.depth[m]
  <2>1. IsRecomputed(first, u, child)
    BY <1>1, <1>9, <1>12, RecomputeFields
  <2> QED
    BY <1>9, <2>1 DEF IsRecomputed
<1>14. \A m \in Nodes : u.parent[m] = IF m = inner THEN n
                                      ELSE IF m = n THEN child
                                      ELSE IF m = child THEN t.parent[n]
                                      ELSE t.parent[m]
  BY <1>2, <1>3, <1>13
<1>15. \A s \in Sides, m \in Nodes :
         u[s][m] = IF m = n /\ s = side THEN inner
                   ELSE IF m = child /\ s = Other(side) THEN n
                   ELSE t[s][m]
  BY <1>2, <1>3, <1>9, <1>13
<1>16. /\ \A m \in Nodes \ {n, child} : u.depth[m] = t.depth[m]
       /\ u.depth[n] = Higher(SideDepth(t, n, Other(side)),
                              SideDepth(t, child, Other(side)))
       /\ u.depth[child] = Higher(u.depth[n] + 1, SideDepth(t, child, side))
  BY <1>8, <1>9, <1>12, <1>13
<1>17. IsRotated(t, u, n, child, inner, side)
  BY <1>13, <1>14, <1>15, <1>16 DEF IsRotated
<1> QED
  BY <1>17 DEF u

\* The links within the set S of nodes agree with each other.
Linked(t, S) ==
    /\ t \in Trees /\ S \subseteq Nodes
    /\ \A n \in S, side \in Sides : t[side][n] \in S \cup {Null}
    /\ \A n \in S, side \in Sides : t[side][n] # Null => t.parent[t[side][n]] = n
    /\ \A n \in S : t.parent[n] = Null => n = t.root
    /\ \A n \in S : t.parent[n] # Null =>
            t.parent[n] \in S /\ \E side \in Sides : t[side][t.parent[n]] = n
    /\ t.root \in S \cup {Null}
    /\ t.root # Null => t.parent[t.root] = Null
    /\ t.root = Null => S = {}

\* What is below a node on one side, for what sub says is below its child.
Branch(t, sub, n, side) == IF t[side][n] = Null THEN {} ELSE sub[t[side][n]]

\* A set is a node and what is on either side of it.
Split(X, n, L, R) == X = {n} \cup L \cup R /\ n \notin L /\ n \notin R /\ L \cap R = {}

\* sub gives for each node of S the nodes from it on down.
Subtrees(t, S, sub) ==
    /\ sub \in [S -> SUBSET S]
    /\ \A n \in S : Split(sub[n], n, Branch(t, sub, n, "left"),
                          Branch(t, sub, n, "right"))
    /\ t.root # Null => sub[t.root] = S

\* The node m may be on this side of n.
Precedes(side, m, n) ==
    IF side = "left" THEN ValueOf[m] <= ValueOf[n] ELSE ValueOf[n] <= ValueOf[m]

\* Values are in order from left to right.
Ordered(t, S, sub) ==
    \A n \in S, side \in Sides : \A m \in Branch(t, sub, n, side) : Precedes(side, m, n)

Shape(t, S, sub) == Linked(t, S) /\ Subtrees(t, S, sub) /\ Ordered(t, S, sub)

\* The two sides of a node may be named in either order.
LEMMA SplitAt ==
    ASSUME NEW t, NEW S, NEW sub, Subtrees(t, S, sub), NEW n \in S, NEW side \in Sides
    PROVE  Split(sub[n], n, Branch(t, sub, n, side), Branch(t, sub, n, Other(side)))
<1>1. Split(sub[n], n, Branch(t, sub, n, "left"), Branch(t, sub, n, "right"))
  BY DEF Subtrees
<1>2. Split(sub[n], n, Branch(t, sub, n, "right"), Branch(t, sub, n, "left"))
  BY <1>1 DEF Split
<1> QED
  BY <1>1, <1>2 DEF Sides, Other

\* What is split between one side and the other is split between left and right.
LEMMA SplitFromSide ==
    ASSUME NEW t, NEW sub, NEW n, NEW side \in Sides, NEW X,
           Split(X, n, Branch(t, sub, n, side), Branch(t, sub, n, Other(side)))
    PROVE  Split(X, n, Branch(t, sub, n, "left"), Branch(t, sub, n, "right"))
<1>1. CASE side = "left"
  BY <1>1 DEF Other
<1>2. CASE side = "right"
  BY <1>2 DEF Other, Split
<1> QED
  BY <1>1, <1>2 DEF Sides

\* A child of a node.
LEMMA KidFacts ==
    ASSUME NEW t, NEW S, NEW sub, Linked(t, S), Subtrees(t, S, sub),
           NEW n \in S, NEW side \in Sides, t[side][n] # Null
    PROVE  /\ t[side][n] \in S /\ t[side][n] \in Nodes
           /\ t.parent[t[side][n]] = n
           /\ t[side][n] # n
           /\ t[side][n] # t[Other(side)][n]
           /\ Branch(t, sub, n, side) = sub[t[side][n]]
           /\ t[side][n] \in sub[t[side][n]]
           /\ n \notin sub[t[side][n]]
           /\ sub[t[side][n]] \subseteq sub[n]
<1> DEFINE k == t[side][n]
<1>1. k \in S /\ k \in Nodes /\ t.parent[k] = n
  BY DEF Linked
<1>2. Branch(t, sub, n, side) = sub[k]
  BY DEF Branch
<1>3. Split(sub[n], n, sub[k], Branch(t, sub, n, Other(side)))
  BY <1>2, SplitAt
<1>4. k \in sub[k]
  BY <1>1, SideFacts, SplitAt DEF Split
<1>5. ASSUME k = t[Other(side)][n] PROVE FALSE
  <2>1. Branch(t, sub, n, Other(side)) = sub[k]
    BY <1>5 DEF Branch
  <2> QED
    BY <1>3, <1>4, <2>1 DEF Split
<1> QED
  BY <1>1, <1>2, <1>3, <1>4, <1>5 DEF Split

\* The parent of a node.
LEMMA ParentFacts ==
    ASSUME NEW t, NEW S, NEW sub, Linked(t, S), Subtrees(t, S, sub),
           NEW n \in S, t.parent[n] # Null
    PROVE  /\ t.parent[n] \in S /\ t.parent[n] \in Nodes
           /\ t.parent[n] # n
           /\ t.parent[n] \notin sub[n]
           /\ sub[n] \subseteq sub[t.parent[n]]
           /\ \E side \in Sides : t[side][t.parent[n]] = n
           /\ t.root # n
<1>1. PICK side \in Sides : t[side][t.parent[n]] = n
  BY DEF Linked
<1>2. t.parent[n] \in S /\ t.parent[n] \in Nodes
  BY DEF Linked
<1>3. n # Null
  BY ConstantFacts DEF Linked
<1> QED
  BY <1>1, <1>2, <1>3, KidFacts DEF Linked

\* Every node is below itself.
LEMMA SelfBelow ==
    ASSUME NEW t, NEW S, NEW sub, Subtrees(t, S, sub), NEW n \in S
    PROVE  n \in sub[n] /\ sub[n] \subseteq S
BY DEF Subtrees, Split

-----------------------------------------------------------------------------
(* Rotations.                                                              *)

\* What a rotation makes of a tree once its result hangs in the place of n.
IsTurn(t, u, n, child, inner, side) ==
    /\ u \in Trees /\ u.sound = t.sound
    /\ u.root = IF t.parent[n] = Null THEN child ELSE t.root
    /\ \A m \in Nodes : u.parent[m] = IF m = inner THEN n
                                      ELSE IF m = n THEN child
                                      ELSE IF m = child THEN t.parent[n]
                                      ELSE t.parent[m]
    /\ \A s \in Sides, m \in Nodes :
            u[s][m] = IF m = n /\ s = side THEN inner
                      ELSE IF m = child /\ s = Other(side) THEN n
                      ELSE IF m = t.parent[n] /\ t[s][m] = n THEN child
                      ELSE t[s][m]
    /\ \A m \in Nodes \ {n, child} : u.depth[m] = t.depth[m]
    /\ u.depth[n] = Higher(SideDepth(t, n, Other(side)),
                           SideDepth(t, child, Other(side)))
    /\ u.depth[child] = Higher(u.depth[n] + 1, SideDepth(t, child, side))

\* What is below each node after it.
Turned(t, sub, n, child, side) ==
    [m \in DOMAIN sub |-> IF m = child THEN sub[n]
                          ELSE IF m = n
                               THEN sub[n] \ ({child} \cup Branch(t, sub, child, side))
                          ELSE sub[m]]

\* The nodes that a rotation is about.
LEMMA TurnNodes ==
    ASSUME NEW t, NEW S, NEW sub, Linked(t, S), Subtrees(t, S, sub),
           NEW n \in S, NEW side \in Sides,
           NEW child, child = t[side][n], child # Null,
           NEW inner, inner = t[Other(side)][child]
    PROVE  /\ n \in Nodes /\ child \in Nodes /\ child \in S /\ child # n
           /\ inner \in S \cup {Null} /\ inner \in Nodes \cup {Null}
           /\ inner # n /\ inner # child
           /\ t[Other(side)][n] \in Nodes \cup {Null}
           /\ t[Other(side)][n] # n /\ t[Other(side)][n] # child
           /\ t[side][child] \in Nodes \cup {Null}
           /\ t[side][child] # n /\ t[side][child] # child
           /\ t.parent[n] \notin {n, child, inner} \/ t.parent[n] = Null
           /\ t.parent[child] = n
<1>1. n \in Nodes /\ S \subseteq Nodes /\ n # Null
  BY ConstantFacts DEF Linked
<1>2. /\ child \in S /\ child \in Nodes /\ child # n /\ child # t[Other(side)][n]
      /\ t.parent[child] = n /\ n \notin sub[child]
  BY KidFacts
<1>3. \A s \in Sides : t[s][child] \in S \cup {Null} /\ t[s][n] \in S \cup {Null}
  BY <1>2 DEF Linked
<1>4. \A s \in Sides : t[s][child] # n /\ t[s][child] # child
  <2> SUFFICES ASSUME NEW s \in Sides, t[s][child] # Null
               PROVE  t[s][child] # n /\ t[s][child] # child
    BY <1>1, <1>2, ConstantFacts
  <2>1. t[s][child] \in sub[t[s][child]] /\ sub[t[s][child]] \subseteq sub[child]
        /\ t[s][child] # child
    BY <1>2, KidFacts
  <2> QED
    BY <1>2, <2>1
<1>5. \A s \in Sides : t[s][n] # n
  <2> SUFFICES ASSUME NEW s \in Sides, t[s][n] # Null PROVE t[s][n] # n
    BY <1>1
  <2> QED
    BY KidFacts
<1>6. ASSUME t.parent[n] # Null PROVE t.parent[n] \notin {n, child, inner}
  <2>1. t.parent[n] # n /\ t.parent[n] \notin sub[n]
    BY <1>6, ParentFacts
  <2>2. child \in sub[n]
    BY KidFacts
  <2>3. CASE inner = Null
    BY <1>6, <2>1, <2>2, <2>3
  <2>4. CASE inner # Null
    <3>1. inner \in sub[inner] /\ sub[inner] \subseteq sub[child]
      BY <1>2, <2>4, SideFacts, KidFacts
    <3>2. sub[child] \subseteq sub[n]
      BY KidFacts
    <3> QED
      BY <2>1, <2>2, <3>1, <3>2
  <2> QED
    BY <2>3, <2>4
<1> QED
  BY <1>1, <1>2, <1>3, <1>4, <1>5, <1>6, SideFacts

\* After a rotation links agree.
LEMMA TurnLinked ==
    ASSUME NEW t, NEW u, NEW S, NEW sub, Linked(t, S), Subtrees(t, S, sub),
           NEW n \in S, NEW side \in Sides,
           NEW child, child = t[side][n], child # Null,
           NEW inner, inner = t[Other(side)][child],
           IsTurn(t, u, n, child, inner, side)
    PROVE  Linked(u, S)
<1>1. /\ n \in Nodes /\ child \in Nodes /\ child \in S /\ child # n
      /\ inner \in S \cup {Null} /\ inner # n /\ inner # child
      /\ t[Other(side)][n] # n /\ t[Other(side)][n] # child
      /\ t.parent[n] \notin {n, child, inner} \/ t.parent[n] = Null
      /\ t.parent[child] = n
  BY TurnNodes
<1>2. /\ S \subseteq Nodes /\ Null \notin S
      /\ \A m \in S, s \in Sides : t[s][m] \in S \cup {Null}
      /\ \A m \in S, s \in Sides : t[s][m] # Null => t.parent[t[s][m]] = m
      /\ \A m \in S : t.parent[m] = Null => m = t.root
      /\ \A m \in S : t.parent[m] # Null =>
            t.parent[m] \in S /\ \E s \in Sides : t[s][t.parent[m]] = m
      /\ t.root \in S \cup {Null}
      /\ t.root # Null => t.parent[t.root] = Null
  BY ConstantFacts DEF Linked
<1>3. /\ u \in Trees
      /\ u.root = IF t.parent[n] = Null THEN child ELSE t.root
      /\ \A m \in S : u.parent[m] = IF m = inner THEN n
                                    ELSE IF m = n THEN child
                                    ELSE IF m = child THEN t.parent[n]
                                    ELSE t.parent[m]
      /\ \A s \in Sides, m \in S :
            u[s][m] = IF m = n /\ s = side THEN inner
                      ELSE IF m = child /\ s = Other(side) THEN n
                      ELSE IF m = t.parent[n] /\ t[s][m] = n THEN child
                      ELSE t[s][m]
  BY <1>2 DEF IsTurn
<1>4. /\ Other(side) \in Sides /\ Other(side) # side
      /\ \A s \in Sides : s = side \/ s = Other(side)
  BY SideFacts
<1>5. \A m \in S, s \in Sides : u[s][m] \in S \cup {Null}
  BY <1>1, <1>2, <1>3
<1>6. ASSUME NEW m \in S, NEW s \in Sides, u[s][m] # Null
      PROVE  u.parent[u[s][m]] = m
  <2>1. CASE m = n /\ s = side
    BY <1>1, <1>3, <1>6, <2>1
  <2>2. CASE m = child /\ s = Other(side)
    BY <1>1, <1>3, <1>4, <2>2
  <2>3. CASE m = t.parent[n] /\ t[s][m] = n
    BY <1>1, <1>2, <1>3, <2>3
  <2>4. CASE ~ (m = n /\ s = side) /\ ~ (m = child /\ s = Other(side))
             /\ ~ (m = t.parent[n] /\ t[s][m] = n)
    <3>1. u[s][m] = t[s][m] /\ t[s][m] \in S /\ t.parent[t[s][m]] = m
      BY <1>2, <1>3, <1>6, <2>4
    <3>2. t[s][m] # n
      BY <1>2, <2>4, <3>1
    <3>3. t[s][m] # child
      BY <1>1, <1>4, <2>4, <3>1
    <3>4. t[s][m] # inner
      <4> SUFFICES ASSUME t[s][m] = inner PROVE FALSE
        OBVIOUS
      <4>1. inner # Null /\ t.parent[inner] = child /\ m = child
        BY <1>1, <1>2, <1>4, <3>1
      <4>2. s = side
        BY <1>4, <2>4, <4>1
      <4>3. t[side][child] # t[Other(side)][child]
        BY <1>1, <3>1, <4>1, <4>2, KidFacts
      <4> QED
        BY <4>1, <4>2, <4>3
    <3> QED
      BY <1>3, <3>1, <3>2, <3>3, <3>4
  <2> QED
    BY <2>1, <2>2, <2>3, <2>4
<1>7. ASSUME NEW m \in S, u.parent[m] = Null PROVE m = u.root
  BY <1>1, <1>2, <1>3, <1>7
<1>8. ASSUME NEW m \in S, u.parent[m] # Null
      PROVE  u.parent[m] \in S /\ \E s \in Sides : u[s][u.parent[m]] = m
  <2>1. CASE m = inner
    BY <1>1, <1>3, <2>1
  <2>2. CASE m = n
    BY <1>1, <1>3, <1>4, <2>2
  <2>3. CASE m = child
    <3>1. u.parent[m] = t.parent[n] /\ t.parent[n] # Null /\ t.parent[n] \in S
      BY <1>1, <1>2, <1>3, <1>8, <2>3
    <3>2. PICK s \in Sides : t[s][t.parent[n]] = n
      BY <1>2, <3>1
    <3>3. u[s][t.parent[n]] = child
      BY <1>1, <1>3, <3>1, <3>2
    <3> QED
      BY <2>3, <3>1, <3>3
  <2>4. CASE m # inner /\ m # n /\ m # child
    <3>1. u.parent[m] = t.parent[m] /\ t.parent[m] \in S
      BY <1>2, <1>3, <1>8, <2>4
    <3>2. PICK s \in Sides : t[s][t.parent[m]] = m
      BY <1>2, <1>8, <3>1
    <3>3. u[s][t.parent[m]] = m
      BY <1>1, <1>3, <1>4, <2>4, <3>1, <3>2
    <3> QED
      BY <3>1, <3>3
  <2> QED
    BY <2>1, <2>2, <2>3, <2>4
<1>9. u.root \in S /\ u.parent[u.root] = Null
  <2>1. CASE t.parent[n] = Null
    BY <1>1, <1>3, <2>1
  <2>2. CASE t.parent[n] # Null
    <3>1. t.root # Null
      BY DEF Linked
    <3>2. t.root # n /\ t.root \in S /\ t.parent[t.root] = Null
      BY <1>2, <2>2, <3>1
    <3>3. t.root # child
      BY <1>1, <1>2, <3>2
    <3>4. t.root # inner
      <4> SUFFICES ASSUME t.root = inner PROVE FALSE
        OBVIOUS
      <4>1. t.parent[inner] = child
        BY <1>1, <1>2, <1>4, <3>1
      <4> QED
        BY <1>1, <1>2, <3>2, <4>1
    <3> QED
      BY <1>3, <2>2, <3>2, <3>3, <3>4
  <2> QED
    BY <2>1, <2>2
<1> QED
  BY <1>2, <1>3, <1>5, <1>6, <1>7, <1>8, <1>9 DEF Linked

\* sub2 says of the rotated tree u what sub says of t.
IsTurned(t, u, S, sub, sub2, n, child, side) ==
    /\ sub2 \in [S -> SUBSET S]
    /\ sub2[child] = sub[n]
    /\ sub2[n] = sub[n] \ ({child} \cup Branch(t, sub, child, side))
    /\ \A m \in S \ {n, child} : sub2[m] = sub[m]
    /\ \A m \in S \ {n, child}, s \in Sides :
            Branch(u, sub2, m, s) = Branch(t, sub, m, s)
    /\ Branch(u, sub2, n, side) = Branch(t, sub, child, Other(side))
    /\ Branch(u, sub2, n, Other(side)) = Branch(t, sub, n, Other(side))
    /\ Branch(u, sub2, child, side) = Branch(t, sub, child, side)
    /\ Branch(u, sub2, child, Other(side)) = sub2[n]

\* After a rotation Turned tells what is below each node.
LEMMA TurnBranches ==
    ASSUME NEW t, NEW u, NEW S, NEW sub, Linked(t, S), Subtrees(t, S, sub),
           NEW n \in S, NEW side \in Sides,
           NEW child, child = t[side][n], child # Null,
           NEW inner, inner = t[Other(side)][child],
           IsTurn(t, u, n, child, inner, side),
           NEW sub2, sub2 = Turned(t, sub, n, child, side)
    PROVE  IsTurned(t, u, S, sub, sub2, n, child, side)
<1>1. /\ n \in Nodes /\ child \in Nodes /\ child \in S /\ child # n
      /\ inner \in S \cup {Null} /\ inner # n /\ inner # child
      /\ t[Other(side)][n] # n /\ t[Other(side)][n] # child
      /\ t[side][child] # n /\ t[side][child] # child
      /\ t.parent[n] \notin {n, child, inner} \/ t.parent[n] = Null
      /\ t.parent[child] = n
  BY TurnNodes
<1>2. /\ S \subseteq Nodes /\ Null \notin S
      /\ \A m \in S, s \in Sides : t[s][m] \in S \cup {Null}
      /\ \A m \in S, s \in Sides : t[s][m] # Null => t.parent[t[s][m]] = m
  BY ConstantFacts DEF Linked
<1>3. \A s \in Sides, m \in S :
        u[s][m] = IF m = n /\ s = side THEN inner
                  ELSE IF m = child /\ s = Other(side) THEN n
                  ELSE IF m = t.parent[n] /\ t[s][m] = n THEN child
                  ELSE t[s][m]
  BY <1>2 DEF IsTurn
<1>4. /\ Other(side) \in Sides /\ Other(side) # side
      /\ \A s \in Sides : s = side \/ s = Other(side)
  BY SideFacts
<1>5. DOMAIN sub = S /\ \A m \in S : sub[m] \in SUBSET S
  BY DEF Subtrees
<1>6. \A m \in S : sub2[m] = IF m = child THEN sub[n]
                   ELSE IF m = n
                        THEN sub[n] \ ({child} \cup Branch(t, sub, child, side))
                   ELSE sub[m]
  BY <1>5 DEF Turned
<1>7. sub2 \in [S -> SUBSET S]
  BY <1>1, <1>5 DEF Turned
<1>8. ASSUME NEW m \in S \ {n, child}, NEW s \in Sides
      PROVE  Branch(u, sub2, m, s) = Branch(t, sub, m, s)
  <2>1. CASE t[s][m] = n
    <3>1. m = t.parent[n] /\ n # Null /\ child # Null
      BY <1>1, <1>2, <2>1
    <3>2. u[s][m] = child
      BY <1>3, <2>1, <3>1
    <3> QED
      BY <1>1, <1>6, <2>1, <3>1, <3>2 DEF Branch
  <2>2. CASE t[s][m] # n
    <3>1. u[s][m] = t[s][m]
      BY <1>3, <2>2
    <3>2. t[s][m] # child
      BY <1>1, <1>2
    <3> QED
      BY <1>2, <1>6, <2>2, <3>1, <3>2 DEF Branch
  <2> QED
    BY <2>1, <2>2
<1>9. Branch(u, sub2, n, side) = Branch(t, sub, child, Other(side))
  <2>1. u[side][n] = inner
    BY <1>3
  <2> QED
    BY <1>1, <1>6, <2>1 DEF Branch
<1>10. Branch(u, sub2, n, Other(side)) = Branch(t, sub, n, Other(side))
  <2>1. u[Other(side)][n] = t[Other(side)][n]
    BY <1>1, <1>3, <1>4
  <2> QED
    BY <1>1, <1>2, <1>4, <1>6, <2>1 DEF Branch
<1>11. Branch(u, sub2, child, side) = Branch(t, sub, child, side)
  <2>1. u[side][child] = t[side][child]
    BY <1>1, <1>3, <1>4
  <2> QED
    BY <1>1, <1>2, <1>4, <1>6, <2>1 DEF Branch
<1>12. Branch(u, sub2, child, Other(side)) = sub2[n]
  <2>1. u[Other(side)][child] = n /\ n # Null
    BY <1>1, <1>2, <1>3, <1>4
  <2> QED
    BY <2>1 DEF Branch
<1> QED
  BY <1>1, <1>6, <1>7, <1>8, <1>9, <1>10, <1>11, <1>12 DEF IsTurned

\* The sets of a rotation: A is what is below the node, C what is below its
\* child, G and I the two sides of the child.
LEMMA TurnSets ==
    ASSUME NEW n, NEW child, NEW A, NEW C, NEW O, NEW G, NEW I,
           Split(A, n, C, O), Split(C, child, G, I)
    PROVE  \A B : B = A \ ({child} \cup G) =>
                /\ Split(B, n, I, O)
                /\ Split(A, child, G, B)
                /\ B = {n} \cup I \cup O
<1>1. A = {n} \cup C \cup O /\ n \notin C /\ n \notin O /\ C \cap O = {}
  BY DEF Split
<1>2. C = {child} \cup G \cup I /\ child \notin G /\ child \notin I /\ G \cap I = {}
  BY DEF Split
<1>3. A \ ({child} \cup G) = {n} \cup I \cup O
  BY <1>1, <1>2
<1>4. Split(A \ ({child} \cup G), n, I, O)
  BY <1>1, <1>2, <1>3 DEF Split
<1>5. Split(A, child, G, A \ ({child} \cup G))
  BY <1>1, <1>2 DEF Split
<1> QED
  BY <1>3, <1>4, <1>5

\* A rotation keeps the shape of a search tree.
LEMMA TurnShape ==
    ASSUME NEW t, NEW u, NEW S, NEW sub, Shape(t, S, sub),
           NEW n \in S, NEW side \in Sides,
           NEW child, child = t[side][n], child # Null,
           NEW inner, inner = t[Other(side)][child],
           IsTurn(t, u, n, child, inner, side),
           NEW sub2, sub2 = Turned(t, sub, n, child, side)
    PROVE  Shape(u, S, sub2)
<1> DEFINE other == Other(side)
<1>1. Linked(t, S) /\ Subtrees(t, S, sub) /\ Ordered(t, S, sub)
  BY DEF Shape
<1>2. Linked(u, S)
  BY <1>1, TurnLinked
<1>3. child \in S /\ child # n /\ t.parent[child] = n /\ S \subseteq Nodes
  BY <1>1, TurnNodes DEF Linked
<1>4. /\ other \in Sides /\ other # side
      /\ \A s \in Sides : s = side \/ s = other
  BY SideFacts
<1>5. /\ sub2 \in [S -> SUBSET S]
      /\ sub2[child] = sub[n]
      /\ sub2[n] = sub[n] \ ({child} \cup Branch(t, sub, child, side))
      /\ \A m \in S \ {n, child} : sub2[m] = sub[m]
      /\ \A m \in S \ {n, child}, s \in Sides :
           Branch(u, sub2, m, s) = Branch(t, sub, m, s)
      /\ Branch(u, sub2, n, side) = Branch(t, sub, child, other)
      /\ Branch(u, sub2, n, other) = Branch(t, sub, n, other)
      /\ Branch(u, sub2, child, side) = Branch(t, sub, child, side)
      /\ Branch(u, sub2, child, other) = sub2[n]
  <2>1. IsTurned(t, u, S, sub, sub2, n, child, side)
    BY <1>1, TurnBranches
  <2> QED
    BY <2>1 DEF IsTurned
<1>6. /\ Branch(t, sub, n, side) = sub[child]
      /\ Split(sub[n], n, sub[child], Branch(t, sub, n, other))
      /\ Split(sub[child], child, Branch(t, sub, child, side),
               Branch(t, sub, child, other))
  <2>1. Branch(t, sub, n, side) = sub[child]
    BY DEF Branch
  <2>2. Split(sub[n], n, Branch(t, sub, n, side), Branch(t, sub, n, other))
    BY <1>1, SplitAt
  <2>3. Split(sub[child], child, Branch(t, sub, child, side),
              Branch(t, sub, child, other))
    BY <1>1, <1>3, SplitAt
  <2> QED
    BY <2>1, <2>2, <2>3
<1>7. /\ Split(sub2[n], n, Branch(t, sub, child, other), Branch(t, sub, n, other))
      /\ Split(sub2[child], child, Branch(t, sub, child, side), sub2[n])
      /\ sub2[n] = {n} \cup Branch(t, sub, child, other) \cup Branch(t, sub, n, other)
  <2>1. \A B : B = sub[n] \ ({child} \cup Branch(t, sub, child, side)) =>
            /\ Split(B, n, Branch(t, sub, child, other), Branch(t, sub, n, other))
            /\ Split(sub[n], child, Branch(t, sub, child, side), B)
            /\ B = {n} \cup Branch(t, sub, child, other) \cup Branch(t, sub, n, other)
    BY <1>6, TurnSets
  <2> QED
    BY <1>5, <2>1
<1> HIDE DEF other
<1>8. ASSUME NEW m \in S
      PROVE  Split(sub2[m], m, Branch(u, sub2, m, "left"), Branch(u, sub2, m, "right"))
  <2>1. CASE m = n
    <3>1. Split(sub2[m], m, Branch(u, sub2, m, side), Branch(u, sub2, m, Other(side)))
      BY <1>5, <1>7, <2>1 DEF other
    <3> QED
      BY <3>1, SplitFromSide
  <2>2. CASE m = child
    <3>1. Split(sub2[m], m, Branch(u, sub2, m, side), Branch(u, sub2, m, Other(side)))
      BY <1>5, <1>7, <2>2 DEF other
    <3> QED
      BY <3>1, SplitFromSide
  <2>3. CASE m # n /\ m # child
    BY <1>1, <1>5, <2>3, SideFacts DEF Subtrees
  <2> QED
    BY <2>1, <2>2, <2>3
<1>9. u.root # Null => sub2[u.root] = S
  <2>1. u.root = IF t.parent[n] = Null THEN child ELSE t.root
    BY DEF IsTurn
  <2>2. CASE t.parent[n] = Null
    <3>1. n = t.root /\ n # Null
      BY <1>1, <1>3, <2>2, ConstantFacts DEF Linked
    <3>2. sub[n] = S
      BY <1>1, <3>1 DEF Subtrees
    <3> QED
      BY <1>5, <2>1, <2>2, <3>2
  <2>3. CASE t.parent[n] # Null
    <3> SUFFICES ASSUME t.root # Null PROVE sub2[t.root] = S
      BY <2>1, <2>3
    <3>1. t.root \in S /\ t.parent[t.root] = Null /\ sub[t.root] = S
      BY <1>1 DEF Linked, Subtrees
    <3>2. t.root # n /\ t.root # child
      BY <1>3, <2>3, <3>1, ConstantFacts
    <3> QED
      BY <1>5, <3>1, <3>2
  <2> QED
    BY <2>2, <2>3
<1>10. Subtrees(u, S, sub2)
  BY <1>5, <1>8, <1>9 DEF Subtrees
<1>11. ASSUME NEW m \in S, NEW s \in Sides, NEW k \in Branch(u, sub2, m, s)
       PROVE  Precedes(s, k, m)
  <2>1. \A a \in S, r \in Sides : \A b \in Branch(t, sub, a, r) : Precedes(r, b, a)
    BY <1>1 DEF Ordered
  <2>2. CASE m # n /\ m # child
    BY <1>5, <2>1, <2>2
  <2>3. CASE m = n /\ s = other
    BY <1>5, <2>1, <2>3
  <2>4. CASE m = child /\ s = side
    BY <1>5, <2>1, <2>4, <1>3
  <2>5. CASE m = n /\ s = side
    <3>1. k \in sub[child]
      BY <1>5, <1>6, <2>5 DEF Split
    <3> QED
      BY <1>6, <2>1, <2>5, <3>1
  <2>6. CASE m = child /\ s = other
    <3>1. child \in sub[child]
      BY <1>1, <1>3, SelfBelow
    <3>2. Precedes(side, child, n)
      BY <1>6, <2>1, <3>1
    <3>3. k \in S /\ k \in Nodes
      BY <1>3, <1>5, <2>6
    <3>4. CASE k = n
      BY <1>4, <2>6, <3>2, <3>4 DEF Precedes, Sides, other, Other
    <3>5. CASE k \in Branch(t, sub, child, other)
      BY <1>3, <1>4, <2>1, <2>6, <3>5
    <3>6. CASE k \in Branch(t, sub, n, other)
      <4>1. Precedes(other, k, n)
        BY <1>4, <2>1, <3>6
      <4>2. ValueOf[k] \in Int /\ ValueOf[n] \in Int /\ ValueOf[child] \in Int
        BY <1>3, <3>3, ConstantFacts
      <4> QED
        BY <1>4, <2>6, <3>2, <4>1, <4>2 DEF Precedes, Sides, other, Other
    <3> QED
      BY <1>5, <1>7, <2>6, <3>4, <3>5, <3>6
  <2> QED
    BY <1>4, <2>2, <2>3, <2>4, <2>5, <2>6
<1>12. Ordered(u, S, sub2)
  BY <1>11 DEF Ordered
<1> QED
  BY <1>2, <1>10, <1>12 DEF Shape

\* The slot of a node is its parent's field that leads to it.
LEMMA SlotFacts ==
    ASSUME NEW t, NEW S, NEW sub, Linked(t, S), Subtrees(t, S, sub), NEW n \in S
    PROVE  \E s \in Sides :
             /\ Slot(t, n) = [owner |-> t.parent[n], side |-> s]
             /\ t.parent[n] # Null => t[s][t.parent[n]] = n
                                      /\ t[Other(s)][t.parent[n]] # n
<1>1. t.right = t["right"] /\ t.left = t["left"]
  BY TreeFields DEF Linked
<1>2. CASE t.parent[n] = Null
  <2>1. Slot(t, n) = [owner |-> t.parent[n], side |-> "left"]
    BY <1>2 DEF Slot
  <2> QED
    BY <1>2, <2>1, SideFacts
<1>3. CASE t.parent[n] # Null
  <2>1. t.parent[n] \in S
    BY <1>3 DEF Linked
  <2>2. PICK s \in Sides : t[s][t.parent[n]] = n
    BY <1>3 DEF Linked
  <2>3. n # Null
    BY ConstantFacts DEF Linked
  <2>4. t[Other(s)][t.parent[n]] # n
    BY <2>1, <2>2, <2>3, KidFacts
  <2>5. s = IF n = t["right"][t.parent[n]] THEN "right" ELSE "left"
    BY <2>2, <2>4 DEF Sides, Other
  <2>6. Slot(t, n) = [owner |-> t.parent[n], side |-> s]
    BY <1>1, <1>3, <2>5 DEF Slot
  <2> QED
    BY <2>2, <2>4, <2>6
<1> QED
  BY <1>2, <1>3

\* Rotate, and the link of the parent set to the child that has come up.
LEMMA TurnMade ==
    ASSUME NEW t, NEW S, NEW sub, Linked(t, S), Subtrees(t, S, sub),
           NEW n \in S, NEW side \in Sides,
           NEW child, child = t[side][n], child # Null,
           NEW inner, inner = t[Other(side)][child]
    PROVE  IsTurn(t, Fill(Rotate(t, n, side), Slot(t, n), child), n, child, inner, side)
<1> DEFINE r == Rotate(t, n, side)
           u == Fill(r, Slot(t, n), child)
<1>1. /\ n \in Nodes /\ child \in Nodes /\ child \in S /\ child # n
      /\ inner \in S \cup {Null} /\ inner \in Nodes \cup {Null}
      /\ inner # n /\ inner # child
      /\ t[Other(side)][n] \in Nodes \cup {Null}
      /\ t[Other(side)][n] # n /\ t[Other(side)][n] # child
      /\ t[side][child] \in Nodes \cup {Null}
      /\ t[side][child] # n /\ t[side][child] # child
      /\ t.parent[n] \notin {n, child, inner} \/ t.parent[n] = Null
      /\ t.parent[child] = n
  BY TurnNodes
<1>2. t \in Trees /\ S \subseteq Nodes
  BY DEF Linked
<1>3. IsRotated(t, r, n, child, inner, side)
  BY <1>1, <1>2, RotateFields
<1> HIDE DEF r
<1>4. PICK s \in Sides :
             /\ Slot(t, n) = [owner |-> t.parent[n], side |-> s]
             /\ t.parent[n] # Null => t[s][t.parent[n]] = n
                                      /\ t[Other(s)][t.parent[n]] # n
  BY SlotFacts
<1>5. t.parent[n] \in Nodes \cup {Null} /\ child \in Link
  BY <1>1, <1>2 DEF Linked, Link
<1>6. IsFilled(r, u, t.parent[n], s, child)
  BY <1>3, <1>4, <1>5, FillFields DEF IsRotated
<1> HIDE DEF u
<1>7. \A a \in Sides : a = s \/ a = Other(s)
  BY SideFacts
<1>8. \A a \in Sides, m \in Nodes :
            u[a][m] = IF m = n /\ a = side THEN inner
                      ELSE IF m = child /\ a = Other(side) THEN n
                      ELSE IF m = t.parent[n] /\ t[a][m] = n THEN child
                      ELSE t[a][m]
  <2> TAKE a \in Sides, m \in Nodes
  <2>1. r[a][m] = IF m = n /\ a = side THEN inner
                  ELSE IF m = child /\ a = Other(side) THEN n
                  ELSE t[a][m]
    BY <1>3 DEF IsRotated
  <2>2. u[a][m] = IF m = t.parent[n] /\ a = s THEN child ELSE r[a][m]
    BY <1>6 DEF IsFilled
  <2>3. m # Null
    BY ConstantFacts
  <2>4. CASE m = t.parent[n]
    <3>1. m # n /\ m # child
      BY <1>1, <2>3, <2>4
    <3>2. t[a][m] = n <=> a = s
      BY <1>4, <1>7, <2>3, <2>4
    <3> QED
      BY <2>1, <2>2, <2>4, <3>1, <3>2
  <2>5. CASE m # t.parent[n]
    BY <2>1, <2>2, <2>5
  <2> QED
    BY <2>4, <2>5
<1>9. \A m \in Nodes : u.parent[m] = IF m = inner THEN n
                                     ELSE IF m = n THEN child
                                     ELSE IF m = child THEN t.parent[n]
                                     ELSE t.parent[m]
  BY <1>3, <1>6 DEF IsRotated, IsFilled
<1>10. /\ u \in Trees /\ u.sound = t.sound
       /\ u.root = IF t.parent[n] = Null THEN child ELSE t.root
       /\ u.depth = r.depth
  BY <1>3, <1>6 DEF IsRotated, IsFilled
<1>11. IsTurn(t, u, n, child, inner, side)
  BY <1>3, <1>8, <1>9, <1>10 DEF IsTurn, IsRotated
<1> QED
  BY <1>11 DEF u, r

-----------------------------------------------------------------------------
(* Depths.                                                                 *)

\* The depth of a node is exact, for those of its children, and its sides differ
\* by one at most.
Level(t, m) ==
    /\ t.depth[m] = LongerSide(t, m)
    /\ SideDepth(t, m, "left") - SideDepth(t, m, "right") \in -1..1

\* No depth is a mark of freed memory.
Deep(t, S) == \A m \in S : t.depth[m] \in Nat

\* What Level says of a node, whichever side is named first.
LEMMA LevelIs ==
    ASSUME NEW t, NEW m, NEW side \in Sides,
           \A s \in Sides : SideDepth(t, m, s) \in Int
    PROVE  Level(t, m) <=>
             /\ t.depth[m] = Higher(SideDepth(t, m, side), SideDepth(t, m, Other(side)))
             /\ SideDepth(t, m, side) - SideDepth(t, m, Other(side)) \in -1..1
<1>1. LongerSide(t, m) = Higher(SideDepth(t, m, side), SideDepth(t, m, Other(side)))
  BY LongerSideIs
<1>2. SideDepth(t, m, "left") \in Int /\ SideDepth(t, m, "right") \in Int
  BY SideFacts
<1>3. CASE side = "left"
  BY <1>1, <1>3, SideFacts DEF Level
<1>4. CASE side = "right"
  BY <1>1, <1>2, <1>4, SideFacts DEF Level
<1> QED
  BY <1>3, <1>4 DEF Sides

\* The depth of a side is none or that of a child and one.
LEMMA SideDepthFacts ==
    ASSUME NEW t, NEW S, Linked(t, S), Deep(t, S), NEW m \in S, NEW s \in Sides
    PROVE  /\ SideDepth(t, m, s) \in Nat
           /\ SideDepth(t, m, s) = 0 <=> t[s][m] = Null
           /\ t[s][m] # Null => /\ t[s][m] \in S
                                /\ SideDepth(t, m, s) = t.depth[t[s][m]] + 1
<1>1. t[s][m] \in S \cup {Null}
  BY DEF Linked
<1>2. CASE t[s][m] = Null
  BY <1>2 DEF SideDepth
<1>3. CASE t[s][m] # Null
  <2>1. t[s][m] \in S /\ t.depth[t[s][m]] \in Nat
    BY <1>1, <1>3 DEF Deep
  <2>2. SideDepth(t, m, s) = t.depth[t[s][m]] + 1
    BY <1>3 DEF SideDepth
  <2> QED
    BY <1>3, <2>1, <2>2
<1> QED
  BY <1>2, <1>3

\* Where a tree keeps the depths of a node and of its sides, the node is as level
\* as it was.
LEMMA LevelKept ==
    ASSUME NEW t, NEW u, NEW m, u.depth[m] = t.depth[m],
           \A s \in Sides : SideDepth(u, m, s) = SideDepth(t, m, s),
           Level(t, m)
    PROVE  Level(u, m)
<1>1. /\ SideDepth(u, m, "left") = SideDepth(t, m, "left")
      /\ SideDepth(u, m, "right") = SideDepth(t, m, "right")
  BY SideFacts
<1> QED
  BY <1>1 DEF Level, LongerSide

\* The depths of the sides of each node in a rotated tree.
TurnsDepths(t, u, S, n, child, side) ==
    /\ SideDepth(u, n, side) = SideDepth(t, child, Other(side))
    /\ SideDepth(u, n, Other(side)) = SideDepth(t, n, Other(side))
    /\ SideDepth(u, child, side) = SideDepth(t, child, side)
    /\ SideDepth(u, child, Other(side)) = u.depth[n] + 1
    /\ \A m \in S \ {n, child}, s \in Sides :
            SideDepth(u, m, s) = IF m = t.parent[n] /\ t[s][m] = n
                                 THEN u.depth[child] + 1 ELSE SideDepth(t, m, s)

\* A rotation changes depths at the two nodes it turns, and at the slot they hang in.
LEMMA TurnDepths ==
    ASSUME NEW t, NEW u, NEW S, NEW sub, Linked(t, S), Subtrees(t, S, sub),
           NEW n \in S, NEW side \in Sides,
           NEW child, child = t[side][n], child # Null,
           NEW inner, inner = t[Other(side)][child],
           IsTurn(t, u, n, child, inner, side)
    PROVE  TurnsDepths(t, u, S, n, child, side)
<1>1. /\ n \in Nodes /\ child \in Nodes /\ child \in S /\ child # n
      /\ inner \in S \cup {Null} /\ inner # n /\ inner # child
      /\ t[Other(side)][n] # n /\ t[Other(side)][n] # child
      /\ t[side][child] # n /\ t[side][child] # child
      /\ t.parent[n] \notin {n, child, inner} \/ t.parent[n] = Null
      /\ t.parent[child] = n
  BY TurnNodes
<1>2. /\ S \subseteq Nodes /\ Null \notin S
      /\ \A m \in S, s \in Sides : t[s][m] \in S \cup {Null}
      /\ \A m \in S, s \in Sides : t[s][m] # Null => t.parent[t[s][m]] = m
  BY ConstantFacts DEF Linked
<1>3. \A s \in Sides, m \in S :
        u[s][m] = IF m = n /\ s = side THEN inner
                  ELSE IF m = child /\ s = Other(side) THEN n
                  ELSE IF m = t.parent[n] /\ t[s][m] = n THEN child
                  ELSE t[s][m]
  BY <1>2 DEF IsTurn
<1>4. \A m \in S \ {n, child} : u.depth[m] = t.depth[m]
  BY <1>2 DEF IsTurn
<1>5. /\ Other(side) \in Sides /\ Other(side) # side
      /\ \A s \in Sides : s = side \/ s = Other(side)
  BY SideFacts
<1>6. SideDepth(u, n, side) = SideDepth(t, child, Other(side))
  <2>1. u[side][n] = inner
    BY <1>3
  <2> QED
    BY <1>1, <1>4, <2>1 DEF SideDepth
<1>7. SideDepth(u, n, Other(side)) = SideDepth(t, n, Other(side))
  <2>1. u[Other(side)][n] = t[Other(side)][n] /\ t[Other(side)][n] \in S \cup {Null}
    BY <1>1, <1>2, <1>3, <1>5
  <2> QED
    BY <1>1, <1>4, <2>1 DEF SideDepth
<1>8. SideDepth(u, child, side) = SideDepth(t, child, side)
  <2>1. u[side][child] = t[side][child] /\ t[side][child] \in S \cup {Null}
    BY <1>1, <1>2, <1>3, <1>5
  <2> QED
    BY <1>1, <1>4, <2>1 DEF SideDepth
<1>9. SideDepth(u, child, Other(side)) = u.depth[n] + 1
  <2>1. u[Other(side)][child] = n /\ n # Null
    BY <1>1, <1>2, <1>3, <1>5
  <2> QED
    BY <2>1 DEF SideDepth
<1>10. ASSUME NEW m \in S \ {n, child}, NEW s \in Sides
       PROVE  SideDepth(u, m, s) = IF m = t.parent[n] /\ t[s][m] = n
                                   THEN u.depth[child] + 1 ELSE SideDepth(t, m, s)
  <2>1. CASE m = t.parent[n] /\ t[s][m] = n
    <3>1. u[s][m] = child /\ child # Null
      BY <1>3, <2>1
    <3> QED
      BY <2>1, <3>1 DEF SideDepth
  <2>2. CASE ~ (m = t.parent[n] /\ t[s][m] = n)
    <3>1. u[s][m] = t[s][m] /\ t[s][m] \in S \cup {Null}
      BY <1>2, <1>3, <2>2
    <3>2. t[s][m] # Null => t[s][m] # n /\ t[s][m] # child
      BY <1>1, <1>2, <2>2
    <3>3. t[s][m] # Null => u.depth[t[s][m]] = t.depth[t[s][m]]
      BY <1>4, <3>1, <3>2
    <3> QED
      BY <2>2, <3>1, <3>3 DEF SideDepth
  <2> QED
    BY <2>1, <2>2
<1> QED
  BY <1>6, <1>7, <1>8, <1>9, <1>10 DEF TurnsDepths

-----------------------------------------------------------------------------
(* Rebalancing a node.                                                     *)

\* The shape is one of root, links and parents.
LEMMA SameShape ==
    ASSUME NEW t, NEW S, NEW sub, Shape(t, S, sub), NEW u \in Trees, u.root = t.root,
           \A m \in S : u.parent[m] = t.parent[m],
           \A m \in S, s \in Sides : u[s][m] = t[s][m]
    PROVE  Shape(u, S, sub)
<1>1. Linked(t, S) /\ Subtrees(t, S, sub) /\ Ordered(t, S, sub)
  BY DEF Shape
<1>2. Linked(u, S)
  <2>1. /\ S \subseteq Nodes
        /\ \A n \in S, side \in Sides : t[side][n] \in S \cup {Null}
        /\ \A n \in S, side \in Sides : t[side][n] # Null => t.parent[t[side][n]] = n
        /\ \A n \in S : t.parent[n] = Null => n = t.root
        /\ \A n \in S : t.parent[n] # Null =>
                t.parent[n] \in S /\ \E side \in Sides : t[side][t.parent[n]] = n
        /\ t.root \in S \cup {Null}
        /\ t.root # Null => t.parent[t.root] = Null
        /\ t.root = Null => S = {}
    BY <1>1 DEF Linked
  <2> QED
    BY <2>1 DEF Linked
<1>3. \A m \in S, s \in Sides : Branch(u, sub, m, s) = Branch(t, sub, m, s)
  BY DEF Branch
<1>4. Subtrees(u, S, sub)
  BY <1>1, <1>3, SideFacts DEF Subtrees
<1>5. Ordered(u, S, sub)
  BY <1>1, <1>3 DEF Ordered
<1> QED
  BY <1>2, <1>4, <1>5 DEF Shape

\* Memory that is not in S is the same.
SameOutside(t, u, S) ==
    \A m \in Nodes \ S : /\ \A s \in Sides : u[s][m] = t[s][m]
                         /\ u.parent[m] = t.parent[m] /\ u.depth[m] = t.depth[m]

\* What two steps leave alone, both together leave alone.
LEMMA SameOutsideTransitive ==
    ASSUME NEW t, NEW u, NEW v, NEW S, SameOutside(t, u, S), SameOutside(u, v, S)
    PROVE  SameOutside(t, v, S)
BY DEF SameOutside

\* A rotation writes nothing outside of the tree.
LEMMA TurnOutside ==
    ASSUME NEW t, NEW u, NEW S, NEW sub, Linked(t, S), Subtrees(t, S, sub),
           NEW n \in S, NEW side \in Sides,
           NEW child, child = t[side][n], child # Null,
           NEW inner, inner = t[Other(side)][child],
           IsTurn(t, u, n, child, inner, side)
    PROVE  SameOutside(t, u, S)
<1>1. /\ child \in S /\ inner \in S \cup {Null}
      /\ t.parent[n] \in S \cup {Null}
  BY TurnNodes DEF Linked
<1>2. ASSUME NEW m \in Nodes \ S
      PROVE  /\ \A s \in Sides : u[s][m] = t[s][m]
             /\ u.parent[m] = t.parent[m] /\ u.depth[m] = t.depth[m]
  <2>1. m # n /\ m # child /\ m # inner /\ m # t.parent[n]
    BY <1>1, ConstantFacts
  <2> QED
    BY <2>1 DEF IsTurn
<1> QED
  BY <1>2 DEF SameOutside

\* The sides of q were once level, and then the depth of one changed by one.
Tilted(t, q) ==
    \E side \in Sides, was \in Nat :
        /\ SideDepth(t, q, side) - was \in {-1, 1}
        /\ was - SideDepth(t, q, Other(side)) \in -1..1
        /\ t.depth[q] = Higher(was, SideDepth(t, q, Other(side)))

\* Every node but q is level.
Climbing(t, S, sub, q) ==
    /\ Shape(t, S, sub) /\ Deep(t, S) /\ t.sound
    /\ q \in S \cup {Null}
    /\ \A m \in S \ {q} : Level(t, m)
    /\ q # Null => Tilted(t, q)

\* What becomes of the tree t when q has been rebalanced: top is in its place.
Raised(t, u, S, sub, sub2, q, top) ==
    /\ Shape(u, S, sub2) /\ Deep(u, S) /\ u.sound
    /\ SameOutside(t, u, S)
    /\ top \in S
    /\ u.depth[top] - t.depth[q] \in -1..1
    /\ \A m \in S \ {t.parent[q]} : Level(u, m)
    /\ t.parent[q] # Null =>
          /\ t.parent[q] \in S
          /\ sub2[t.parent[q]] = sub[t.parent[q]]
          /\ u.depth[t.parent[q]] = t.depth[t.parent[q]]
          /\ \E s \in Sides :
                /\ SideDepth(t, t.parent[q], s) = t.depth[q] + 1
                /\ SideDepth(u, t.parent[q], s) = u.depth[top] + 1
                /\ SideDepth(u, t.parent[q], Other(s))
                     = SideDepth(t, t.parent[q], Other(s))

\* A tree t1 that is t but for the depth of q, which is exact.
IsMeasured(t, t1, S, sub, q) ==
    /\ Shape(t1, S, sub) /\ Deep(t1, S) /\ t1.sound
    /\ SameOutside(t, t1, S)
    /\ t1.root = t.root
    /\ \A m \in S : t1.parent[m] = t.parent[m]
    /\ \A m \in S, s \in Sides : t1[s][m] = t[s][m]
    /\ \A m \in S \ {q} : t1.depth[m] = t.depth[m]
    /\ t1.depth[q] = LongerSide(t1, q)
    /\ \A s \in Sides : SideDepth(t1, q, s) = SideDepth(t, q, s)
    /\ \A m \in S \ {q}, s \in Sides :
            t[s][m] # q => SideDepth(t1, m, s) = SideDepth(t, m, s)
    /\ \A m \in S \ {q, t.parent[q]} : Level(t1, m)

\* RecomputeDepth makes a depth exact; all but the node and its parent are level.
LEMMA RecomputeMeasures ==
    ASSUME NEW t, NEW S, NEW sub, NEW q \in S, Climbing(t, S, sub, q)
    PROVE  IsMeasured(t, RecomputeDepth(t, q), S, sub, q)
<1> DEFINE t1 == RecomputeDepth(t, q)
<1>1. /\ Shape(t, S, sub) /\ Deep(t, S) /\ t.sound
      /\ Linked(t, S) /\ Subtrees(t, S, sub) /\ t \in Trees /\ S \subseteq Nodes
      /\ q \in Nodes /\ q # Null
  BY ConstantFacts DEF Climbing, Shape, Linked
<1>2. \A s \in Sides : SideDepth(t, q, s) \in Nat
  BY <1>1, SideDepthFacts
<1>3. LongerSide(t, q) \in Nat /\ LongerSide(t, q) \in Int
  BY <1>2, SideFacts DEF LongerSide
<1>4. IsRecomputed(t, t1, q)
  BY <1>1, <1>3, RecomputeFields
<1> HIDE DEF t1
<1>5. /\ t1 \in Trees
      /\ t1.root = t.root /\ t1.parent = t.parent /\ t1.sound = t.sound
      /\ \A side \in Sides : t1[side] = t[side]
      /\ \A m \in Nodes : t1.depth[m] = IF m = q THEN LongerSide(t, q) ELSE t.depth[m]
  BY <1>4 DEF IsRecomputed
<1>6. Shape(t1, S, sub)
  BY <1>1, <1>5, SameShape
<1>7. Deep(t1, S)
  BY <1>1, <1>3, <1>5 DEF Deep
<1>8. \A s \in Sides : t[s][q] \in Nodes \cup {Null} /\ t[s][q] # q
  BY <1>1, KidFacts DEF Linked
<1>9. \A s \in Sides : SideDepth(t1, q, s) = SideDepth(t, q, s)
  BY <1>5, <1>8 DEF SideDepth
<1>10. t1.depth[q] = LongerSide(t1, q)
  BY <1>1, <1>5, <1>9, SideFacts DEF LongerSide
<1>11. ASSUME NEW m \in S \ {q}, NEW s \in Sides, t[s][m] # q
       PROVE  SideDepth(t1, m, s) = SideDepth(t, m, s)
  <2>1. t[s][m] \in Nodes \cup {Null}
    BY <1>1 DEF Linked
  <2> QED
    BY <1>5, <1>11, <2>1 DEF SideDepth
<1>12. ASSUME NEW m \in S \ {q, t.parent[q]} PROVE Level(t1, m)
  <2>1. Level(t, m) /\ t1.depth[m] = t.depth[m]
    BY <1>1, <1>5 DEF Climbing
  <2>2. \A s \in Sides : t[s][m] # q
    BY <1>1 DEF Linked
  <2>3. \A s \in Sides : SideDepth(t1, m, s) = SideDepth(t, m, s)
    BY <1>11, <2>2
  <2> QED
    BY <2>1, <2>3, LevelKept
<1>13. SameOutside(t, t1, S)
  BY <1>5 DEF SameOutside
<1>14. /\ \A m \in S \ {q} : t1.depth[m] = t.depth[m]
       /\ \A m \in S : t1.parent[m] = t.parent[m]
       /\ \A m \in S, s \in Sides : t1[s][m] = t[s][m]
       /\ t1.root = t.root /\ t1.sound
  BY <1>1, <1>5
<1>15. IsMeasured(t, t1, S, sub, q)
  BY <1>6, <1>7, <1>9, <1>10, <1>11, <1>12, <1>13, <1>14 DEF IsMeasured
<1> QED
  BY <1>15 DEF t1

\* A depth that is exact already does not change.
LEMMA RecomputeKeeps ==
    ASSUME NEW t \in Trees, NEW n \in Nodes, t.depth[n] = LongerSide(t, n)
    PROVE  RecomputeDepth(t, n) = t
<1>1. [t.depth EXCEPT ![n] = t.depth[n]] = t.depth
  BY DEF Trees
<1>2. [t EXCEPT !.depth = t.depth] = t
  BY DEF Trees
<1>3. RecomputeDepth(t, n) = [t EXCEPT !.depth = [t.depth EXCEPT ![n] = t.depth[n]]]
  BY DEF RecomputeDepth
<1> QED
  BY <1>1, <1>2, <1>3

\* A tree t2 that is t but for what is below n on the side that is too deep, where
\* the depth is now on the outer side.
IsStraight(t, t2, S, sub, sub2, n, side) ==
    /\ Shape(t2, S, sub2) /\ Deep(t2, S) /\ t2.sound
    /\ SameOutside(t, t2, S)
    /\ t2.root = t.root
    /\ t2.parent[n] = t.parent[n]
    /\ t.parent[n] # Null =>
          /\ sub2[t.parent[n]] = sub[t.parent[n]]
          /\ t2.depth[t.parent[n]] = t.depth[t.parent[n]]
          /\ \A s \in Sides : t2[s][t.parent[n]] = t[s][t.parent[n]]
          /\ \A s \in Sides : t[s][t.parent[n]] # n =>
                SideDepth(t2, t.parent[n], s) = SideDepth(t, t.parent[n], s)
    /\ t2[side][n] \in S
    /\ SideDepth(t2, n, Other(side)) = SideDepth(t, n, Other(side))
    /\ SideDepth(t2, t2[side][n], side) = SideDepth(t, n, Other(side)) + 1
    /\ SideDepth(t2, t2[side][n], Other(side)) - SideDepth(t, n, Other(side)) \in -1..1
    /\ \A m \in S \ {n, t2[side][n], t.parent[n]} : Level(t2, m)

\* The child that is heavy on its inner side is rotated first.
LEMMA StraightenTurn ==
    ASSUME NEW t, NEW S, NEW sub, Linked(t, S), Subtrees(t, S, sub),
           NEW n \in S, NEW side \in Sides,
           NEW child, child = t[side][n], child # Null,
           NEW inner, inner = t[Other(side)][child], inner # Null,
           NEW r, r = [Rotate(t, child, Other(side)) EXCEPT ![side][n] = inner]
    PROVE  IsTurn(t, r, child, inner, t[side][inner], Other(side))
<1>1. child \in S /\ t.parent[child] = n /\ n # Null
  BY KidFacts, ConstantFacts DEF Linked
<1>2. PICK s \in Sides : /\ Slot(t, child) = [owner |-> n, side |-> s]
                         /\ t[s][n] = child /\ t[Other(s)][n] # child
  BY <1>1, SlotFacts
<1>3. s = side
  BY <1>2, SideFacts
<1>4. r = Fill(Rotate(t, child, Other(side)), Slot(t, child), inner)
  BY <1>1, <1>2, <1>3 DEF Fill
<1>5. Other(side) \in Sides /\ Other(Other(side)) = side
  BY SideFacts
<1> QED
  BY <1>1, <1>4, <1>5, TurnMade

\* What Straighten does.
LEMMA StraightenFacts ==
    ASSUME NEW t, NEW S, NEW sub, Shape(t, S, sub), Deep(t, S), t.sound,
           NEW n \in S, t.depth[n] = LongerSide(t, n),
           \A m \in S \ {n, t.parent[n]} : Level(t, m),
           NEW side \in Sides,
           SideDepth(t, n, side) = SideDepth(t, n, Other(side)) + 2
    PROVE  \E sub2 : IsStraight(t, Straighten(t, n, side), S, sub, sub2, n, side)
<1> DEFINE other == Other(side)
           o == SideDepth(t, n, other)
           child == t[side][n]
           inner == t[other][child]
           g == SideDepth(t, child, side)
           i == SideDepth(t, child, other)
           p == t.parent[n]
<1>1. Linked(t, S) /\ Subtrees(t, S, sub) /\ t \in Trees /\ S \subseteq Nodes /\ Null \notin S
  BY ConstantFacts DEF Shape, Linked
<1>2. /\ other \in Sides /\ other # side /\ Other(other) = side
      /\ \A s \in Sides : s = side \/ s = other
  BY SideFacts
<1>3. o \in Nat /\ SideDepth(t, n, side) = o + 2
  BY <1>1, <1>2, SideDepthFacts
<1>4. child # Null /\ child \in S /\ t.depth[child] = o + 1
  <2>1. SideDepth(t, n, side) # 0
    BY <1>3
  <2>2. child # Null /\ child \in S /\ SideDepth(t, n, side) = t.depth[child] + 1
    BY <1>1, <2>1, SideDepthFacts
  <2> QED
    BY <1>1, <1>3, <2>2 DEF Deep
<1>5. /\ inner \in S \cup {Null} /\ inner # n /\ inner # child /\ child # n
      /\ t[other][n] # n /\ t[other][n] # child
      /\ p \notin {n, child, inner} \/ p = Null
      /\ t.parent[child] = n
  BY <1>1, <1>4, TurnNodes
<1>6. g \in Nat /\ i \in Nat /\ o + 1 = Higher(g, i) /\ g - i \in -1..1
  <2>1. \A s \in Sides : SideDepth(t, child, s) \in Nat
    BY <1>1, <1>4, SideDepthFacts
  <2>2. Level(t, child)
    BY <1>1, <1>4, <1>5
  <2>3. \A s \in Sides : SideDepth(t, child, s) \in Int
    BY <2>1
  <2>4. t.depth[child] = Higher(g, i) /\ g - i \in -1..1
    BY <2>2, <2>3, LevelIs
  <2> QED
    BY <1>2, <1>4, <2>1, <2>4
<1>7. IsHeavy(t, child, other) <=> g < i
  BY <1>2 DEF IsHeavy
<1>8. CASE ~ (g < i)
  <2>1. Straighten(t, n, side) = t
    BY <1>7, <1>8 DEF Straighten
  <2>2. g = o + 1 /\ i - o \in -1..1
    BY <1>3, <1>6, <1>8 DEF Higher
  <2>3. SameOutside(t, t, S)
    BY DEF SameOutside
  <2>4. IsStraight(t, t, S, sub, sub, n, side)
    BY <1>4, <2>2, <2>3 DEF IsStraight
  <2> QED
    BY <2>1, <2>4
<1>9. CASE g < i
  <2> DEFINE r == [Rotate(t, child, other) EXCEPT ![side][n] = inner]
             t2 == Asserted(r, RecomputeDepth(r, n) = r)
             ii == t[side][inner]
             a == SideDepth(t, inner, side)
             b == SideDepth(t, inner, other)
             sub2 == Turned(t, sub, child, inner, other)
  <2>1. Straighten(t, n, side) = t2
    BY <1>7, <1>9 DEF Straighten
  <2>2. i = o + 1 /\ g = o
    BY <1>3, <1>6, <1>9 DEF Higher
  <2>3. inner # Null /\ inner \in S /\ t.depth[inner] = o
    <3>1. i # 0
      BY <1>3, <2>2
    <3>2. inner # Null /\ inner \in S /\ i = t.depth[inner] + 1
      BY <1>1, <1>2, <1>4, <3>1, SideDepthFacts
    <3> QED
      BY <1>1, <1>3, <2>2, <3>2 DEF Deep
  <2>4. IsTurn(t, r, child, inner, ii, other)
    BY <1>1, <1>4, <2>3, StraightenTurn
  <2> HIDE DEF r
  <2>5. a \in Nat /\ b \in Nat /\ o = Higher(a, b) /\ a - b \in -1..1
    <3>1. \A s \in Sides : SideDepth(t, inner, s) \in Nat
      BY <1>1, <2>3, SideDepthFacts
    <3>2. Level(t, inner)
      BY <1>1, <1>5, <2>3
    <3>3. \A s \in Sides : SideDepth(t, inner, s) \in Int
      BY <3>1
    <3>4. t.depth[inner] = Higher(a, b) /\ a - b \in -1..1
      BY <3>2, <3>3, LevelIs
    <3> QED
      BY <1>2, <2>3, <3>1, <3>4
  <2>6. Shape(r, S, sub2)
    BY <1>2, <1>4, <2>3, <2>4, TurnShape
  <2>7. /\ ii \in S \cup {Null} /\ ii # n /\ ii # child /\ ii # inner
    <3>1. ii \in S \cup {Null} /\ ii # child /\ ii # inner
      BY <1>1, <1>2, <1>4, <2>3, TurnNodes
    <3>2. t.parent[child] \notin {child, inner, ii} \/ t.parent[child] = Null
      BY <1>1, <1>2, <1>4, <2>3, TurnNodes
    <3> QED
      BY <1>1, <1>5, <3>1, <3>2
  <2>8. TurnsDepths(t, r, S, child, inner, other)
    BY <1>1, <1>2, <1>4, <2>3, <2>4, TurnDepths
  <2>9. /\ r.depth[child] = o /\ r.depth[inner] = o + 1
        /\ SideDepth(r, inner, side) = o + 1 /\ SideDepth(r, inner, other) = b
        /\ SideDepth(r, child, other) = a /\ SideDepth(r, child, side) = o
    <3>1. /\ r.depth[child] = Higher(g, a)
          /\ r.depth[inner] = Higher(r.depth[child] + 1, b)
      BY <1>2, <2>4 DEF IsTurn
    <3>2. /\ SideDepth(r, child, other) = a /\ SideDepth(r, child, side) = g
          /\ SideDepth(r, inner, other) = b
          /\ SideDepth(r, inner, side) = r.depth[child] + 1
      BY <1>2, <2>8 DEF TurnsDepths
    <3>3. Higher(g, a) = o /\ Higher(o + 1, b) = o + 1
      BY <1>3, <2>2, <2>5 DEF Higher
    <3> QED
      BY <2>2, <3>1, <3>2, <3>3
  <2>10. \A m \in S \ {child, inner}, s \in Sides :
            SideDepth(r, m, s) = SideDepth(t, m, s) /\ r.depth[m] = t.depth[m]
    <3> TAKE m \in S \ {child, inner}, s \in Sides
    <3>1. r.depth[m] = t.depth[m]
      BY <1>1, <2>4 DEF IsTurn
    <3>2. SideDepth(r, m, s) = IF m = n /\ t[s][m] = child THEN r.depth[inner] + 1
                               ELSE SideDepth(t, m, s)
      BY <1>5, <2>8 DEF TurnsDepths
    <3>3. t[s][n] = child => s = side
      BY <1>2, <1>5
    <3> QED
      BY <1>3, <2>9, <3>1, <3>2, <3>3
  <2>11. r.sound /\ r \in Trees /\ r.depth[n] = LongerSide(r, n)
    <3>1. n \notin {child, inner}
      BY <1>5
    <3>2. /\ SideDepth(r, n, "left") = SideDepth(t, n, "left")
          /\ SideDepth(r, n, "right") = SideDepth(t, n, "right")
          /\ r.depth[n] = t.depth[n]
      BY <2>10, <3>1, SideFacts
    <3> QED
      BY <2>4, <3>2 DEF IsTurn, LongerSide
  <2>12. RecomputeDepth(r, n) = r
    BY <1>1, <2>11, RecomputeKeeps
  <2>13. IsAsserted(r, t2, RecomputeDepth(r, n) = r)
    BY <2>11, AssertedFields
  <2> HIDE DEF t2
  <2>14. /\ t2 \in Trees /\ t2.root = r.root /\ t2.parent = r.parent
         /\ t2.depth = r.depth /\ t2.sound
         /\ \A s \in Sides : t2[s] = r[s]
    BY <2>11, <2>12, <2>13 DEF IsAsserted
  <2>15. \A m, s : s \in Sides => SideDepth(t2, m, s) = SideDepth(r, m, s)
    BY <2>14 DEF SideDepth
  <2>16. Shape(t2, S, sub2)
    BY <2>6, <2>14, SameShape
  <2>17. Deep(t2, S)
    <3>1. \A m \in S : m = child \/ m = inner \/ r.depth[m] = t.depth[m]
      BY <1>2, <2>10
    <3> QED
      BY <1>3, <2>9, <2>14, <3>1 DEF Deep
  <2>18. SameOutside(t, t2, S)
    <3>1. SameOutside(t, r, S)
      BY <1>1, <1>2, <1>4, <2>3, <2>4, TurnOutside
    <3> QED
      BY <2>14, <3>1 DEF SameOutside
  <2>18a. /\ t.parent[child] = n /\ n \in Nodes /\ n # Null /\ n # child /\ n # inner
          /\ n # ii
    BY <1>1, <1>2, <1>5, <2>7
  <2>18b. /\ r.root = IF t.parent[child] = Null THEN inner ELSE t.root
          /\ \A m \in Nodes : r.parent[m] = IF m = ii THEN child
                                             ELSE IF m = child THEN inner
                                             ELSE IF m = inner THEN t.parent[child]
                                             ELSE t.parent[m]
          /\ \A s \in Sides, m \in Nodes :
                 r[s][m] = IF m = child /\ s = other THEN ii
                           ELSE IF m = inner /\ s = Other(other) THEN child
                           ELSE IF m = t.parent[child] /\ t[s][m] = child THEN inner
                           ELSE t[s][m]
    BY <2>4 DEF IsTurn
  <2>19. t2.root = t.root /\ t2.parent[n] = t.parent[n]
    BY <2>14, <2>18a, <2>18b
  <2>20. t2[side][n] = inner
    BY <1>1, <1>2, <2>14, <2>18a, <2>18b
  <2>21. ASSUME p # Null
         PROVE  /\ sub2[p] = sub[p]
                /\ t2.depth[p] = t.depth[p]
                /\ \A s \in Sides : t2[s][p] = t[s][p]
                /\ \A s \in Sides : SideDepth(t2, p, s) = SideDepth(t, p, s)
    <3>1. p \in S /\ p # n /\ p # child /\ p # inner
      BY <1>1, <1>5, <2>21 DEF Linked
    <3>2. sub2[p] = sub[p]
      BY <1>1, <3>1 DEF Turned, Subtrees
    <3>3. \A s \in Sides : t2[s][p] = t[s][p]
      BY <1>1, <2>14, <2>18a, <2>18b, <3>1
    <3> QED
      BY <1>2, <2>10, <2>14, <2>15, <3>1, <3>2, <3>3
  <2>22. SideDepth(t2, n, other) = o
    BY <1>2, <1>5, <2>10, <2>15
  <2>23. SideDepth(t2, inner, side) = o + 1 /\ SideDepth(t2, inner, other) - o \in -1..1
    BY <1>2, <1>3, <2>5, <2>9, <2>15 DEF Higher
  <2>24. ASSUME NEW m \in S \ {n, inner, p} PROVE Level(t2, m)
    <3>1. CASE m = child
      <4>1. /\ SideDepth(t2, child, side) = o /\ SideDepth(t2, child, other) = a
            /\ t2.depth[child] = o
        BY <1>2, <2>9, <2>14, <2>15
      <4>2. o = Higher(o, a) /\ o - a \in -1..1 /\ a \in Int /\ o \in Int
        BY <1>3, <2>5 DEF Higher
      <4>3. \A s \in Sides : SideDepth(t2, child, s) \in Int
        BY <1>2, <4>1, <4>2
      <4> QED
        BY <3>1, <4>1, <4>2, <4>3, LevelIs
    <3>2. CASE m # child
      <4>1. Level(t, m)
        BY <1>5, <3>2
      <4>2. t2.depth[m] = t.depth[m] /\ \A s \in Sides : SideDepth(t2, m, s) = SideDepth(t, m, s)
        BY <1>2, <2>10, <2>14, <2>15, <3>2
      <4> QED
        BY <4>1, <4>2, LevelKept
    <3> QED
      BY <3>1, <3>2
  <2>25. IsStraight(t, t2, S, sub, sub2, n, side)
    BY <2>3, <2>14, <2>16, <2>17, <2>18, <2>19, <2>20, <2>21, <2>22, <2>23, <2>24
       DEF IsStraight
  <2> QED
    BY <2>1, <2>25
<1> QED
  BY <1>8, <1>9

\* Where the parent and its links are the same, so is the slot.
LEMMA SlotKept ==
    ASSUME NEW t, NEW u, NEW S, NEW sub, NEW sub2,
           Linked(t, S), Subtrees(t, S, sub), Linked(u, S), Subtrees(u, S, sub2),
           NEW n \in S, u.parent[n] = t.parent[n],
           t.parent[n] # Null => \A s \in Sides : u[s][t.parent[n]] = t[s][t.parent[n]]
    PROVE  Slot(u, n) = Slot(t, n)
<1>1. u.right = u["right"] /\ t.right = t["right"]
  BY TreeFields DEF Linked
<1>2. t.parent[n] # Null => u.right[t.parent[n]] = t.right[t.parent[n]]
  BY <1>1, SideFacts
<1> QED
  BY <1>2 DEF Slot

\* What is left to do once the deep side is straight.
LEMMA TurnRaises ==
    ASSUME NEW t, NEW t1, NEW t2, NEW u, NEW S, NEW sub, NEW sub2, NEW q \in S,
           NEW side \in Sides, Climbing(t, S, sub, q),
           IsMeasured(t, t1, S, sub, q), IsStraight(t1, t2, S, sub, sub2, q, side),
           NEW child, child = t2[side][q], NEW inner, inner = t2[Other(side)][child],
           IsTurn(t2, u, q, child, inner, side),
           t.depth[q] - SideDepth(t1, q, Other(side)) \in {1, 2}
    PROVE  Raised(t, u, S, sub, Turned(t2, sub2, q, child, side), q, child)
<1> DEFINE other == Other(side)
           o == SideDepth(t1, q, other)
           p == t.parent[q]
           i == SideDepth(t2, child, other)
           sub3 == Turned(t2, sub2, q, child, side)
<1>1. /\ other \in Sides /\ other # side /\ Other(other) = side
      /\ \A s \in Sides : s = side \/ s = other
  BY SideFacts
<1>2. /\ Linked(t, S) /\ Subtrees(t, S, sub) /\ S \subseteq Nodes /\ Null \notin S
      /\ Linked(t1, S) /\ Subtrees(t1, S, sub) /\ Deep(t1, S) /\ Deep(t, S)
  BY ConstantFacts DEF Climbing, IsMeasured, Shape, Linked
<1>3. /\ Shape(t2, S, sub2) /\ Linked(t2, S) /\ Subtrees(t2, S, sub2) /\ Deep(t2, S)
      /\ t2.sound /\ child \in S /\ t1.parent[q] = p /\ t2.parent[q] = p
      /\ SideDepth(t2, q, other) = o
      /\ SideDepth(t2, child, side) = o + 1
      /\ i - o \in -1..1
      /\ \A m \in S \ {q, child, p} : Level(t2, m)
  BY DEF IsStraight, IsMeasured, Shape
<1>4. child # Null /\ child # q /\ t2.parent[child] = q
      /\ t2[other][q] # child /\ inner \in S \cup {Null}
      /\ (p \notin {q, child, inner} \/ p = Null)
  BY <1>2, <1>3, TurnNodes
<1>5. Shape(u, S, sub3)
  BY <1>2, <1>3, TurnShape
<1>6. TurnsDepths(t2, u, S, q, child, side)
  BY <1>2, <1>3, TurnDepths
<1>7. o \in Nat /\ i \in Nat /\ t.depth[q] \in Nat
  BY <1>1, <1>2, <1>3, SideDepthFacts DEF Deep
<1>8. u.depth[q] = Higher(o, i) /\ u.depth[child] = Higher(u.depth[q] + 1, o + 1)
  BY <1>3 DEF IsTurn
<1>9. u.depth[q] \in {o, o + 1} /\ u.depth[child] = u.depth[q] + 1
      /\ o - i \in -1..1
  BY <1>3, <1>7, <1>8 DEF Higher
<1>10. /\ SideDepth(u, q, side) = i /\ SideDepth(u, q, other) = o
       /\ SideDepth(u, child, side) = o + 1
       /\ SideDepth(u, child, other) = u.depth[q] + 1
  BY <1>3, <1>6 DEF TurnsDepths
<1>11. Level(u, q)
  <2>1. \A s \in Sides : SideDepth(u, q, s) \in Int
    BY <1>1, <1>7, <1>10
  <2>2. Level(u, q) <=>
          /\ u.depth[q] = Higher(SideDepth(u, q, other), SideDepth(u, q, Other(other)))
          /\ SideDepth(u, q, other) - SideDepth(u, q, Other(other)) \in -1..1
    BY <1>1, <2>1, LevelIs
  <2> QED
    BY <1>1, <1>8, <1>9, <1>10, <2>2
<1>12. Level(u, child)
  <2>1. \A s \in Sides : SideDepth(u, child, s) \in Int
    BY <1>1, <1>7, <1>9, <1>10
  <2>2. Level(u, child) <=>
          /\ u.depth[child] = Higher(SideDepth(u, child, other),
                                     SideDepth(u, child, Other(other)))
          /\ SideDepth(u, child, other) - SideDepth(u, child, Other(other)) \in -1..1
    BY <1>1, <2>1, LevelIs
  <2> QED
    BY <1>1, <1>7, <1>8, <1>9, <1>10, <2>2
<1>13. \A m \in S \ {q, child} : u.depth[m] = t2.depth[m]
  BY <1>2 DEF IsTurn
<1>14. ASSUME NEW m \in S \ {p} PROVE Level(u, m)
  <2>1. CASE m # q /\ m # child
    <3>1. Level(t2, m)
      BY <1>3, <2>1
    <3>2. \A s \in Sides : SideDepth(u, m, s) = SideDepth(t2, m, s)
      BY <1>3, <1>6, <2>1 DEF TurnsDepths
    <3> QED
      BY <1>13, <2>1, <3>1, <3>2, LevelKept
  <2> QED
    BY <1>11, <1>12, <2>1
<1>15. Deep(u, S)
  <2>1. ASSUME NEW m \in S PROVE u.depth[m] \in Nat
    <3>1. CASE m = q \/ m = child
      BY <1>7, <1>9, <3>1
    <3>2. CASE m # q /\ m # child
      BY <1>3, <1>13, <3>2 DEF Deep
    <3> QED
      BY <3>1, <3>2
  <2> QED
    BY <2>1 DEF Deep
<1>16. SameOutside(t, u, S)
  <2>1. SameOutside(t, t1, S) /\ SameOutside(t1, t2, S)
    BY DEF IsMeasured, IsStraight
  <2>2. SameOutside(t2, u, S)
    BY <1>3, <1>4, TurnOutside
  <2> QED
    BY <2>1, <2>2, SameOutsideTransitive
<1>17. u.depth[child] - t.depth[q] \in -1..1
  BY <1>7, <1>9
<1>18. ASSUME p # Null
       PROVE  /\ p \in S
              /\ sub3[p] = sub[p]
              /\ u.depth[p] = t.depth[p]
              /\ \E s \in Sides :
                    /\ SideDepth(t, p, s) = t.depth[q] + 1
                    /\ SideDepth(u, p, s) = u.depth[child] + 1
                    /\ SideDepth(u, p, Other(s)) = SideDepth(t, p, Other(s))
  <2>1. p \in S /\ p # q /\ p # child
    BY <1>2, <1>4, <1>18 DEF Linked
  <2>2. sub3[p] = sub2[p] /\ sub2[p] = sub[p]
    BY <1>3, <1>18, <2>1 DEF Turned, Subtrees, IsStraight
  <2>3. u.depth[p] = t.depth[p]
    <3>1. u.depth[p] = t2.depth[p] /\ t2.depth[p] = t1.depth[p]
      BY <1>3, <1>13, <1>18, <2>1 DEF IsStraight
    <3>2. t1.depth[p] = t.depth[p]
      BY <2>1 DEF IsMeasured
    <3> QED
      BY <3>1, <3>2
  <2>4. PICK s \in Sides : t[s][p] = q /\ t[Other(s)][p] # q
    BY <1>2, <1>18, SlotFacts
  <2>5. Other(s) \in Sides
    BY SideFacts
  <2>6. \A r \in Sides : t2[r][p] = t[r][p]
    <3>1. \A r \in Sides : t2[r][p] = t1[r][p]
      BY <1>3, <1>18 DEF IsStraight
    <3>2. \A r \in Sides : t1[r][p] = t[r][p]
      BY <2>1 DEF IsMeasured
    <3> QED
      BY <3>1, <3>2
  <2>7. SideDepth(t, p, s) = t.depth[q] + 1
    BY <1>2, <2>4 DEF SideDepth
  <2>8. \A r \in Sides : SideDepth(u, p, r) = IF t2[r][p] = q THEN u.depth[child] + 1
                                              ELSE SideDepth(t2, p, r)
    BY <1>3, <1>6, <2>1 DEF TurnsDepths
  <2>9. SideDepth(u, p, s) = u.depth[child] + 1
    BY <2>4, <2>6, <2>8
  <2>10. SideDepth(u, p, Other(s)) = SideDepth(t2, p, Other(s))
    BY <2>4, <2>5, <2>6, <2>8
  <2>11. t1[Other(s)][p] # q
    BY <2>1, <2>4, <2>5 DEF IsMeasured
  <2>12. SideDepth(t2, p, Other(s)) = SideDepth(t1, p, Other(s))
    BY <1>3, <1>18, <2>5, <2>11 DEF IsStraight
  <2>13. SideDepth(t1, p, Other(s)) = SideDepth(t, p, Other(s))
    BY <2>1, <2>4, <2>5 DEF IsMeasured
  <2> QED
    BY <2>1, <2>2, <2>3, <2>7, <2>9, <2>10, <2>12, <2>13
<1>19. u.sound
  BY <1>3 DEF IsTurn
<1> QED
  BY <1>3, <1>5, <1>14, <1>15, <1>16, <1>17, <1>18, <1>19 DEF Raised

\* An assertion that holds keeps a straight tree what it is.
LEMMA AssertedStraight ==
    ASSUME NEW t, NEW t2, NEW S, NEW sub, NEW sub2, NEW n \in S, NEW side \in Sides,
           IsStraight(t, t2, S, sub, sub2, n, side),
           NEW v, IsAsserted(t2, v, TRUE)
    PROVE  IsStraight(t, v, S, sub, sub2, n, side)
<1>1. /\ Shape(t2, S, sub2) /\ Deep(t2, S) /\ t2.sound /\ Linked(t2, S)
      /\ t2 \in Trees
  BY DEF IsStraight, Shape, Linked
<1>2. /\ v \in Trees /\ v.root = t2.root /\ v.parent = t2.parent
      /\ v.depth = t2.depth /\ v.sound
      /\ \A s \in Sides : v[s] = t2[s]
  BY <1>1 DEF IsAsserted
<1>3. \A m, s : s \in Sides => SideDepth(v, m, s) = SideDepth(t2, m, s)
  BY <1>2 DEF SideDepth
<1>4. Shape(v, S, sub2)
  BY <1>1, <1>2, SameShape
<1>5. Deep(v, S)
  BY <1>1, <1>2 DEF Deep
<1>6. SameOutside(t, v, S)
  BY <1>2 DEF IsStraight, SameOutside
<1>7. \A m \in S : Level(t2, m) => Level(v, m)
  BY <1>2, <1>3, LevelKept
<1>8. Other(side) \in Sides
  BY SideFacts
<1> QED
  BY <1>2, <1>3, <1>4, <1>5, <1>6, <1>7, <1>8 DEF IsStraight

\* What a tilted node may be, once measured.
LEMMA TiltedIs ==
    ASSUME NEW t, NEW t1, NEW q, Tilted(t, q), NEW side \in Sides,
           \A s \in Sides : SideDepth(t, q, s) \in Nat,
           \A s \in Sides : SideDepth(t1, q, s) = SideDepth(t, q, s),
           t1.depth[q] = LongerSide(t1, q)
    PROVE  /\ SideDepth(t1, q, side) - SideDepth(t1, q, Other(side)) \in -2..2
           /\ t1.depth[q] - t.depth[q] \in -1..1
           /\ SideDepth(t1, q, side) - SideDepth(t1, q, Other(side)) = 2 =>
                t.depth[q] - SideDepth(t1, q, Other(side)) \in {1, 2}
<1>1. PICK r \in Sides, was \in Nat :
        /\ SideDepth(t, q, r) - was \in {-1, 1}
        /\ was - SideDepth(t, q, Other(r)) \in -1..1
        /\ t.depth[q] = Higher(was, SideDepth(t, q, Other(r)))
  BY DEF Tilted
<1>2. Other(r) \in Sides /\ Other(Other(r)) = r /\ (side = r \/ side = Other(r))
  BY SideFacts
<1>3. t1.depth[q] = Higher(SideDepth(t1, q, r), SideDepth(t1, q, Other(r)))
  BY <1>2, LongerSideIs
<1> DEFINE a == SideDepth(t, q, r)
           b == SideDepth(t, q, Other(r))
<1>4. a \in Nat /\ b \in Nat /\ SideDepth(t1, q, r) = a /\ SideDepth(t1, q, Other(r)) = b
  BY <1>2
<1>5. /\ a - was \in {-1, 1} /\ was - b \in -1..1
      /\ t.depth[q] = Higher(was, b) /\ t1.depth[q] = Higher(a, b)
  BY <1>1, <1>3, <1>4
<1> HIDE DEF a, b
<1>6. /\ t1.depth[q] - t.depth[q] \in -1..1
      /\ a - b \in -2..2 /\ b - a \in -2..2
      /\ a - b = 2 => t.depth[q] - b \in {1, 2}
      /\ b - a = 2 => t.depth[q] - a \in {1, 2}
  BY <1>4, <1>5 DEF Higher
<1> QED
  BY <1>2, <1>4, <1>6

\* A node that is level enough is only put where it is.
LEMMA StayRaises ==
    ASSUME NEW t, NEW t1, NEW S, NEW sub, NEW q \in S, Climbing(t, S, sub, q),
           IsMeasured(t, t1, S, sub, q),
           SideDepth(t1, q, "left") - SideDepth(t1, q, "right") \in -1..1,
           NEW u, u = Fill(t1, Slot(t, q), q)
    PROVE  Raised(t, u, S, sub, sub, q, q)
<1> DEFINE p == t.parent[q]
<1>1. /\ Linked(t, S) /\ Subtrees(t, S, sub) /\ Shape(t, S, sub) /\ S \subseteq Nodes
      /\ Null \notin S /\ Deep(t, S)
      /\ Shape(t1, S, sub) /\ t1 \in Trees /\ Deep(t1, S) /\ t1.sound
      /\ \A m \in S : t1.parent[m] = t.parent[m]
      /\ \A m \in S, s \in Sides : t1[s][m] = t[s][m]
      /\ t1.root = t.root
  BY ConstantFacts DEF Climbing, IsMeasured, Shape, Linked
<1>2. PICK s \in Sides : /\ Slot(t, q) = [owner |-> p, side |-> s]
                         /\ p # Null => t[s][p] = q /\ t[Other(s)][p] # q
  BY <1>1, SlotFacts
<1>3. p \in S \cup {Null} /\ p # q
  BY <1>1, ParentFacts DEF Linked
<1>4. IsFilled(t1, u, p, s, q)
  BY <1>1, <1>2, <1>3, FillFields DEF Link
<1>5. /\ u \in Trees /\ u.parent = t1.parent /\ u.depth = t1.depth /\ u.sound
      /\ u.root = t1.root
      /\ \A r \in Sides, m \in S : u[r][m] = t1[r][m]
  <2>1. u.root = t1.root
    BY <1>1, <1>3, <1>4 DEF IsFilled, Linked
  <2>2. \A r \in Sides, m \in S : u[r][m] = t1[r][m]
    BY <1>1, <1>2, <1>4 DEF IsFilled
  <2> QED
    BY <1>1, <1>4, <2>1, <2>2 DEF IsFilled
<1>6. Shape(u, S, sub)
  BY <1>1, <1>5, SameShape
<1>7. Deep(u, S)
  BY <1>1, <1>5 DEF Deep
<1>8. \A m \in S, r \in Sides : SideDepth(u, m, r) = SideDepth(t1, m, r)
  BY <1>5 DEF SideDepth
<1>9. SameOutside(t, u, S)
  <2>1. SameOutside(t, t1, S)
    BY DEF IsMeasured
  <2>2. SameOutside(t1, u, S)
    BY <1>3, <1>4, ConstantFacts DEF SameOutside, IsFilled
  <2> QED
    BY <2>1, <2>2, SameOutsideTransitive
<1>10. u.depth[q] - t.depth[q] \in -1..1
  <2>1. \A r \in Sides : SideDepth(t, q, r) \in Nat
    BY <1>1, SideDepthFacts
  <2>2. Tilted(t, q)
    BY <1>1 DEF Climbing
  <2>3. t1.depth[q] = LongerSide(t1, q) /\ \A r \in Sides : SideDepth(t1, q, r) = SideDepth(t, q, r)
    BY DEF IsMeasured
  <2>4. t1.depth[q] - t.depth[q] \in -1..1
    BY <2>1, <2>2, <2>3, SideFacts, TiltedIs
  <2> QED
    BY <1>5, <2>4
<1>11. ASSUME NEW m \in S \ {p} PROVE Level(u, m)
  <2>1. Level(t1, m)
    <3>1. CASE m = q
      BY <3>1 DEF IsMeasured, Level
    <3>2. CASE m # q
      BY <3>2 DEF IsMeasured
    <3> QED
      BY <3>1, <3>2
  <2> QED
    BY <1>5, <1>8, <2>1, LevelKept
<1>12. ASSUME p # Null
       PROVE  /\ p \in S
              /\ u.depth[p] = t.depth[p]
              /\ \E r \in Sides :
                    /\ SideDepth(t, p, r) = t.depth[q] + 1
                    /\ SideDepth(u, p, r) = u.depth[q] + 1
                    /\ SideDepth(u, p, Other(r)) = SideDepth(t, p, Other(r))
  <2>1. p \in S
    BY <1>3, <1>12
  <2>2. u.depth[p] = t.depth[p]
    BY <1>3, <1>5, <2>1 DEF IsMeasured
  <2>3. SideDepth(t, p, s) = t.depth[q] + 1
    BY <1>1, <1>2, <1>12 DEF SideDepth
  <2>4. SideDepth(u, p, s) = u.depth[q] + 1
    BY <1>1, <1>2, <1>5, <1>12, <2>1 DEF SideDepth
  <2>5. SideDepth(t1, p, Other(s)) = SideDepth(t, p, Other(s))
    BY <1>2, <1>3, <1>12, <2>1, SideFacts DEF IsMeasured
  <2>6. SideDepth(u, p, Other(s)) = SideDepth(t1, p, Other(s))
    BY <1>8, <2>1, SideFacts
  <2> QED
    BY <2>1, <2>2, <2>3, <2>4, <2>5, <2>6
<1> QED
  BY <1>5, <1>6, <1>7, <1>9, <1>10, <1>11, <1>12 DEF Raised

\* Rebalancing a tilted node raises it.
LEMMA RebalanceRaises ==
    ASSUME NEW t, NEW S, NEW sub, NEW q \in S, Climbing(t, S, sub, q),
           NEW balanced, balanced = RebalanceNode(RecomputeDepth(t, q), q)
    PROVE  \E sub2 : Raised(t, Fill(balanced.tree, Slot(t, q), balanced.top), S, sub,
                            sub2, q, balanced.top)
<1> DEFINE t1 == RecomputeDepth(t, q)
           imbalance == SideDepth(t1, q, "left") - SideDepth(t1, q, "right")
           side == IF imbalance < 0 THEN "right" ELSE "left"
           straight == Straighten(t1, q, side)
           v == Asserted(straight, imbalance \in {-2, 2})
           child == straight[side][q]
<1>1. IsMeasured(t, t1, S, sub, q)
  BY RecomputeMeasures
<1>2. balanced = IF imbalance \in -1..1 THEN [tree |-> t1, top |-> q]
                 ELSE [tree |-> Rotate(v, q, side), top |-> child]
  BY DEF RebalanceNode
<1> HIDE DEF t1
<1>3. CASE imbalance \in -1..1
  <2>1. balanced.tree = t1 /\ balanced.top = q
    BY <1>2, <1>3
  <2>2. Raised(t, Fill(t1, Slot(t, q), q), S, sub, sub, q, q)
    BY <1>1, <1>3, StayRaises
  <2> QED
    BY <2>1, <2>2
<1>4. CASE imbalance \notin -1..1
  <2>1. balanced.tree = Rotate(v, q, side) /\ balanced.top = child
    BY <1>2, <1>4
  <2>2. /\ Shape(t1, S, sub) /\ Linked(t1, S) /\ Subtrees(t1, S, sub) /\ Deep(t1, S)
        /\ t1.sound /\ t1.depth[q] = LongerSide(t1, q)
        /\ t1.parent[q] = t.parent[q]
        /\ \A m \in S \ {q, t1.parent[q]} : Level(t1, m)
        /\ \A s \in Sides : SideDepth(t1, q, s) = SideDepth(t, q, s)
        /\ Linked(t, S) /\ Subtrees(t, S, sub) /\ Deep(t, S) /\ Tilted(t, q)
        /\ q # Null
    BY <1>1, ConstantFacts DEF IsMeasured, Shape, Climbing, Linked
  <2>3. \A s \in Sides : SideDepth(t, q, s) \in Nat /\ SideDepth(t1, q, s) \in Nat
    BY <2>2, SideDepthFacts
  <2>4. /\ side \in Sides
        /\ SideDepth(t1, q, side) = SideDepth(t1, q, Other(side)) + 2
        /\ imbalance \in {-2, 2}
        /\ t.depth[q] - SideDepth(t1, q, Other(side)) \in {1, 2}
    <3>1. \A s \in Sides :
            /\ SideDepth(t1, q, s) - SideDepth(t1, q, Other(s)) \in -2..2
            /\ SideDepth(t1, q, s) - SideDepth(t1, q, Other(s)) = 2 =>
                 t.depth[q] - SideDepth(t1, q, Other(s)) \in {1, 2}
      BY <2>2, <2>3, TiltedIs
    <3>2. imbalance \in -2..2
      BY <3>1, SideFacts
    <3>3. SideDepth(t1, q, "left") \in Nat /\ SideDepth(t1, q, "right") \in Nat
      BY <2>3, SideFacts
    <3>4. CASE imbalance = -2
      BY <3>1, <3>3, <3>4, SideFacts
    <3>5. CASE imbalance = 2
      BY <3>1, <3>3, <3>5, SideFacts
    <3> QED
      BY <1>4, <3>2, <3>4, <3>5
  <2> HIDE DEF side, imbalance
  <2>5. PICK sub2 : IsStraight(t1, straight, S, sub, sub2, q, side)
    BY <2>2, <2>4, StraightenFacts
  <2> HIDE DEF straight
  <2>6. IsAsserted(straight, v, TRUE)
    <3>1. straight \in Trees
      BY <2>5 DEF IsStraight, Shape, Linked
    <3> QED
      BY <2>4, <3>1, AssertedFields
  <2> HIDE DEF v
  <2>7. IsStraight(t1, v, S, sub, sub2, q, side) /\ v[side][q] = child
    <3>1. IsStraight(t1, v, S, sub, sub2, q, side)
      BY <2>4, <2>5, <2>6, AssertedStraight
    <3>2. v[side] = straight[side]
      BY <2>4, <2>6 DEF IsAsserted
    <3> QED
      BY <3>1, <3>2
  <2> HIDE DEF child
  <2>8. /\ Linked(v, S) /\ Subtrees(v, S, sub2) /\ child \in S /\ child # Null
        /\ v.parent[q] = t.parent[q]
        /\ t.parent[q] # Null => \A s \in Sides : v[s][t.parent[q]] = t[s][t.parent[q]]
    <3>1. /\ Linked(v, S) /\ Subtrees(v, S, sub2) /\ child \in S
          /\ v.parent[q] = t.parent[q]
      BY <2>2, <2>7 DEF IsStraight, Shape
    <3>2. child # Null
      BY <2>2, <3>1, ConstantFacts DEF Linked
    <3>3. t.parent[q] # Null => \A s \in Sides : v[s][t.parent[q]] = t1[s][t.parent[q]]
      BY <2>2, <2>7 DEF IsStraight
    <3>4. t.parent[q] # Null => \A s \in Sides : t1[s][t.parent[q]] = t[s][t.parent[q]]
      BY <1>1, <2>2 DEF Linked, IsMeasured
    <3> QED
      BY <3>1, <3>2, <3>3, <3>4
  <2>9. Slot(t, q) = Slot(v, q)
    BY <2>2, <2>8, SlotKept
  <2>10. IsTurn(v, Fill(Rotate(v, q, side), Slot(v, q), child), q, child,
                v[Other(side)][child], side)
    BY <2>4, <2>7, <2>8, TurnMade
  <2>11. Raised(t, Fill(Rotate(v, q, side), Slot(v, q), child), S, sub,
                Turned(v, sub2, q, child, side), q, child)
    BY <1>1, <2>4, <2>7, <2>10, TurnRaises
  <2> QED
    BY <2>1, <2>9, <2>11
<1> QED
  BY <1>3, <1>4

-----------------------------------------------------------------------------
(* Induction and recursion.                                                *)

Numbers == INSTANCE RegionListProofs WITH AddressSpan <- 2, SizeMax <- 1

\* What that module assumes holds of the two numbers given to it here.
LEMMA Widths == Numbers!WidthAssumption
BY DEF Numbers!WidthAssumption

\* Induction from 0 up, over a set.
LEMMA Upward ==
    ASSUME NEW N \in Nat, NEW G,
           \A k \in 0..N : (\A j \in 0..(k - 1) : j \in G) => k \in G
    PROVE  \A k \in 0..N : k \in G
<1> SUFFICES ASSUME NEW z \in 0..N, z \notin G PROVE FALSE
  OBVIOUS
<1> DEFINE T == {k \in 0..N : k \notin G}
<1>1. T \in SUBSET Nat /\ z \in T
  BY DEF T
<1>2. PICK k \in T : \A l \in T : k <= l
  BY <1>1, Widths, Numbers!LeastNumber
<1>3. \A j \in 0..(k - 1) : j \in G
  BY <1>2
<1> QED
  BY <1>2, <1>3

\* A function of the members of D that goes on, where it does not stop, from what it
\* is at two members of lower rank.
IsRecursion(f, D, Stop, base, l, r, h) ==
    /\ f = [m \in D |-> f[m]]
    /\ \A m \in D : f[m] = IF m \in Stop THEN base[m] ELSE h[m][f[l[m]]][f[r[m]]]

\* There is a function with a recursive equation whose calls go down in rank.
LEMMA RecursionExists ==
    ASSUME NEW D, NEW Val, NEW N \in Nat, NEW rank, NEW Stop, NEW base, NEW l, NEW r,
           NEW h,
           \A m \in D : rank[m] \in 0..N,
           \A m \in D : m \in Stop => base[m] \in Val,
           \A m \in D : m \notin Stop => /\ l[m] \in D /\ rank[l[m]] < rank[m]
                                         /\ r[m] \in D /\ rank[r[m]] < rank[m],
           \A m \in D, a, b \in Val : m \notin Stop => h[m][a][b] \in Val
    PROVE  \E f \in [D -> Val] : IsRecursion(f, D, Stop, base, l, r, h)
<1> DEFINE Step(f, m) == IF m \in Stop THEN base[m] ELSE h[m][f[l[m]]][f[r[m]]]
           Upto(f, k) == \A m \in D : rank[m] <= k => f[m] = Step(f, m)
           G == {k \in 0..N : \E f \in [D -> Val] : Upto(f, k)}
<1>1. CASE D = {}
  <2>1. [m \in D |-> base[m]] \in [D -> Val]
    BY <1>1
  <2> QED
    BY <1>1, <2>1 DEF IsRecursion
<1>2. CASE D # {}
  <2>1. Val # {}
    <3>1. PICK z \in D : TRUE
      BY <1>2
    <3> DEFINE R == {rank[m] : m \in D}
    <3>2. R \in SUBSET Nat /\ rank[z] \in R
      OBVIOUS
    <3>3. PICK x \in R : \A y \in R : x <= y
      <4> HIDE DEF R
      <4> QED
        BY <3>2, Widths, Numbers!LeastNumber
    <3>4. PICK m \in D : x = rank[m]
      BY <3>3
    <3>5. m \in Stop
      <4> SUFFICES ASSUME m \notin Stop PROVE FALSE
        OBVIOUS
      <4>1. l[m] \in D /\ rank[l[m]] < rank[m] /\ rank[l[m]] \in R
        OBVIOUS
      <4>2. rank[m] <= rank[l[m]] /\ rank[m] \in Nat /\ rank[l[m]] \in Nat
        BY <3>3, <3>4, <4>1
      <4> QED
        BY <4>1, <4>2
    <3> QED
      BY <3>5
  <2>2. ASSUME NEW k \in 0..N, \A j \in 0..(k - 1) : j \in G PROVE k \in G
    <3>1. PICK f \in [D -> Val] : k > 0 => Upto(f, k - 1)
      <4>1. CASE k = 0
        <5>1. PICK v \in Val : TRUE
          BY <2>1
        <5>2. [m \in D |-> v] \in [D -> Val]
          OBVIOUS
        <5>3. ~ (k > 0)
          BY <4>1
        <5> HIDE DEF Upto
        <5> QED
          BY <5>2, <5>3
      <4>2. CASE k # 0
        <5>1. k - 1 \in G
          BY <2>2, <4>2
        <5> QED
          BY <5>1
      <4> QED
        BY <4>1, <4>2
    <3> DEFINE g == [m \in D |-> Step(f, m)]
    <3>2. g \in [D -> Val]
      <4> SUFFICES ASSUME NEW m \in D PROVE Step(f, m) \in Val
        OBVIOUS
      <4>1. CASE m \in Stop
        BY <4>1
      <4>2. CASE m \notin Stop
        <5>1. f[l[m]] \in Val /\ f[r[m]] \in Val
          BY <4>2
        <5> QED
          BY <4>2, <5>1
      <4> QED
        BY <4>1, <4>2
    <3>3. Upto(g, k)
      <4> SUFFICES ASSUME NEW m \in D, rank[m] <= k PROVE g[m] = Step(g, m)
        OBVIOUS
      <4>1. g[m] = Step(f, m)
        OBVIOUS
      <4>2. CASE m \in Stop
        BY <4>1, <4>2
      <4>3. CASE m \notin Stop
        <5>1. /\ l[m] \in D /\ rank[l[m]] <= k - 1 /\ k > 0
              /\ r[m] \in D /\ rank[r[m]] <= k - 1
          <6>1. /\ l[m] \in D /\ rank[l[m]] < rank[m] /\ r[m] \in D /\ rank[r[m]] < rank[m]
            BY <4>3
          <6>2. rank[l[m]] \in Nat /\ rank[r[m]] \in Nat /\ rank[m] \in Nat
            BY <6>1
          <6> QED
            BY <6>1, <6>2
        <5>2. f[l[m]] = Step(f, l[m]) /\ f[r[m]] = Step(f, r[m])
          BY <3>1, <5>1
        <5>3. g[l[m]] = f[l[m]] /\ g[r[m]] = f[r[m]]
          BY <5>1, <5>2
        <5> QED
          BY <4>1, <4>3, <5>3
      <4> QED
        BY <4>2, <4>3
    <3> QED
      BY <3>2, <3>3
  <2> HIDE DEF G
  <2>3. N \in G
    BY <2>2, Upward
  <2>4. PICK f \in [D -> Val] : Upto(f, N)
    BY <2>3 DEF G
  <2>5. \A m \in D : f[m] = Step(f, m)
    BY <2>4
  <2> QED
    BY <2>5 DEF IsRecursion
<1> QED
  BY <1>1, <1>2

\* The size of what is below a node: less for a child than for its parent.
LEMMA RankFacts ==
    ASSUME NEW t, NEW S, NEW sub, Linked(t, S), Subtrees(t, S, sub)
    PROVE  /\ \A m \in S : /\ IsFiniteSet(sub[m])
                           /\ Cardinality(sub[m]) \in 1..Cardinality(Nodes)
           /\ \A m \in S, s \in Sides : t[s][m] # Null =>
                Cardinality(sub[t[s][m]]) < Cardinality(sub[m])
<1>1. S \subseteq Nodes /\ IsFiniteSet(Nodes) /\ Cardinality(Nodes) \in Nat
  BY ConstantFacts DEF Linked
<1>2. ASSUME NEW m \in S
      PROVE  /\ IsFiniteSet(sub[m])
             /\ Cardinality(sub[m]) \in 1..Cardinality(Nodes)
  <2>1. m \in sub[m] /\ sub[m] \subseteq Nodes
    BY <1>1, SelfBelow
  <2>2. IsFiniteSet(sub[m]) /\ Cardinality(sub[m]) <= Cardinality(Nodes)
    BY <1>1, <2>1, FS_Subset
  <2>3. Cardinality(sub[m]) \in Nat /\ Cardinality(sub[m]) # 0
    BY <2>1, <2>2, FS_CardinalityType, FS_EmptySet
  <2> QED
    BY <1>1, <2>2, <2>3
<1>3. ASSUME NEW m \in S, NEW s \in Sides, t[s][m] # Null
      PROVE  Cardinality(sub[t[s][m]]) < Cardinality(sub[m])
  <2> DEFINE k == t[s][m]
  <2>1. k \in S /\ m \notin sub[k] /\ sub[k] \subseteq sub[m] /\ m \in sub[m]
    BY <1>3, KidFacts, SelfBelow
  <2> HIDE DEF k
  <2>2. IsFiniteSet(sub[m]) /\ Cardinality(sub[m]) \in Nat /\ Cardinality(sub[k]) \in Nat
    BY <1>2, <2>1
  <2>3. /\ Cardinality(sub[k]) <= Cardinality(sub[m])
        /\ Cardinality(sub[k]) = Cardinality(sub[m]) => sub[k] = sub[m]
    BY <2>1, <2>2, FS_Subset
  <2>4. Cardinality(sub[k]) < Cardinality(sub[m])
    BY <2>1, <2>2, <2>3
  <2> QED
    BY <2>4 DEF k
<1> QED
  BY <1>2, <1>3

\* Induction from the leaves up.
LEMMA TreeInduction ==
    ASSUME NEW t, NEW S, NEW sub, Linked(t, S), Subtrees(t, S, sub), NEW G,
           \A n \in S : (\A s \in Sides : t[s][n] # Null => t[s][n] \in G) => n \in G
    PROVE  \A n \in S : n \in G
<1> SUFFICES ASSUME NEW z \in S, z \notin G PROVE FALSE
  OBVIOUS
<1> DEFINE T == {Cardinality(sub[m]) : m \in S \ G}
<1>1. T \in SUBSET Nat /\ Cardinality(sub[z]) \in T
  BY RankFacts
<1>2. PICK x \in T : \A y \in T : x <= y
  <2> HIDE DEF T
  <2> QED
    BY <1>1, Widths, Numbers!LeastNumber
<1>3. PICK n \in S \ G : x = Cardinality(sub[n])
  BY <1>2
<1>4. ASSUME NEW s \in Sides, t[s][n] # Null PROVE t[s][n] \in G
  <2>1. t[s][n] \in S /\ Cardinality(sub[t[s][n]]) < Cardinality(sub[n])
    BY <1>4, RankFacts DEF Linked
  <2>2. ASSUME t[s][n] \notin G PROVE FALSE
    <3>1. Cardinality(sub[t[s][n]]) \in T
      BY <2>1, <2>2
    <3>2. Cardinality(sub[n]) <= Cardinality(sub[t[s][n]])
      BY <1>2, <1>3, <3>1
    <3>3. Cardinality(sub[n]) \in Nat /\ Cardinality(sub[t[s][n]]) \in Nat
      BY <1>1, <1>3, <3>1
    <3> QED
      BY <2>1, <3>2, <3>3
  <2> QED
    BY <2>2
<1> QED
  BY <1>3, <1>4

-----------------------------------------------------------------------------
(* Rebalance.                                                              *)

\* One round takes the climb on to the parent, or ends it.
Ascends(s, s2, S, sub, sub2) ==
    /\ Climbing(s2.tree, S, sub2, s2.at)
    /\ SameOutside(s.tree, s2.tree, S)
    /\ s2.at # Null => Cardinality(sub[s.at]) < Cardinality(sub2[s2.at])

\* A turn of the loop in Rebalance levels a node, and leaves none tilted or one
\* with more below it.
LEMMA AscendClimbs ==
    ASSUME NEW s, NEW S, NEW sub, Climbing(s.tree, S, sub, s.at), s.at # Null
    PROVE  \E sub2 : Ascends(s, Ascend(s), S, sub, sub2)
<1> DEFINE t == s.tree
           q == s.at
           balanced == RebalanceNode(RecomputeDepth(t, q), q)
           top == balanced.top
           u == Fill(balanced.tree, Slot(t, q), balanced.top)
           p == t.parent[q]
           s2 == Ascend(s)
<1>1. /\ Linked(t, S) /\ Subtrees(t, S, sub) /\ Deep(t, S) /\ q \in S /\ Null \notin S
      /\ \A m \in S \ {q} : Level(t, m)
  BY ConstantFacts DEF Climbing, Shape, Linked
<1>2. s2 = [tree |-> u, at |-> IF u.depth[top] = t.depth[q] THEN Null ELSE p]
  BY DEF Ascend
<1>3. PICK sub2 : Raised(t, u, S, sub, sub2, q, top)
  BY <1>1, RebalanceRaises
<1> HIDE DEF u, top, s2
<1>4. /\ Shape(u, S, sub2) /\ Deep(u, S) /\ u.sound /\ SameOutside(t, u, S)
      /\ u.depth[top] \in Nat /\ t.depth[q] \in Nat
      /\ u.depth[top] - t.depth[q] \in -1..1
      /\ \A m \in S \ {p} : Level(u, m)
  BY <1>1, <1>3 DEF Raised, Deep
<1>5. ASSUME p # Null
      PROVE  /\ p \in S /\ p # q
             /\ sub2[p] = sub[p] /\ u.depth[p] = t.depth[p]
             /\ Level(t, p)
             /\ \A r \in Sides : SideDepth(t, p, r) \in Nat
             /\ \E r \in Sides :
                  /\ SideDepth(t, p, r) = t.depth[q] + 1
                  /\ SideDepth(u, p, r) = u.depth[top] + 1
                  /\ SideDepth(u, p, Other(r)) = SideDepth(t, p, Other(r))
  <2>1. p \in S /\ p # q
    BY <1>1, <1>5, ParentFacts
  <2>2. Level(t, p) /\ \A r \in Sides : SideDepth(t, p, r) \in Nat
    BY <1>1, <2>1, SideDepthFacts
  <2>3. /\ sub2[p] = sub[p] /\ u.depth[p] = t.depth[p]
        /\ \E r \in Sides :
              /\ SideDepth(t, p, r) = t.depth[q] + 1
              /\ SideDepth(u, p, r) = u.depth[top] + 1
              /\ SideDepth(u, p, Other(r)) = SideDepth(t, p, Other(r))
    BY <1>3, <1>5 DEF Raised
  <2> QED
    BY <2>1, <2>2, <2>3
<1>6. CASE u.depth[top] = t.depth[q]
  <2>1. ASSUME NEW m \in S PROVE Level(u, m)
    <3>1. CASE m = p
      <4>1. PICK r \in Sides :
                  /\ SideDepth(t, p, r) = t.depth[q] + 1
                  /\ SideDepth(u, p, r) = u.depth[top] + 1
                  /\ SideDepth(u, p, Other(r)) = SideDepth(t, p, Other(r))
        BY <1>1, <1>5, <3>1
      <4>2. \A r2 \in Sides : SideDepth(u, p, r2) = SideDepth(t, p, r2)
        BY <1>6, <4>1, SideFacts
      <4> QED
        BY <1>1, <1>5, <3>1, <4>2, LevelKept
    <3>2. CASE m # p
      BY <1>4, <3>2
    <3> QED
      BY <3>1, <3>2
  <2>2. s2.tree = u /\ s2.at = Null
    BY <1>2, <1>6
  <2>3. Ascends(s, s2, S, sub, sub2)
    BY <1>4, <2>1, <2>2 DEF Ascends, Climbing
  <2> QED
    BY <2>3 DEF s2
<1>7. CASE u.depth[top] # t.depth[q] /\ p = Null
  <2>1. s2.tree = u /\ s2.at = Null
    BY <1>2, <1>7
  <2>2. Ascends(s, s2, S, sub, sub2)
    BY <1>4, <1>7, <2>1 DEF Ascends, Climbing
  <2> QED
    BY <2>2 DEF s2
<1>8. CASE u.depth[top] # t.depth[q] /\ p # Null
  <2>1. s2.tree = u /\ s2.at = p
    BY <1>2, <1>8
  <2>2. Tilted(u, p)
    <3>1. PICK r \in Sides :
                  /\ SideDepth(t, p, r) = t.depth[q] + 1
                  /\ SideDepth(u, p, r) = u.depth[top] + 1
                  /\ SideDepth(u, p, Other(r)) = SideDepth(t, p, Other(r))
      BY <1>5, <1>8
    <3> DEFINE was == t.depth[q] + 1
    <3>2. Other(r) \in Sides
      BY SideFacts
    <3>3. \A r2 \in Sides : SideDepth(t, p, r2) \in Nat /\ SideDepth(t, p, r2) \in Int
      BY <1>5, <1>8
    <3>4. /\ t.depth[p] = Higher(SideDepth(t, p, r), SideDepth(t, p, Other(r)))
          /\ SideDepth(t, p, r) - SideDepth(t, p, Other(r)) \in -1..1
      BY <1>5, <1>8, <3>3, LevelIs
    <3>5. was \in Nat /\ SideDepth(u, p, r) - was \in {-1, 1}
      BY <1>4, <1>8, <3>1
    <3>6. was - SideDepth(u, p, Other(r)) \in -1..1
      BY <3>1, <3>4
    <3>7. u.depth[p] = Higher(was, SideDepth(u, p, Other(r)))
      BY <1>5, <1>8, <3>1, <3>4
    <3> QED
      BY <3>5, <3>6, <3>7 DEF Tilted
  <2>3. Cardinality(sub[q]) < Cardinality(sub2[p])
    <3>1. PICK r \in Sides : t[r][p] = q
      BY <1>1, <1>8, ParentFacts
    <3>2. q # Null
      BY <1>1
    <3> QED
      BY <1>1, <1>5, <1>8, <3>1, <3>2, RankFacts
  <2>4. Ascends(s, s2, S, sub, sub2)
    BY <1>4, <1>5, <1>8, <2>1, <2>2, <2>3 DEF Ascends, Climbing
  <2> QED
    BY <2>4 DEF s2
<1> QED
  BY <1>6, <1>7, <1>8

\* The rounds of Rebalance.
IsRounds(f, t, q) ==
    f = [i \in 0..Cardinality(Nodes) |-> IF i = 0 THEN [tree |-> t, at |-> q]
                                         ELSE Ascend(f[i - 1])]

\* Rebalance is the last of its turns.
LEMMA RoundsExist ==
    ASSUME NEW t, NEW q
    PROVE  \E f : IsRounds(f, t, q) /\ Rebalance(t, q) = f[Cardinality(Nodes)].tree
<1> DEFINE N == Cardinality(Nodes)
           Round(f, i) == IF i = 0 THEN [tree |-> t, at |-> q] ELSE Ascend(f[i - 1])
           G == {k \in 0..N : \E f : \A i \in 0..k : f[i] = Round(f, i)}
           Loop(f) == f = [i \in 0..N |-> Round(f, i)]
           round == CHOOSE f : Loop(f)
<1>1. N \in Nat
  BY ConstantFacts
<1>2. ASSUME NEW k \in 0..N, \A j \in 0..(k - 1) : j \in G PROVE k \in G
  <2>1. PICK f : k > 0 => \A i \in 0..(k - 1) : f[i] = Round(f, i)
    <3>1. CASE k = 0
      BY <3>1
    <3>2. CASE k > 0
      <4>1. k - 1 \in G
        BY <1>2, <3>2
      <4> QED
        BY <4>1
    <3> QED
      BY <3>1, <3>2
  <2> DEFINE last == Round(f, k)
             g == [i \in 0..k |-> IF i = k THEN last ELSE f[i]]
  <2>2. ASSUME NEW i \in 0..k PROVE g[i] = Round(g, i)
    <3>1. CASE i = 0
      BY <2>1, <3>1
    <3>2. CASE i > 0
      <4>1. g[i - 1] = f[i - 1]
        BY <3>2
      <4>2. CASE i = k
        <5>1. last = Ascend(f[i - 1])
          BY <3>2, <4>2
        <5>2. g[i] = last
          BY <4>2
        <5> HIDE DEF last, g
        <5> QED
          BY <3>2, <4>1, <5>1, <5>2
      <4>3. CASE i # k
        <5>1. i \in 0..(k - 1) /\ k > 0 /\ g[i] = f[i]
          BY <4>3
        <5>2. f[i] = Ascend(f[i - 1])
          BY <2>1, <3>2, <5>1
        <5> HIDE DEF g
        <5> QED
          BY <3>2, <4>1, <5>1, <5>2
      <4> QED
        BY <4>2, <4>3
    <3> QED
      BY <3>1, <3>2
  <2> HIDE DEF g
  <2> QED
    BY <2>2
<1> HIDE DEF G
<1>3. N \in G
  BY <1>1, <1>2, Upward
<1>4. PICK f : \A i \in 0..N : f[i] = Round(f, i)
  BY <1>3 DEF G
<1> DEFINE g == [i \in 0..N |-> f[i]]
<1>5. \A i \in 0..N : Round(g, i) = Round(f, i)
  <2> TAKE i \in 0..N
  <2>1. i # 0 => g[i - 1] = f[i - 1]
    BY <1>1
  <2> HIDE DEF g
  <2> QED
    BY <2>1
<1>6. Loop(g)
  BY <1>4, <1>5
<1> HIDE DEF g
<1>7. Loop(round)
  BY <1>6
<1>8. Rebalance(t, q) = round[N].tree
  BY DEF Rebalance
<1>9. IsRounds(round, t, q)
  <2> HIDE DEF round
  <2> QED
    BY <1>7 DEF IsRounds
<1> QED
  BY <1>8, <1>9

\* Rebalance makes every node level.
IsRebalanced(t, u, S, sub2) == Climbing(u, S, sub2, Null) /\ SameOutside(t, u, S)

\* There are turns enough: the loop has ended, and every node is level.
LEMMA RebalanceEnds ==
    ASSUME NEW t, NEW S, NEW sub, NEW q, Climbing(t, S, sub, q)
    PROVE  \E sub2 : IsRebalanced(t, Rebalance(t, q), S, sub2)
<1> DEFINE N == Cardinality(Nodes)
<1>1. PICK f : IsRounds(f, t, q) /\ Rebalance(t, q) = f[N].tree
  BY RoundsExist
<1>2. N \in Nat
  BY ConstantFacts
<1>3. f[0] = [tree |-> t, at |-> q]
  BY <1>1, <1>2 DEF IsRounds
<1>4. \A i \in 1..N : f[i] = Ascend(f[i - 1])
  BY <1>1, <1>2 DEF IsRounds
<1> DEFINE Good(i, sub2) ==
              /\ Climbing(f[i].tree, S, sub2, f[i].at)
              /\ SameOutside(t, f[i].tree, S)
              /\ f[i].at # Null => i < Cardinality(sub2[f[i].at])
           G == {i \in 0..N : \E sub2 : Good(i, sub2)}
<1>5. ASSUME NEW k \in 0..N, \A j \in 0..(k - 1) : j \in G PROVE k \in G
  <2>1. CASE k = 0
    <3>1. SameOutside(t, t, S)
      BY DEF SameOutside
    <3>2. q # Null => 0 < Cardinality(sub[q])
      <4>1. q # Null => q \in S /\ Linked(t, S) /\ Subtrees(t, S, sub)
        BY DEF Climbing, Shape
      <4> QED
        BY <4>1, RankFacts
    <3>3. Good(0, sub)
      BY <1>3, <3>1, <3>2
    <3> QED
      BY <2>1, <3>3
  <2>2. CASE k # 0
    <3>1. k - 1 \in G /\ k \in 1..N
      BY <1>5, <2>2
    <3> DEFINE s == f[k - 1]
    <3>2. PICK sub2 : /\ Climbing(s.tree, S, sub2, s.at)
                      /\ SameOutside(t, s.tree, S)
                      /\ s.at # Null => k - 1 < Cardinality(sub2[s.at])
      BY <3>1
    <3>3. f[k] = Ascend(s)
      BY <1>4, <3>1
    <3> HIDE DEF s
    <3>4. CASE s.at = Null
      <4>1. f[k] = s
        BY <3>3, <3>4 DEF Ascend
      <4>2. Good(k, sub2)
        BY <3>2, <3>4, <4>1
      <4> QED
        BY <4>2
    <3>5. CASE s.at # Null
      <4>1. PICK sub3 : Ascends(s, f[k], S, sub2, sub3)
        BY <3>2, <3>3, <3>5, AscendClimbs
      <4>2. /\ Climbing(f[k].tree, S, sub3, f[k].at)
            /\ SameOutside(t, f[k].tree, S)
        BY <3>2, <4>1, SameOutsideTransitive DEF Ascends
      <4>3. ASSUME f[k].at # Null PROVE k < Cardinality(sub3[f[k].at])
        <5>1. /\ s.at \in S /\ f[k].at \in S
              /\ Linked(s.tree, S) /\ Subtrees(s.tree, S, sub2)
              /\ Linked(f[k].tree, S) /\ Subtrees(f[k].tree, S, sub3)
          BY <3>2, <3>5, <4>2, <4>3 DEF Climbing, Shape
        <5>2. Cardinality(sub2[s.at]) \in Nat /\ Cardinality(sub3[f[k].at]) \in Nat
          BY <5>1, RankFacts
        <5>3. Cardinality(sub2[s.at]) < Cardinality(sub3[f[k].at])
          BY <4>1, <4>3 DEF Ascends
        <5>4. k - 1 < Cardinality(sub2[s.at])
          BY <3>2, <3>5
        <5> QED
          BY <5>2, <5>3, <5>4
      <4>4. Good(k, sub3)
        BY <4>2, <4>3
      <4> QED
        BY <4>4
    <3> QED
      BY <3>4, <3>5
  <2> QED
    BY <2>1, <2>2
<1> HIDE DEF G
<1>6. N \in G
  BY <1>2, <1>5, Upward
<1>7. PICK sub2 : Good(N, sub2)
  BY <1>6 DEF G
<1>8. f[N].at = Null
  <2> SUFFICES ASSUME f[N].at # Null PROVE FALSE
    OBVIOUS
  <2>1. /\ f[N].at \in S /\ Linked(f[N].tree, S) /\ Subtrees(f[N].tree, S, sub2)
    BY <1>7 DEF Climbing, Shape
  <2>2. Cardinality(sub2[f[N].at]) \in 1..N
    BY <2>1, RankFacts
  <2> QED
    BY <1>2, <1>7, <2>2
<1>9. IsRebalanced(t, Rebalance(t, q), S, sub2)
  BY <1>1, <1>7, <1>8 DEF IsRebalanced
<1> QED
  BY <1>9

-----------------------------------------------------------------------------
(* Add.                                                                    *)

\* What is below a node that is below another is below that one.
LEMMA BelowTransitive ==
    ASSUME NEW t, NEW S, NEW sub, Linked(t, S), Subtrees(t, S, sub), NEW n \in S,
           NEW m \in sub[n]
    PROVE  m \in S /\ sub[m] \subseteq sub[n]
<1> DEFINE G == {k \in S : \A j \in sub[k] : sub[j] \subseteq sub[k]}
<1>1. ASSUME NEW k \in S, \A s \in Sides : t[s][k] # Null => t[s][k] \in G
      PROVE  k \in G
  <2>1. ASSUME NEW j \in sub[k] PROVE sub[j] \subseteq sub[k]
    <3>1. CASE j = k
      BY <3>1
    <3>2. CASE j # k
      <4>1. PICK s \in Sides : j \in Branch(t, sub, k, s)
        BY <2>1, <3>2, SideFacts DEF Subtrees, Split
      <4>2. t[s][k] # Null /\ j \in sub[t[s][k]]
        BY <4>1 DEF Branch
      <4>3. sub[t[s][k]] \subseteq sub[k]
        BY <4>2, KidFacts
      <4>4. sub[j] \subseteq sub[t[s][k]]
        BY <1>1, <4>2
      <4> QED
        BY <4>3, <4>4
    <3> QED
      BY <3>1, <3>2
  <2> QED
    BY <2>1
<1> HIDE DEF G
<1>2. n \in G
  BY <1>1, TreeInduction
<1> QED
  BY <1>2, SelfBelow DEF G

\* A node is below another on one side, and then what is below it is.
LEMMA BranchTransitive ==
    ASSUME NEW t, NEW S, NEW sub, Linked(t, S), Subtrees(t, S, sub), NEW n \in S,
           NEW s \in Sides, NEW m \in Branch(t, sub, n, s)
    PROVE  /\ t[s][n] # Null /\ t[s][n] \in S /\ m \in sub[t[s][n]]
           /\ m \in S /\ m \in sub[n]
           /\ sub[m] \subseteq Branch(t, sub, n, s)
           /\ sub[m] \subseteq sub[n]
<1>1. t[s][n] # Null /\ m \in sub[t[s][n]] /\ Branch(t, sub, n, s) = sub[t[s][n]]
  BY DEF Branch
<1>2. t[s][n] \in S /\ sub[t[s][n]] \subseteq sub[n]
  BY <1>1, KidFacts
<1> QED
  BY <1>1, <1>2, BelowTransitive

\* A place below n for the node x: nothing hangs there, and x may hang there for
\* every node that it would be below.
IsLeafSlot(t, sub, slot, n, x) ==
    \E o \in sub[n], s \in Sides :
        /\ slot = [owner |-> o, side |-> s]
        /\ t[s][o] = Null
        /\ Precedes(s, x, o)
        /\ \A m \in sub[n], r \in Sides :
                o \in Branch(t, sub, m, r) => Precedes(r, x, m)

\* LeafSlot finds one.
LEMMA LeafSlotFound ==
    ASSUME NEW t, NEW sub, Linked(t, lent), Subtrees(t, lent, sub), NEW n \in lent,
           NEW x \in Nodes
    PROVE  IsLeafSlot(t, sub, LeafSlot(t, ValueOf[x], n), n, x)
<1> DEFINE v == ValueOf[x]
           side(m) == IF v > ValueOf[m] THEN "right" ELSE "left"
           sides == [m \in lent |-> side(m)]
           Stop == {m \in lent : t[side(m)][m] = Null}
           base == [m \in lent |-> [owner |-> m, side |-> side(m)]]
           next == [m \in lent |-> t[side(m)][m]]
           Val == [owner : lent, side : Sides]
           h == [m \in lent |-> [a \in Val |-> [b \in Val |-> a]]]
           rank == [m \in lent |-> Cardinality(sub[m])]
           Loop(f) == f = [m \in lent |-> IF t[side(m)][m] = Null
                                          THEN [owner |-> m, side |-> side(m)]
                                          ELSE f[t[side(m)][m]]]
           from == CHOOSE f : Loop(f)
<1>1. LeafSlot(t, v, n) = from[n]
  BY DEF LeafSlot
<1>2. \A m \in lent : side(m) \in Sides
  BY SideFacts
<1>3. \A m \in lent : m \in Nodes /\ t[side(m)][m] \in lent \cup {Null}
  BY <1>2 DEF Linked
<1>4. \E f : Loop(f)
  <2>1. Cardinality(Nodes) \in Nat
    BY ConstantFacts
  <2>2. \A m \in lent : rank[m] \in 0..Cardinality(Nodes)
    BY RankFacts
  <2>3. \A m \in lent : m \in Stop => base[m] \in Val
    BY <1>2
  <2>4. \A m \in lent : m \notin Stop => /\ next[m] \in lent /\ rank[next[m]] < rank[m]
                                         /\ next[m] \in lent /\ rank[next[m]] < rank[m]
    BY <1>2, <1>3, RankFacts
  <2>5. \A m \in lent, a, b \in Val : m \notin Stop => h[m][a][b] \in Val
    OBVIOUS
  <2>6. \E f \in [lent -> Val] : IsRecursion(f, lent, Stop, base, next, next, h)
    <3> HIDE DEF Stop, base, next, Val, h, rank
    <3> QED
      BY <2>1, <2>2, <2>3, <2>4, <2>5, RecursionExists
  <2>7. PICK f \in [lent -> Val] : IsRecursion(f, lent, Stop, base, next, next, h)
    BY <2>6
  <2>8. ASSUME NEW m \in lent
        PROVE  f[m] = IF t[side(m)][m] = Null THEN [owner |-> m, side |-> side(m)]
                      ELSE f[t[side(m)][m]]
    <3>1. f[m] = IF m \in Stop THEN base[m] ELSE h[m][f[next[m]]][f[next[m]]]
      BY <2>7 DEF IsRecursion
    <3>2. CASE m \in Stop
      BY <3>1, <3>2
    <3>3. CASE m \notin Stop
      <4>1. f[next[m]] \in Val
        BY <2>4, <2>7, <3>3
      <4>2. h[m][f[next[m]]][f[next[m]]] = f[next[m]]
        <5> HIDE DEF next, Val
        <5> QED
          BY <4>1
      <4> QED
        BY <3>1, <3>3, <4>2
    <3> QED
      BY <3>2, <3>3
  <2>9. f = [m \in lent |-> f[m]]
    BY <2>7
  <2> HIDE DEF side
  <2>10. Loop(f)
    BY <2>8, <2>9
  <2> QED
    BY <2>10
<1>5. Loop(from)
  <2> HIDE DEF Loop
  <2> QED
    BY <1>4
<1> HIDE DEF from
<1>6. \A m \in lent : from[m] = IF t[side(m)][m] = Null
                                THEN [owner |-> m, side |-> side(m)]
                                ELSE from[t[side(m)][m]]
  BY <1>5
<1>7. ASSUME NEW m \in lent PROVE Precedes(side(m), x, m)
  BY <1>3, ConstantFacts DEF Precedes
<1> DEFINE G == {m \in lent : IsLeafSlot(t, sub, from[m], m, x)}
<1>8. ASSUME NEW k \in lent, \A s \in Sides : t[s][k] # Null => t[s][k] \in G
      PROVE  k \in G
  <2> DEFINE s == side(k)
  <2>1. s \in Sides /\ Precedes(s, x, k) /\ k \in sub[k]
    BY <1>2, <1>7, SelfBelow
  <2>2. CASE t[s][k] = Null
    <3>1. from[k] = [owner |-> k, side |-> s]
      BY <1>6, <2>2
    <3> HIDE DEF s
    <3>2. ASSUME NEW m \in sub[k], NEW r \in Sides, k \in Branch(t, sub, m, r)
          PROVE  FALSE
      <4>1. m \in lent /\ sub[m] \subseteq sub[k]
        BY BelowTransitive
      <4>2. k \in sub[m] /\ k # m
        BY <3>2, <4>1, BranchTransitive, SideFacts DEF Subtrees, Split, Sides
      <4>3. sub[k] \subseteq sub[m]
        BY <4>1, <4>2, BelowTransitive
      <4>4. t[r][m] # Null /\ t[r][m] \in lent /\ k \in sub[t[r][m]]
        BY <3>2, <4>1, BranchTransitive
      <4>5. sub[k] \subseteq sub[t[r][m]]
        BY <4>4, BelowTransitive
      <4>6. m \notin sub[t[r][m]]
        BY <4>1, <4>4, KidFacts
      <4> QED
        BY <3>2, <4>5, <4>6
    <3>3. IsLeafSlot(t, sub, from[k], k, x)
      BY <2>1, <2>2, <3>1, <3>2 DEF IsLeafSlot
    <3> QED
      BY <3>3
  <2>3. CASE t[s][k] # Null
    <3> DEFINE c == t[s][k]
    <3>1. from[k] = from[c] /\ c \in lent /\ IsLeafSlot(t, sub, from[c], c, x)
      BY <1>6, <1>8, <2>1, <2>3
    <3>2. Branch(t, sub, k, s) = sub[c] /\ sub[c] \subseteq sub[k]
      BY <2>1, <2>3, KidFacts
    <3> HIDE DEF c, s
    <3>3. PICK o \in sub[c], a \in Sides :
             /\ from[c] = [owner |-> o, side |-> a]
             /\ t[a][o] = Null
             /\ Precedes(a, x, o)
             /\ \A m \in sub[c], r \in Sides :
                     o \in Branch(t, sub, m, r) => Precedes(r, x, m)
      BY <3>1 DEF IsLeafSlot
    <3>4. Split(sub[k], k, sub[c], Branch(t, sub, k, Other(s)))
      BY <2>1, <3>2, SplitAt
    <3>5. ASSUME NEW m \in sub[k], NEW r \in Sides, o \in Branch(t, sub, m, r)
          PROVE  Precedes(r, x, m)
      <4>1. CASE m \in sub[c]
        BY <3>3, <3>5, <4>1
      <4>2. CASE m = k
        <5>1. r = s
          <6> SUFFICES ASSUME r = Other(s) PROVE FALSE
            BY <2>1, SideFacts
          <6> QED
            BY <3>4, <3>5, <4>2 DEF Split
        <5> QED
          BY <2>1, <4>2, <5>1
      <4>3. CASE m \in Branch(t, sub, k, Other(s))
        <5>1. m \in lent /\ sub[m] \subseteq Branch(t, sub, k, Other(s))
          BY <2>1, <4>3, SideFacts, BranchTransitive
        <5>2. o \in sub[m]
          BY <3>5, <5>1, BranchTransitive
        <5> QED
          BY <3>4, <5>1, <5>2 DEF Split
      <4> QED
        BY <3>4, <4>1, <4>2, <4>3 DEF Split
    <3>6. o \in sub[k]
      BY <3>2
    <3>7. IsLeafSlot(t, sub, from[k], k, x)
      BY <3>1, <3>3, <3>5, <3>6 DEF IsLeafSlot
    <3> QED
      BY <3>7
  <2> QED
    BY <2>2, <2>3
<1> HIDE DEF G
<1>9. n \in G
  BY <1>8, TreeInduction
<1> QED
  BY <1>1, <1>9 DEF G

\* The node x is hung where the link of o on one side leads nowhere.
IsHung(t, u, o, side, x) ==
    /\ u \in Trees /\ u.root = t.root /\ u.sound = t.sound
    /\ \A m \in Nodes : /\ u.parent[m] = IF m = x THEN o ELSE t.parent[m]
                        /\ u.depth[m] = t.depth[m]
    /\ \A s \in Sides, m \in Nodes :
            u[s][m] = IF m = o /\ s = side THEN x ELSE t[s][m]

\* What is below each node then.
Hung(sub, S, o, x) ==
    [m \in S \cup {x} |-> IF m = x THEN {x}
                          ELSE IF o \in sub[m] THEN sub[m] \cup {x} ELSE sub[m]]

\* A node hung at a leaf slot.
LEMMA HungShape ==
    ASSUME NEW t, NEW u, NEW S, NEW sub, Shape(t, S, sub), NEW x \in Nodes, x \notin S,
           NEW o \in S, NEW side \in Sides, t[side][o] = Null,
           \A s \in Sides : t[s][x] = Null,
           Precedes(side, x, o),
           \A m \in S, r \in Sides : o \in Branch(t, sub, m, r) => Precedes(r, x, m),
           IsHung(t, u, o, side, x),
           NEW sub2, sub2 = Hung(sub, S, o, x)
    PROVE  Shape(u, S \cup {x}, sub2)
<1> DEFINE S2 == S \cup {x}
<1>1. /\ Linked(t, S) /\ Subtrees(t, S, sub) /\ Ordered(t, S, sub)
      /\ S \subseteq Nodes /\ Null \notin S /\ x # Null
  BY ConstantFacts DEF Shape, Linked
<1>2. /\ \A n \in S, s \in Sides : t[s][n] \in S \cup {Null}
      /\ \A n \in S, s \in Sides : t[s][n] # Null => t.parent[t[s][n]] = n
      /\ \A n \in S : t.parent[n] = Null => n = t.root
      /\ \A n \in S : t.parent[n] # Null =>
            t.parent[n] \in S /\ \E s \in Sides : t[s][t.parent[n]] = n
      /\ t.root \in S
      /\ t.parent[t.root] = Null
  BY <1>1 DEF Linked
<1>3. /\ u \in Trees /\ u.root = t.root
      /\ \A m \in S2 : u.parent[m] = IF m = x THEN o ELSE t.parent[m]
      /\ \A s \in Sides, m \in S2 : u[s][m] = IF m = o /\ s = side THEN x ELSE t[s][m]
  BY <1>1 DEF IsHung
<1>4. Linked(u, S2)
  <2>1. \A n \in S2, s \in Sides : u[s][n] \in S2 \cup {Null}
    BY <1>2, <1>3
  <2>2. \A n \in S2, s \in Sides : u[s][n] # Null => u.parent[u[s][n]] = n
    BY <1>2, <1>3
  <2>3. \A n \in S2 : u.parent[n] = Null => n = u.root
    BY <1>1, <1>2, <1>3
  <2>4. ASSUME NEW n \in S2, u.parent[n] # Null
        PROVE  u.parent[n] \in S2 /\ \E s \in Sides : u[s][u.parent[n]] = n
    <3>1. CASE n = x
      BY <1>3, <3>1
    <3>2. CASE n # x
      <4>1. t.parent[n] \in S /\ u.parent[n] = t.parent[n]
        BY <1>2, <1>3, <2>4, <3>2
      <4>2. PICK s \in Sides : t[s][t.parent[n]] = n
        BY <1>2, <2>4, <3>2, <4>1
      <4>3. n # Null
        BY <1>1
      <4>4. u[s][u.parent[n]] = n
        BY <1>3, <4>1, <4>2, <4>3
      <4> QED
        BY <4>1, <4>4
    <3> QED
      BY <3>1, <3>2
  <2>5. u.root \in S2 /\ u.parent[u.root] = Null
    BY <1>2, <1>3
  <2> QED
    BY <1>1, <1>3, <2>1, <2>2, <2>3, <2>4, <2>5 DEF Linked
<1>5. /\ \A m \in S : sub[m] \in SUBSET S
      /\ \A m \in S2 : sub2[m] = IF m = x THEN {x}
                                 ELSE IF o \in sub[m] THEN sub[m] \cup {x} ELSE sub[m]
      /\ sub2 \in [S2 -> SUBSET S2]
  BY <1>1 DEF Hung, Subtrees
<1>6. \A s \in Sides : Branch(u, sub2, x, s) = {}
  BY <1>3 DEF Branch
<1>7. ASSUME NEW m \in S, NEW s \in Sides
      PROVE  Branch(u, sub2, m, s) = IF (m = o /\ s = side) \/ o \in Branch(t, sub, m, s)
                                     THEN Branch(t, sub, m, s) \cup {x}
                                     ELSE Branch(t, sub, m, s)
  <2>1. CASE m = o /\ s = side
    <3>1. Branch(u, sub2, m, s) = {x} /\ Branch(t, sub, m, s) = {}
      BY <1>1, <1>3, <1>5, <2>1 DEF Branch
    <3> QED
      BY <2>1, <3>1
  <2>2. CASE ~ (m = o /\ s = side) /\ t[s][m] = Null
    BY <1>3, <2>2 DEF Branch
  <2>3. CASE ~ (m = o /\ s = side) /\ t[s][m] # Null
    <3>1. t[s][m] \in S /\ u[s][m] = t[s][m] /\ t[s][m] # x
      BY <1>2, <1>3, <2>3
    <3> QED
      BY <1>5, <2>3, <3>1 DEF Branch
  <2> QED
    BY <2>1, <2>2, <2>3
<1>8. ASSUME NEW m \in S2
      PROVE  Split(sub2[m], m, Branch(u, sub2, m, "left"), Branch(u, sub2, m, "right"))
  <2>1. CASE m = x
    <3>1. sub2[m] = {m}
      BY <1>5, <1>8, <2>1
    <3>2. Branch(u, sub2, m, "left") = {} /\ Branch(u, sub2, m, "right") = {}
      BY <1>6, <2>1, SideFacts
    <3> QED
      BY <3>1, <3>2 DEF Split
  <2>2. CASE m # x
    <3> DEFINE L == Branch(t, sub, m, "left")
               R == Branch(t, sub, m, "right")
    <3>1. Split(sub[m], m, L, R) /\ m \in S
      BY <1>1, <2>2 DEF Subtrees
    <3>2. Branch(u, sub2, m, "left") = IF (m = o /\ "left" = side) \/ o \in L
                                       THEN L \cup {x} ELSE L
      BY <1>7, <3>1, SideFacts
    <3>3. Branch(u, sub2, m, "right") = IF (m = o /\ "right" = side) \/ o \in R
                                        THEN R \cup {x} ELSE R
      BY <1>7, <3>1, SideFacts
    <3>4. sub2[m] = (IF o \in sub[m] THEN sub[m] \cup {x} ELSE sub[m]) /\ x \notin sub[m]
      BY <1>5, <2>2, <3>1
    <3> HIDE DEF L, R
    <3>5. CASE m = o
      BY <2>2, <3>1, <3>2, <3>3, <3>4, <3>5 DEF Split, Sides
    <3>6. CASE m # o
      BY <2>2, <3>1, <3>2, <3>3, <3>4, <3>6 DEF Split
    <3> QED
      BY <3>5, <3>6
  <2> QED
    BY <2>1, <2>2
<1>9. sub2[u.root] = S2
  <2>1. sub[t.root] = S
    BY <1>1, <1>2 DEF Subtrees
  <2>2. u.root = t.root /\ t.root \in S2 /\ t.root # x /\ o \in sub[t.root]
    BY <1>2, <1>3, <2>1
  <2>3. sub2[t.root] = S \cup {x}
    BY <1>5, <2>1, <2>2
  <2> QED
    BY <2>2, <2>3
<1>10. Subtrees(u, S2, sub2)
  BY <1>5, <1>8, <1>9 DEF Subtrees
<1>11. ASSUME NEW m \in S2, NEW s \in Sides, NEW k \in Branch(u, sub2, m, s)
       PROVE  Precedes(s, k, m)
  <2>1. m \in S
    BY <1>6
  <2>2. CASE k \in Branch(t, sub, m, s)
    BY <1>1, <2>1, <2>2 DEF Ordered
  <2>3. CASE k \notin Branch(t, sub, m, s)
    <3>1. k = x /\ ((m = o /\ s = side) \/ o \in Branch(t, sub, m, s))
      BY <1>7, <2>1, <2>3
    <3> QED
      BY <2>1, <3>1
  <2> QED
    BY <2>2, <2>3
<1>12. Ordered(u, S2, sub2)
  BY <1>11 DEF Ordered
<1> QED
  BY <1>4, <1>10, <1>12 DEF Shape

\* The climb from there.
LEMMA HungClimbs ==
    ASSUME NEW t, NEW u, NEW S, NEW sub, Climbing(t, S, sub, Null),
           NEW x \in Nodes, x \notin S,
           NEW o \in S, NEW side \in Sides, t[side][o] = Null,
           \A s \in Sides : t[s][x] = Null, t.depth[x] = 0,
           Precedes(side, x, o),
           \A m \in S, r \in Sides : o \in Branch(t, sub, m, r) => Precedes(r, x, m),
           IsHung(t, u, o, side, x)
    PROVE  Climbing(u, S \cup {x}, Hung(sub, S, o, x), o)
<1> DEFINE S2 == S \cup {x}
           sub2 == Hung(sub, S, o, x)
<1>1. /\ Shape(t, S, sub) /\ Linked(t, S) /\ Deep(t, S) /\ t.sound /\ S \subseteq Nodes
      /\ \A m \in S : Level(t, m)
      /\ Null \notin S /\ x # Null
      /\ \A m \in S, s \in Sides : t[s][m] \in S \cup {Null}
  BY ConstantFacts DEF Climbing, Shape, Linked
<1>2. /\ u.sound
      /\ \A m \in S2 : u.depth[m] = t.depth[m]
      /\ \A s \in Sides, m \in S2 : u[s][m] = IF m = o /\ s = side THEN x ELSE t[s][m]
  BY <1>1 DEF IsHung
<1>3. Shape(u, S2, sub2)
  BY <1>1, HungShape
<1>4. Deep(u, S2)
  BY <1>1, <1>2 DEF Deep
<1>5. ASSUME NEW m \in S2, NEW s \in Sides, ~ (m = o /\ s = side)
      PROVE  SideDepth(u, m, s) = SideDepth(t, m, s)
  BY <1>1, <1>2, <1>5 DEF SideDepth
<1>6. ASSUME NEW m \in S2 \ {o} PROVE Level(u, m)
  <2>1. CASE m = x
    <3>1. SideDepth(u, m, "left") = 0 /\ SideDepth(u, m, "right") = 0 /\ u.depth[m] = 0
      BY <1>2, <2>1, SideFacts DEF SideDepth
    <3> QED
      BY <3>1 DEF Level, LongerSide
  <2>2. CASE m # x
    BY <1>1, <1>2, <1>5, <2>2, LevelKept
  <2> QED
    BY <2>1, <2>2
<1>7. Tilted(u, o)
  <2>1. \A s \in Sides : SideDepth(t, o, s) \in Int /\ SideDepth(t, o, s) \in Nat
    BY <1>1, SideDepthFacts
  <2>2. /\ t.depth[o] = Higher(SideDepth(t, o, side), SideDepth(t, o, Other(side)))
        /\ SideDepth(t, o, side) - SideDepth(t, o, Other(side)) \in -1..1
    BY <1>1, <2>1, LevelIs
  <2>3. SideDepth(t, o, side) = 0 /\ SideDepth(u, o, side) = 1
    BY <1>1, <1>2 DEF SideDepth
  <2>4. Other(side) \in Sides /\ SideDepth(u, o, Other(side)) = SideDepth(t, o, Other(side))
    BY <1>5, SideFacts
  <2>5. /\ SideDepth(u, o, side) - 0 \in {-1, 1}
        /\ 0 - SideDepth(u, o, Other(side)) \in -1..1
        /\ u.depth[o] = Higher(0, SideDepth(u, o, Other(side)))
    BY <1>2, <2>2, <2>3, <2>4
  <2> QED
    BY <2>5 DEF Tilted
<1> QED
  BY <1>1, <1>2, <1>3, <1>4, <1>6, <1>7 DEF Climbing

\* Memory that is not in use is marked.
Clean(t, S) ==
    \A m \in Nodes \ S : /\ \A s \in Sides : t[s][m] = Freed
                         /\ t.parent[m] = Freed /\ t.depth[m] = Freed

\* The tree between two operations: all that is promised of it is a consequence.
Sane(t, S, sub) == Climbing(t, S, sub, Null) /\ Clean(t, S)

\* Where Rebalance leaves a tree in which nothing else has been marked.
LEMMA RebalanceSane ==
    ASSUME NEW t, NEW S, NEW sub, NEW q, Climbing(t, S, sub, q), Clean(t, S)
    PROVE  \E sub2 : Sane(Rebalance(t, q), S, sub2)
<1>1. PICK sub2 : IsRebalanced(t, Rebalance(t, q), S, sub2)
  BY RebalanceEnds
<1>2. Clean(Rebalance(t, q), S)
  BY <1>1 DEF IsRebalanced, SameOutside, Clean
<1> QED
  BY <1>1, <1>2 DEF IsRebalanced, Sane

\* Memory for a node is ready to use.
IsAllocated(t, u, x) ==
    /\ u \in Trees /\ u.root = t.root /\ u.sound = t.sound
    /\ \A m \in Nodes : /\ u.parent[m] = IF m = x THEN Null ELSE t.parent[m]
                        /\ u.depth[m] = IF m = x THEN 0 ELSE t.depth[m]
    /\ \A s \in Sides, m \in Nodes : u[s][m] = IF m = x THEN Null ELSE t[s][m]

\* AllocNode clears the fields of one node.
LEMMA AllocFields ==
    ASSUME NEW t \in Trees, NEW x \in Nodes
    PROVE  IsAllocated(t, AllocNode(t, x), x)
<1> DEFINE u == AllocNode(t, x)
<1>1. /\ u.root = t.root /\ u.sound = t.sound
      /\ u.left = [t.left EXCEPT ![x] = Null] /\ u.right = [t.right EXCEPT ![x] = Null]
      /\ u.parent = [t.parent EXCEPT ![x] = Null] /\ u.depth = [t.depth EXCEPT ![x] = 0]
  BY DEF Trees, AllocNode
<1>2. u \in Trees
  <2> DEFINE t1 == [t EXCEPT !.left = u.left]
             t2 == [t1 EXCEPT !.right = u.right]
             t3 == [t2 EXCEPT !.parent = u.parent]
             t4 == [t3 EXCEPT !.depth = u.depth]
  <2>1. /\ u.left \in [Nodes -> Link] /\ u.right \in [Nodes -> Link]
        /\ u.parent \in [Nodes -> Link] /\ u.depth \in [Nodes -> Int]
    BY <1>1 DEF Trees, Link
  <2>2. u = t4
    BY <1>1 DEF AllocNode
  <2> HIDE DEF u
  <2>3. t1 \in Trees
    BY <2>1 DEF Trees
  <2>4. t2 \in Trees
    BY <2>1, <2>3 DEF Trees
  <2>5. t3 \in Trees
    BY <2>1, <2>4 DEF Trees
  <2>6. t4 \in Trees
    BY <2>1, <2>5 DEF Trees
  <2> QED
    BY <2>2, <2>6
<1> HIDE DEF u
<1>3. \A m \in Nodes : /\ u.parent[m] = IF m = x THEN Null ELSE t.parent[m]
                       /\ u.depth[m] = IF m = x THEN 0 ELSE t.depth[m]
                       /\ u.left[m] = IF m = x THEN Null ELSE t.left[m]
                       /\ u.right[m] = IF m = x THEN Null ELSE t.right[m]
  BY <1>1 DEF Trees
<1>4. \A s \in Sides, m \in Nodes : u[s][m] = IF m = x THEN Null ELSE t[s][m]
  BY <1>2, <1>3, TreeFields DEF Sides
<1>5. IsAllocated(t, u, x)
  BY <1>1, <1>2, <1>3, <1>4 DEF IsAllocated
<1> QED
  BY <1>5 DEF u

\* A tree whose nodes in use are as they were is as far in a climb as it was.
LEMMA ClimbingKept ==
    ASSUME NEW t, NEW u, NEW S, NEW sub, NEW q, Climbing(t, S, sub, q),
           u \in Trees, u.root = t.root, u.sound = t.sound,
           \A m \in S : u.parent[m] = t.parent[m] /\ u.depth[m] = t.depth[m],
           \A m \in S, s \in Sides : u[s][m] = t[s][m]
    PROVE  Climbing(u, S, sub, q)
<1>1. /\ Shape(t, S, sub) /\ Linked(t, S) /\ Deep(t, S) /\ t.sound /\ S \subseteq Nodes
      /\ \A m \in S \ {q} : Level(t, m)
      /\ \A m \in S, s \in Sides : t[s][m] \in S \cup {Null}
      /\ Null \notin S
  BY ConstantFacts DEF Climbing, Shape, Linked
<1>2. Shape(u, S, sub)
  BY <1>1, SameShape
<1>3. \A m \in S, s \in Sides : SideDepth(u, m, s) = SideDepth(t, m, s)
  BY <1>1 DEF SideDepth
<1>4. \A m \in S \ {q} : Level(u, m)
  BY <1>1, <1>3, LevelKept
<1>5. Deep(u, S)
  BY <1>1 DEF Deep
<1>6. q \in S \cup {Null} /\ (q # Null => Tilted(u, q))
  <2>1. q \in S \cup {Null} /\ (q # Null => Tilted(t, q))
    BY DEF Climbing
  <2>2. ASSUME q # Null PROVE Tilted(u, q)
    <3>1. PICK s \in Sides, was \in Nat :
            /\ SideDepth(t, q, s) - was \in {-1, 1}
            /\ was - SideDepth(t, q, Other(s)) \in -1..1
            /\ t.depth[q] = Higher(was, SideDepth(t, q, Other(s)))
      BY <2>1, <2>2 DEF Tilted
    <3>2. /\ SideDepth(u, q, s) = SideDepth(t, q, s)
          /\ SideDepth(u, q, Other(s)) = SideDepth(t, q, Other(s))
          /\ u.depth[q] = t.depth[q]
      BY <1>3, <2>1, <2>2, SideFacts
    <3> QED
      BY <3>1, <3>2 DEF Tilted
  <2> QED
    BY <2>1, <2>2
<1> QED
  BY <1>1, <1>2, <1>4, <1>5, <1>6 DEF Climbing

\* Memory that is allocated changes nothing of what is in use.
LEMMA AllocClimbs ==
    ASSUME NEW t, NEW u, NEW S, NEW sub, Climbing(t, S, sub, Null), NEW x \in Nodes,
           x \notin S, IsAllocated(t, u, x)
    PROVE  Climbing(u, S, sub, Null)
<1>1. S \subseteq Nodes
  BY DEF Climbing, Shape, Linked
<1>2. /\ u \in Trees /\ u.root = t.root /\ u.sound = t.sound
      /\ \A m \in S : u.parent[m] = t.parent[m] /\ u.depth[m] = t.depth[m]
      /\ \A m \in S, s \in Sides : u[s][m] = t[s][m]
  BY <1>1 DEF IsAllocated
<1> QED
  BY <1>2, ClimbingKept

\* What Add makes of the tree is a tree of one node more.
LEMMA AddSane ==
    ASSUME NEW sub, Sane(tree, lent, sub), NEW n \in Nodes, Add(n)
    PROVE  \E sub2 : Sane(tree', lent', sub2)
<1> DEFINE t == AllocNode(tree, n)
           slot == LeafSlot(t, ValueOf[n], t.root)
<1>1. /\ n \notin lent /\ lent' = lent \cup {n}
      /\ tree' = IF t.root = Null THEN [t EXCEPT !.root = n]
                 ELSE Rebalance(Replace(t, slot, n), slot.owner)
  BY DEF Add
<1>2. Climbing(tree, lent, sub, Null) /\ Clean(tree, lent) /\ tree \in Trees
  BY DEF Sane, Climbing, Shape, Linked
<1>3. IsAllocated(tree, t, n)
  BY <1>2, AllocFields
<1> HIDE DEF t
<1>4. Climbing(t, lent, sub, Null)
  BY <1>1, <1>2, <1>3, AllocClimbs
<1>5. /\ t \in Trees /\ Linked(t, lent) /\ Subtrees(t, lent, sub) /\ t.sound
      /\ t.root \in lent \cup {Null} /\ (t.root = Null => lent = {})
      /\ lent \subseteq Nodes /\ n # Null
  BY <1>4, ConstantFacts DEF Climbing, Shape, Linked
<1>6. Clean(t, lent \cup {n})
  BY <1>2, <1>3 DEF Clean, IsAllocated
<1>7. t.parent[n] = Null /\ t.depth[n] = 0 /\ \A s \in Sides : t[s][n] = Null
  BY <1>3 DEF IsAllocated
<1>8. CASE t.root = Null
  <2> DEFINE u == [t EXCEPT !.root = n]
             S == {n}
             sub2 == [m \in S |-> S]
  <2>1. tree' = u /\ lent' = S
    BY <1>1, <1>5, <1>8
  <2>2. /\ u \in Trees /\ u.root = n /\ u.parent = t.parent /\ u.depth = t.depth
        /\ u.sound /\ \A s \in Sides : u[s] = t[s]
    BY <1>5 DEF Trees, Link, Sides
  <2> HIDE DEF u
  <2>3. Linked(u, S)
    BY <1>5, <1>7, <2>2 DEF Linked
  <2>4. \A s \in Sides : Branch(u, sub2, n, s) = {}
    BY <1>7, <2>2 DEF Branch
  <2>5. Subtrees(u, S, sub2)
    <3>1. sub2 \in [S -> SUBSET S] /\ sub2[n] = S
      OBVIOUS
    <3> HIDE DEF sub2
    <3> QED
      BY <2>2, <2>4, <3>1, SideFacts DEF Subtrees, Split
  <2>6. Ordered(u, S, sub2)
    BY <2>4 DEF Ordered
  <2>7. Level(u, n)
    <3>1. SideDepth(u, n, "left") = 0 /\ SideDepth(u, n, "right") = 0 /\ u.depth[n] = 0
      BY <1>7, <2>2, SideFacts DEF SideDepth
    <3> QED
      BY <3>1 DEF Level, LongerSide
  <2>8. Deep(u, S)
    BY <1>7, <2>2 DEF Deep
  <2>9. Clean(u, S)
    BY <1>5, <1>6, <1>8, <2>2 DEF Clean
  <2>10. Climbing(u, S, sub2, Null)
    BY <1>5, <2>2, <2>3, <2>5, <2>6, <2>7, <2>8 DEF Climbing, Shape
  <2>11. Sane(u, S, sub2)
    BY <2>9, <2>10 DEF Sane
  <2> QED
    BY <2>1, <2>11
<1>9. CASE t.root # Null
  <2>1. t.root \in lent /\ sub[t.root] = lent
    BY <1>5, <1>9 DEF Subtrees
  <2>2. IsLeafSlot(t, sub, slot, t.root, n)
    BY <1>5, <2>1, LeafSlotFound
  <2>3. PICK o \in lent, s \in Sides :
           /\ slot = [owner |-> o, side |-> s]
           /\ t[s][o] = Null
           /\ Precedes(s, n, o)
           /\ \A m \in lent, r \in Sides : o \in Branch(t, sub, m, r) => Precedes(r, n, m)
    BY <2>1, <2>2 DEF IsLeafSlot
  <2> HIDE DEF slot
  <2> DEFINE f == Fill(t, slot, n)
             u == Replace(t, slot, n)
  <2>4. IsFilled(t, f, o, s, n)
    BY <1>5, <2>3, FillFields DEF Link
  <2> HIDE DEF f
  <2>5. IsAdopted(f, u, n, o)
    <3>1. u = SetParent(f, n, o)
      BY <2>3 DEF Replace, f
    <3>2. f \in Trees /\ o \in Link
      BY <1>5, <2>4 DEF IsFilled, Link
    <3> QED
      BY <3>1, <3>2, SetParentFields
  <2> HIDE DEF u
  <2>6. IsHung(t, u, o, s, n)
    <3>1. o # Null
      BY <1>5, ConstantFacts
    <3> QED
      BY <2>4, <2>5, <3>1 DEF IsFilled, IsAdopted, IsHung
  <2>7. Climbing(u, lent \cup {n}, Hung(sub, lent, o, n), o)
    BY <1>1, <1>4, <1>7, <2>3, <2>6, HungClimbs
  <2>8. Clean(u, lent \cup {n})
    BY <1>6, <2>6 DEF Clean, IsHung
  <2>9. tree' = Rebalance(u, o)
    BY <1>1, <1>9, <2>3 DEF u
  <2> QED
    BY <1>1, <2>7, <2>8, <2>9, RebalanceSane
<1> QED
  BY <1>8, <1>9

-----------------------------------------------------------------------------
(* Removal.                                                                *)

\* Where a recursion does not stop at a node, it goes on at its children.
GoesDown(t, D, Stop, l, r) ==
    \A m \in D : m \notin Stop =>
        /\ m # Null
        /\ l[m] \in D /\ (l[m] # Null => \E s \in Sides : l[m] = t[s][m])
        /\ r[m] \in D /\ (r[m] # Null => \E s \in Sides : r[m] = t[s][m])

\* What it makes of the values of the children.
Returns(D, Val, Stop, base, h) ==
    /\ \A m \in D : m \in Stop => base[m] \in Val
    /\ \A m \in D, a, b \in Val : m \notin Stop => h[m][a][b] \in Val

\* A function of the nodes, or of the nodes and Null, that goes on below them.
LEMMA TreeRecursion ==
    ASSUME NEW t, NEW S, NEW sub, Linked(t, S), Subtrees(t, S, sub),
           NEW D, D \subseteq S \cup {Null},
           NEW Val, NEW Stop, NEW base, NEW l, NEW r, NEW h,
           GoesDown(t, D, Stop, l, r), Returns(D, Val, Stop, base, h)
    PROVE  \E f \in [D -> Val] : IsRecursion(f, D, Stop, base, l, r, h)
<1> DEFINE rank == [m \in D |-> IF m = Null THEN 0 ELSE Cardinality(sub[m])]
<1>1. Cardinality(Nodes) \in Nat
  BY ConstantFacts
<1>2. \A m \in S : Cardinality(sub[m]) \in 1..Cardinality(Nodes)
  BY RankFacts
<1>3. \A m \in D : rank[m] \in 0..Cardinality(Nodes)
  BY <1>1, <1>2
<1>4. ASSUME NEW m \in D, m \notin Stop, NEW k \in D,
             k # Null => \E s \in Sides : k = t[s][m]
      PROVE  rank[k] < rank[m]
  <2>1. m \in S /\ m # Null
    BY <1>4 DEF GoesDown
  <2>2. CASE k = Null
    BY <1>1, <1>2, <2>1, <2>2
  <2>3. CASE k # Null
    <3>1. Cardinality(sub[k]) < Cardinality(sub[m])
      BY <1>4, <2>1, <2>3, RankFacts
    <3> QED
      BY <2>1, <2>3, <3>1
  <2> QED
    BY <2>2, <2>3
<1>5. \A m \in D : m \notin Stop => /\ l[m] \in D /\ rank[l[m]] < rank[m]
                                    /\ r[m] \in D /\ rank[r[m]] < rank[m]
  BY <1>4 DEF GoesDown
<1>6. /\ \A m \in D : m \in Stop => base[m] \in Val
      /\ \A m \in D, a, b \in Val : m \notin Stop => h[m][a][b] \in Val
  BY DEF Returns
<1> HIDE DEF rank
<1> QED
  BY <1>1, <1>3, <1>5, <1>6, RecursionExists

\* Rightmost finds the last node below n.
IsRightmost(t, sub, x, n) ==
    /\ x \in sub[n] /\ t["right"][x] = Null
    /\ \A m \in sub[n] : ValueOf[m] <= ValueOf[x]

\* Rightmost is the last of the nodes below n, in order.
LEMMA RightmostFound ==
    ASSUME NEW t, NEW sub, Shape(t, lent, sub), NEW n \in lent
    PROVE  IsRightmost(t, sub, Rightmost(t, n), n)
<1> DEFINE Stop == {m \in lent : t.right[m] = Null}
           base == [m \in lent |-> m]
           next == [m \in lent |-> t.right[m]]
           h == [m \in lent |-> [a \in lent |-> [b \in lent |-> a]]]
           Loop(f) == f = [m \in lent |-> IF t.right[m] = Null THEN m
                                          ELSE f[t.right[m]]]
           from == CHOOSE f : Loop(f)
<1>1. Rightmost(t, n) = from[n]
  BY DEF Rightmost
<1>2. /\ Linked(t, lent) /\ Subtrees(t, lent, sub) /\ Ordered(t, lent, sub)
      /\ t.right = t["right"] /\ lent \subseteq Nodes
      /\ \A m \in lent : t.right[m] \in lent \cup {Null}
  BY TreeFields, SideFacts DEF Shape, Linked
<1>3. \E f : Loop(f)
  <2>1. Returns(lent, lent, Stop, base, h)
    BY DEF Returns
  <2>2. GoesDown(t, lent, Stop, next, next)
    BY <1>2, SideFacts, ConstantFacts DEF GoesDown
  <2>3. lent \subseteq lent \cup {Null}
    OBVIOUS
  <2>4. \E f \in [lent -> lent] : IsRecursion(f, lent, Stop, base, next, next, h)
    <3> HIDE DEF Stop, base, next, h
    <3> QED
      BY <1>2, <2>1, <2>2, <2>3, TreeRecursion
  <2>5. PICK f \in [lent -> lent] : IsRecursion(f, lent, Stop, base, next, next, h)
    BY <2>4
  <2>6. ASSUME NEW m \in lent
        PROVE  f[m] = IF t.right[m] = Null THEN m ELSE f[t.right[m]]
    <3>1. f[m] = IF m \in Stop THEN base[m] ELSE h[m][f[next[m]]][f[next[m]]]
      BY <2>5 DEF IsRecursion
    <3>2. m \notin Stop => f[next[m]] \in lent
      BY <2>2, <2>5 DEF GoesDown
    <3> QED
      BY <3>1, <3>2
  <2>7. f = [m \in lent |-> f[m]]
    BY <2>5
  <2>8. Loop(f)
    BY <2>6, <2>7
  <2> QED
    BY <2>8
<1>4. Loop(from)
  <2> HIDE DEF Loop
  <2> QED
    BY <1>3
<1> HIDE DEF from
<1>5. \A m \in lent : from[m] = IF t.right[m] = Null THEN m ELSE from[t.right[m]]
  BY <1>4
<1> DEFINE G == {m \in lent : IsRightmost(t, sub, from[m], m)}
<1>6. ASSUME NEW k \in lent, \A s \in Sides : t[s][k] # Null => t[s][k] \in G
      PROVE  k \in G
  <2>1. Split(sub[k], k, Branch(t, sub, k, "left"), Branch(t, sub, k, "right"))
    BY <1>2 DEF Subtrees
  <2>2. \A m \in sub[k] : m \in Nodes /\ ValueOf[m] \in Int
    BY <1>2, ConstantFacts, SelfBelow
  <2>3. \A m \in Branch(t, sub, k, "left") : ValueOf[m] <= ValueOf[k]
    BY <1>2, SideFacts DEF Ordered, Precedes
  <2>4. k \in sub[k]
    BY <1>2, SelfBelow
  <2>5. CASE t.right[k] = Null
    <3>1. from[k] = k /\ Branch(t, sub, k, "right") = {}
      BY <1>2, <1>5, <2>5 DEF Branch
    <3>2. \A m \in sub[k] : ValueOf[m] <= ValueOf[k]
      BY <2>1, <2>2, <2>3, <2>4, <3>1 DEF Split
    <3> QED
      BY <1>2, <2>4, <2>5, <3>1, <3>2 DEF IsRightmost
  <2>6. CASE t.right[k] # Null
    <3> DEFINE c == t.right[k]
               x == from[c]
    <3>1. from[k] = x /\ IsRightmost(t, sub, x, c)
      BY <1>2, <1>5, <1>6, <2>6, SideFacts
    <3>2. Branch(t, sub, k, "right") = sub[c]
      BY <1>2, <2>6 DEF Branch
    <3> HIDE DEF x, c
    <3>3. x \in sub[c] /\ t["right"][x] = Null /\ \A m \in sub[c] : ValueOf[m] <= ValueOf[x]
      BY <3>1 DEF IsRightmost
    <3>4. x \in sub[k] /\ ValueOf[k] <= ValueOf[x]
      BY <1>2, <2>1, <3>2, <3>3, SideFacts DEF Split, Ordered, Precedes
    <3>5. \A m \in sub[k] : ValueOf[m] <= ValueOf[x]
      <4> TAKE m \in sub[k]
      <4>1. CASE m = k
        BY <3>4, <4>1
      <4>2. CASE m \in sub[c]
        BY <3>3, <4>2
      <4>3. CASE m \in Branch(t, sub, k, "left")
        <5>1. ValueOf[m] <= ValueOf[k]
          BY <2>3, <4>3
        <5> QED
          BY <2>2, <2>4, <3>4, <5>1
      <4> QED
        BY <2>1, <3>2, <4>1, <4>2, <4>3 DEF Split
    <3> QED
      BY <3>1, <3>3, <3>4, <3>5 DEF IsRightmost
  <2> QED
    BY <2>5, <2>6
<1> HIDE DEF G
<1>7. n \in G
  BY <1>2, <1>6, TreeInduction
<1> QED
  BY <1>1, <1>7 DEF G

\* A node p with one child at most is taken out: c, its child or Null, is in its
\* place.
IsUnlinked(t, u, p, c) ==
    /\ u \in Trees /\ u.sound = t.sound
    /\ u.root = IF t.parent[p] = Null THEN c ELSE t.root
    /\ \A m \in Nodes : /\ u.parent[m] = IF m = c THEN t.parent[p] ELSE t.parent[m]
                        /\ u.depth[m] = t.depth[m]
    /\ \A s \in Sides, m \in Nodes :
            u[s][m] = IF m = t.parent[p] /\ t[s][m] = p THEN c ELSE t[s][m]

\* Replace takes out a node so.
LEMMA UnlinkMade ==
    ASSUME NEW t, NEW S, NEW sub, Linked(t, S), Subtrees(t, S, sub), NEW p \in S,
           NEW c \in Nodes \cup {Null}
    PROVE  IsUnlinked(t, Replace(t, Slot(t, p), c), p, c)
<1> DEFINE pp == t.parent[p]
           f == Fill(t, Slot(t, p), c)
           u == Replace(t, Slot(t, p), c)
<1>1. /\ t \in Trees /\ S \subseteq Nodes /\ Null \notin S
      /\ pp \in S \cup {Null}
  BY ConstantFacts DEF Linked
<1>2. PICK s \in Sides : /\ Slot(t, p) = [owner |-> pp, side |-> s]
                         /\ pp # Null => t[s][pp] = p /\ t[Other(s)][pp] # p
  BY SlotFacts
<1>3. IsFilled(t, f, pp, s, c)
  BY <1>1, <1>2, FillFields DEF Link
<1>4. u = SetParent(f, c, pp)
  BY <1>2 DEF Replace
<1> HIDE DEF f, u
<1>5. IsAdopted(f, u, c, pp)
  <2>1. f \in Trees /\ pp \in Link /\ c \in Nodes \cup {Null}
    BY <1>1, <1>3 DEF IsFilled, Link
  <2> QED
    BY <1>4, <2>1, SetParentFields
<1>6. \A r \in Sides, m \in Nodes :
            u[r][m] = IF m = pp /\ t[r][m] = p THEN c ELSE t[r][m]
  <2> TAKE r \in Sides, m \in Nodes
  <2>1. u[r][m] = IF m = pp /\ r = s THEN c ELSE t[r][m]
    BY <1>3, <1>5 DEF IsFilled, IsAdopted
  <2>2. m # Null /\ (r = s \/ r = Other(s))
    BY ConstantFacts, SideFacts
  <2> QED
    BY <1>2, <2>1, <2>2
<1>7. IsUnlinked(t, u, p, c)
  BY <1>3, <1>5, <1>6 DEF IsFilled, IsAdopted, IsUnlinked
<1> QED
  BY <1>7 DEF u

\* What is below each node then.
Unlinked(sub, S, p) == [m \in S \ {p} |-> sub[m] \ {p}]

\* Each side of a node loses p and nothing else.
LosesOnly(t, u, S, sub, sub2, p) ==
    /\ Shape(u, S \ {p}, sub2)
    /\ \A m \in S \ {p}, s \in Sides :
            Branch(u, sub2, m, s) = Branch(t, sub, m, s) \ {p}

\* Taking out a node with one child at most leaves a tree of the others.
LEMMA UnlinkShape ==
    ASSUME NEW t, NEW u, NEW S, NEW sub, Shape(t, S, sub), NEW p \in S,
           NEW side \in Sides, NEW c, c = t[side][p], t[Other(side)][p] = Null,
           IsUnlinked(t, u, p, c), NEW sub2, sub2 = Unlinked(sub, S, p)
    PROVE  LosesOnly(t, u, S, sub, sub2, p)
<1> DEFINE S2 == S \ {p}
           pp == t.parent[p]
<1>1. /\ Linked(t, S) /\ Subtrees(t, S, sub) /\ Ordered(t, S, sub)
      /\ S \subseteq Nodes /\ Null \notin S /\ p # Null
  BY ConstantFacts DEF Shape, Linked
<1>2. /\ \A n \in S, s \in Sides : t[s][n] \in S \cup {Null}
      /\ \A n \in S, s \in Sides : t[s][n] # Null => t.parent[t[s][n]] = n
      /\ \A n \in S : t.parent[n] = Null => n = t.root
      /\ \A n \in S : t.parent[n] # Null =>
            t.parent[n] \in S /\ \E s \in Sides : t[s][t.parent[n]] = n
      /\ t.root \in S
      /\ t.parent[t.root] = Null
  BY <1>1 DEF Linked
<1>3. /\ u \in Trees
      /\ u.root = IF pp = Null THEN c ELSE t.root
      /\ \A m \in S2 : u.parent[m] = IF m = c THEN pp ELSE t.parent[m]
      /\ \A s \in Sides, m \in S2 :
            u[s][m] = IF m = pp /\ t[s][m] = p THEN c ELSE t[s][m]
  BY <1>1 DEF IsUnlinked
<1>4. /\ c \in S \cup {Null} /\ c # p
      /\ c # Null => c \in S2 /\ t.parent[c] = p
      /\ pp # p /\ (pp # Null => pp \in S2)
  <2>1. c \in S \cup {Null} /\ (c # Null => t.parent[c] = p)
    BY <1>2
  <2>2. c # p
    BY <1>1, KidFacts
  <2>3. pp # p /\ (pp # Null => pp \in S2)
    BY <1>1, ParentFacts
  <2> QED
    BY <2>1, <2>2, <2>3
<1>5. Split(sub[p], p, Branch(t, sub, p, side), {})
  <2>1. Split(sub[p], p, Branch(t, sub, p, side), Branch(t, sub, p, Other(side)))
    BY <1>1, SplitAt
  <2>2. Branch(t, sub, p, Other(side)) = {}
    BY DEF Branch
  <2> QED
    BY <2>1, <2>2
<1>6. sub[p] = {p} \cup Branch(t, sub, p, side) /\ p \notin Branch(t, sub, p, side)
  BY <1>5 DEF Split
<1>7. u.root \in S2 \cup {Null}
      /\ (u.root # Null => u.parent[u.root] = Null)
      /\ (u.root = Null => S2 = {})
  <2>1. CASE pp = Null
    <3>1. p = t.root /\ sub[p] = S
      BY <1>1, <1>2, <2>1 DEF Subtrees
    <3>2. c = Null => S2 = {}
      BY <1>6, <3>1 DEF Branch
    <3> QED
      BY <1>3, <1>4, <2>1, <3>2
  <2>2. CASE pp # Null
    BY <1>1, <1>2, <1>3, <1>4, <2>2
  <2> QED
    BY <2>1, <2>2
<1>8. Linked(u, S2)
  <2>1. \A n \in S2, s \in Sides : u[s][n] \in S2 \cup {Null}
    BY <1>1, <1>2, <1>3, <1>4
  <2>2. \A n \in S2, s \in Sides : u[s][n] # Null => u.parent[u[s][n]] = n
    BY <1>1, <1>2, <1>3, <1>4
  <2>3. \A n \in S2 : u.parent[n] = Null => n = u.root
    BY <1>1, <1>2, <1>3, <1>4
  <2>4. ASSUME NEW n \in S2, u.parent[n] # Null
        PROVE  u.parent[n] \in S2 /\ \E s \in Sides : u[s][u.parent[n]] = n
    <3>1. CASE n = c
      <4>1. u.parent[n] = pp /\ pp # Null
        BY <1>3, <2>4, <3>1
      <4>2. PICK s \in Sides : t[s][pp] = p
        BY <1>2, <4>1
      <4>3. u[s][pp] = c
        BY <1>3, <1>4, <4>1, <4>2
      <4> QED
        BY <1>4, <3>1, <4>1, <4>3
    <3>2. CASE n # c
      <4>1. u.parent[n] = t.parent[n] /\ t.parent[n] \in S
        BY <1>2, <1>3, <2>4, <3>2
      <4>2. PICK s \in Sides : t[s][t.parent[n]] = n
        BY <1>2, <2>4, <4>1
      <4>3. t.parent[n] # p
        <5>1. n # Null /\ (s = side \/ s = Other(side))
          BY <1>1, SideFacts
        <5> QED
          BY <3>2, <4>2, <5>1
      <4>4. u[s][t.parent[n]] = n
        BY <1>3, <4>1, <4>2, <4>3
      <4> QED
        BY <4>1, <4>3, <4>4
    <3> QED
      BY <3>1, <3>2
  <2> QED
    BY <1>1, <1>3, <1>7, <2>1, <2>2, <2>3, <2>4 DEF Linked
<1>9. /\ \A m \in S : sub[m] \in SUBSET S
      /\ \A m \in S2 : sub2[m] = sub[m] \ {p}
      /\ sub2 \in [S2 -> SUBSET S2]
  BY <1>1 DEF Unlinked, Subtrees
<1>10. ASSUME NEW m \in S2, NEW s \in Sides
       PROVE  Branch(u, sub2, m, s) = Branch(t, sub, m, s) \ {p}
  <2>1. CASE t[s][m] = p
    <3>1. m = pp
      BY <1>1, <1>2, <2>1
    <3>2. u[s][m] = c /\ Branch(t, sub, m, s) = sub[p]
      BY <1>1, <1>3, <2>1, <3>1 DEF Branch
    <3>3. Branch(u, sub2, m, s) = IF c = Null THEN {} ELSE sub[c] \ {p}
      BY <1>4, <1>9, <3>2 DEF Branch
    <3>4. Branch(t, sub, p, side) = IF c = Null THEN {} ELSE sub[c]
      BY DEF Branch
    <3> QED
      BY <1>6, <3>2, <3>3, <3>4
  <2>2. CASE t[s][m] # p
    <3>1. u[s][m] = t[s][m] /\ t[s][m] \in S2 \cup {Null}
      BY <1>2, <1>3, <2>2
    <3> QED
      BY <1>9, <3>1 DEF Branch
  <2> QED
    BY <2>1, <2>2
<1>11. ASSUME NEW m \in S2
       PROVE  Split(sub2[m], m, Branch(u, sub2, m, "left"), Branch(u, sub2, m, "right"))
  <2>1. Split(sub[m], m, Branch(t, sub, m, "left"), Branch(t, sub, m, "right"))
    BY <1>1 DEF Subtrees
  <2> QED
    BY <1>9, <1>10, <2>1, SideFacts DEF Split
<1>12. u.root # Null => sub2[u.root] = S2
  <2>1. CASE pp = Null
    <3>1. p = t.root /\ sub[p] = S
      BY <1>1, <1>2, <2>1 DEF Subtrees
    <3>2. c # Null => sub[p] = {p} \cup sub[c] /\ p \notin sub[c]
      BY <1>6 DEF Branch
    <3> QED
      BY <1>3, <1>4, <1>9, <2>1, <3>1, <3>2
  <2>2. CASE pp # Null
    <3>1. sub[t.root] = S
      BY <1>1, <1>2 DEF Subtrees
    <3>2. u.root = t.root /\ t.root \in S2
      BY <1>2, <1>3, <2>2
    <3> QED
      BY <1>9, <3>1, <3>2
  <2> QED
    BY <2>1, <2>2
<1>13. Subtrees(u, S2, sub2)
  BY <1>9, <1>11, <1>12 DEF Subtrees
<1>14. Ordered(u, S2, sub2)
  <2>1. \A m \in S, s \in Sides : \A k \in Branch(t, sub, m, s) : Precedes(s, k, m)
    BY <1>1 DEF Ordered
  <2> QED
    BY <1>10, <2>1 DEF Ordered
<1> QED
  BY <1>8, <1>10, <1>13, <1>14 DEF Shape, LosesOnly

\* The climb from the parent of a node that is taken out; its child is a leaf.
LEMMA UnlinkClimbs ==
    ASSUME NEW t, NEW u, NEW S, NEW sub, Climbing(t, S, sub, Null), NEW p \in S,
           NEW side \in Sides, NEW c, c = t[side][p], t[Other(side)][p] = Null,
           IsUnlinked(t, u, p, c)
    PROVE  /\ Climbing(u, S \ {p}, Unlinked(sub, S, p), t.parent[p])
           /\ c # Null => IsLeaf(t, c)
<1> DEFINE S2 == S \ {p}
           pp == t.parent[p]
           sub2 == Unlinked(sub, S, p)
<1>1. /\ Shape(t, S, sub) /\ Linked(t, S) /\ Subtrees(t, S, sub) /\ Deep(t, S) /\ t.sound
      /\ S \subseteq Nodes /\ Null \notin S /\ p # Null /\ t \in Trees
      /\ \A m \in S : Level(t, m)
      /\ \A n \in S, s \in Sides : t[s][n] \in S \cup {Null}
      /\ \A n \in S, s \in Sides : t[s][n] # Null => t.parent[t[s][n]] = n
  BY ConstantFacts DEF Climbing, Shape, Linked
<1>2. /\ u.sound
      /\ \A m \in S2 : u.depth[m] = t.depth[m]
      /\ \A s \in Sides, m \in S2 :
            u[s][m] = IF m = pp /\ t[s][m] = p THEN c ELSE t[s][m]
  BY <1>1 DEF IsUnlinked
<1>3. Shape(u, S2, sub2)
  BY <1>1, UnlinkShape DEF LosesOnly
<1>4. \A m \in S, s \in Sides : SideDepth(t, m, s) \in Nat /\ SideDepth(t, m, s) \in Int
  BY <1>1, SideDepthFacts
<1>5. /\ t.depth[p] = SideDepth(t, p, side) /\ SideDepth(t, p, side) \in {0, 1}
      /\ c # Null => c \in S2 /\ t.depth[c] = 0
  <2>1. /\ t.depth[p] = Higher(SideDepth(t, p, side), SideDepth(t, p, Other(side)))
        /\ SideDepth(t, p, side) - SideDepth(t, p, Other(side)) \in -1..1
    BY <1>1, <1>4, LevelIs
  <2>2. SideDepth(t, p, Other(side)) = 0
    BY DEF SideDepth
  <2>3. SideDepth(t, p, side) \in Nat
    BY <1>4
  <2>4. ASSUME c # Null PROVE c \in S2 /\ t.depth[c] = 0
    <3>1. c \in S /\ c # p
      BY <1>1, <2>4, KidFacts
    <3>2. SideDepth(t, p, side) = t.depth[c] + 1 /\ t.depth[c] \in Nat
      BY <1>1, <2>4, <3>1 DEF SideDepth, Deep
    <3> QED
      BY <2>1, <2>2, <3>1, <3>2
  <2> QED
    BY <2>1, <2>2, <2>3, <2>4 DEF Higher
<1>6. c # Null => IsLeaf(t, c)
  <2> SUFFICES ASSUME c # Null PROVE IsLeaf(t, c)
    OBVIOUS
  <2>1. \A s \in Sides : SideDepth(t, c, s) \in Nat /\ SideDepth(t, c, s) \in Int
    BY <1>4, <1>5
  <2>2. t.depth[c] = Higher(SideDepth(t, c, "left"), SideDepth(t, c, Other("left")))
    BY <1>1, <1>5, <2>1, LevelIs, SideFacts
  <2>3. SideDepth(t, c, "left") = 0 /\ SideDepth(t, c, "right") = 0
    BY <1>5, <2>1, <2>2, SideFacts DEF Higher
  <2>4. t["left"][c] = Null /\ t["right"][c] = Null
    BY <1>1, <1>5, <2>3, SideDepthFacts, SideFacts
  <2> QED
    BY <1>1, <2>4, TreeFields DEF IsLeaf
<1>7. ASSUME NEW m \in S2, NEW s \in Sides, t[s][m] # p
      PROVE  SideDepth(u, m, s) = SideDepth(t, m, s)
  <2>1. u[s][m] = t[s][m] /\ t[s][m] \in S2 \cup {Null}
    BY <1>1, <1>2, <1>7
  <2> QED
    BY <1>2, <2>1 DEF SideDepth
<1>8. ASSUME NEW m \in S2 \ {pp} PROVE Level(u, m)
  <2>1. \A s \in Sides : t[s][m] # p
    BY <1>1
  <2> QED
    BY <1>1, <1>2, <1>7, <2>1, LevelKept
<1>9. pp \in S2 \cup {Null}
  BY <1>1, ParentFacts
<1>10. ASSUME pp # Null PROVE Tilted(u, pp)
  <2>1. PICK s \in Sides : t[s][pp] = p /\ t[Other(s)][pp] # p
    BY <1>1, <1>10, SlotFacts
  <2> DEFINE was == SideDepth(t, pp, s)
  <2>2. pp \in S2 /\ Other(s) \in Sides
    BY <1>9, <1>10, SideFacts
  <2>3. SideDepth(u, pp, Other(s)) = SideDepth(t, pp, Other(s))
    BY <1>7, <2>1, <2>2
  <2>4. /\ t.depth[pp] = Higher(was, SideDepth(t, pp, Other(s)))
        /\ was - SideDepth(t, pp, Other(s)) \in -1..1
    BY <1>1, <1>4, <2>2, LevelIs
  <2>5. was = t.depth[p] + 1
    BY <1>1, <2>1 DEF SideDepth
  <2>6. SideDepth(u, pp, s) = IF c = Null THEN 0 ELSE 1
    <3>1. u[s][pp] = c
      BY <1>2, <2>1, <2>2
    <3> QED
      BY <1>2, <1>5, <3>1 DEF SideDepth
  <2>7. SideDepth(t, p, side) = IF c = Null THEN 0 ELSE 1
    BY <1>1, <1>5 DEF SideDepth
  <2>8. SideDepth(u, pp, s) - was = -1
    BY <1>5, <2>5, <2>6, <2>7
  <2>9. was \in Nat
    BY <1>4, <2>2
  <2> HIDE DEF was
  <2> QED
    BY <1>2, <2>2, <2>3, <2>4, <2>8, <2>9 DEF Tilted
<1> QED
  BY <1>1, <1>2, <1>3, <1>6, <1>8, <1>9, <1>10 DEF Climbing, Deep

\* A node p that was not in the tree is in the place of n.
IsSwapped(w, u, n, p) ==
    /\ u \in Trees /\ u.sound = w.sound
    /\ u.root = IF w.parent[n] = Null THEN p ELSE w.root
    /\ \A m \in Nodes :
        /\ u.parent[m] = IF \E s \in Sides : m = w[s][n] THEN p
                         ELSE IF m = p THEN w.parent[n] ELSE w.parent[m]
        /\ u.depth[m] = IF m = p THEN w.depth[n] ELSE w.depth[m]
    /\ \A s \in Sides, m \in Nodes :
            u[s][m] = IF m = p THEN w[s][n]
                      ELSE IF m = w.parent[n] /\ w[s][m] = n THEN p ELSE w[s][m]

\* It does not concern nodes that n is not linked with.
LEMMA SwapApart ==
    ASSUME NEW w, NEW u, NEW n, NEW p, IsSwapped(w, u, n, p),
           NEW m \in Nodes, m # p, m # w.parent[n], \A s \in Sides : m # w[s][n]
    PROVE  /\ \A s \in Sides : u[s][m] = w[s][m]
           /\ u.parent[m] = w.parent[m] /\ u.depth[m] = w.depth[m]
<1>1. u.parent[m] = w.parent[m] /\ u.depth[m] = w.depth[m]
  BY DEF IsSwapped
<1>2. ASSUME NEW s \in Sides PROVE u[s][m] = w[s][m]
  BY DEF IsSwapped
<1> QED
  BY <1>1, <1>2

\* TakeOver puts p in the place of n.
LEMMA SwapMade ==
    ASSUME NEW w, NEW S, NEW sub, Linked(w, S), Subtrees(w, S, sub), NEW n \in S,
           NEW p \in Nodes, p \notin S
    PROVE  IsSwapped(w, TakeOver(w, n, p), n, p)
<1> DEFINE r == Replace(w, Slot(w, n), p)
           l2 == [r EXCEPT !.left[p] = w.left[n]]
           r2 == [l2 EXCEPT !.right[p] = w.right[n]]
           t2 == [r2 EXCEPT !.depth[p] = w.depth[n]]
           t3 == SetParent(t2, w.right[n], p)
           u == SetParent(t3, w.left[n], p)
<1>1. u = TakeOver(w, n, p)
  BY DEF TakeOver
<1>2. /\ w \in Trees /\ S \subseteq Nodes /\ Null \notin S /\ n \in Nodes
      /\ w.left = w["left"] /\ w.right = w["right"]
      /\ w.left[n] \in S \cup {Null} /\ w.right[n] \in S \cup {Null}
      /\ w.depth[n] \in Int
  BY ConstantFacts, TreeFields, SideFacts DEF Linked
<1>3. IsUnlinked(w, r, n, p)
  BY UnlinkMade
<1> HIDE DEF r
<1>4. /\ r \in Trees /\ r.sound = w.sound
      /\ r.root = IF w.parent[n] = Null THEN p ELSE w.root
      /\ \A m \in Nodes : /\ r.parent[m] = IF m = p THEN w.parent[n] ELSE w.parent[m]
                          /\ r.depth[m] = w.depth[m]
      /\ \A m \in Nodes :
            /\ r.left[m] = IF m = w.parent[n] /\ w.left[m] = n THEN p ELSE w.left[m]
            /\ r.right[m] = IF m = w.parent[n] /\ w.right[m] = n THEN p ELSE w.right[m]
  BY <1>2, <1>3, TreeFields, SideFacts DEF IsUnlinked
<1>5. /\ l2 \in Trees /\ l2.sound = r.sound /\ l2.root = r.root /\ l2.parent = r.parent
      /\ l2.depth = r.depth /\ l2.right = r.right
      /\ l2.left = [r.left EXCEPT ![p] = w.left[n]]
  BY <1>2, <1>4 DEF Trees, Link
<1> HIDE DEF l2
<1>6. /\ r2 \in Trees /\ r2.sound = r.sound /\ r2.root = r.root /\ r2.parent = r.parent
      /\ r2.depth = r.depth /\ r2.left = l2.left
      /\ r2.right = [r.right EXCEPT ![p] = w.right[n]]
  BY <1>2, <1>5 DEF Trees, Link
<1> HIDE DEF r2
<1>7. /\ t2 \in Trees /\ t2.sound = r.sound /\ t2.root = r.root /\ t2.parent = r.parent
      /\ t2.depth = [r.depth EXCEPT ![p] = w.depth[n]]
      /\ t2.left = l2.left /\ t2.right = r2.right
  BY <1>2, <1>6 DEF Trees
<1> HIDE DEF t2
<1>8. IsAdopted(t2, t3, w.right[n], p)
  <2>1. w.right[n] \in Nodes \cup {Null} /\ p \in Link
    BY <1>2 DEF Link
  <2> QED
    BY <1>7, <2>1, SetParentFields
<1> HIDE DEF t3
<1>9. IsAdopted(t3, u, w.left[n], p)
  <2>1. w.left[n] \in Nodes \cup {Null} /\ p \in Link /\ t3 \in Trees
    BY <1>2, <1>8 DEF Link, IsAdopted
  <2> QED
    BY <2>1, SetParentFields
<1> HIDE DEF u
<1>10. /\ u \in Trees /\ u.sound = w.sound /\ u.root = r.root
       /\ u.left = t2.left /\ u.right = t2.right /\ u.depth = t2.depth
       /\ \A m \in Nodes : u.parent[m] = IF m = w.left[n] \/ m = w.right[n] THEN p
                                         ELSE r.parent[m]
  <2>1. /\ t3 \in Trees /\ u \in Trees /\ u.sound = w.sound /\ u.root = r.root
        /\ u.depth = t2.depth
        /\ \A s \in Sides : u[s] = t2[s]
        /\ \A m \in Nodes : u.parent[m] = IF m = w.left[n] THEN p
                                          ELSE IF m = w.right[n] THEN p ELSE r.parent[m]
    BY <1>4, <1>7, <1>8, <1>9 DEF IsAdopted
  <2>2. u.left = t2.left /\ u.right = t2.right
    BY <1>7, <2>1, TreeFields, SideFacts
  <2> QED
    BY <2>1, <2>2
<1>11. /\ \A m \in Nodes : r.left[m] \in Link /\ r.right[m] \in Link
       /\ \A m \in Nodes : u.left[m] = IF m = p THEN w.left[n] ELSE r.left[m]
       /\ \A m \in Nodes : u.right[m] = IF m = p THEN w.right[n] ELSE r.right[m]
       /\ \A m \in Nodes : u.depth[m] = IF m = p THEN w.depth[n] ELSE r.depth[m]
  BY <1>4, <1>5, <1>6, <1>7, <1>10 DEF Trees
<1>12. \A s \in Sides, m \in Nodes :
            u[s][m] = IF m = p THEN w[s][n]
                      ELSE IF m = w.parent[n] /\ w[s][m] = n THEN p ELSE w[s][m]
  <2>1. u.left = u["left"] /\ u.right = u["right"]
    BY <1>10, TreeFields
  <2> QED
    BY <1>2, <1>4, <1>11, <2>1 DEF Sides
<1>13. \A m \in Nodes : (\E s \in Sides : m = w[s][n]) <=> m = w.left[n] \/ m = w.right[n]
  BY <1>2 DEF Sides
<1>14. IsSwapped(w, u, n, p)
  BY <1>4, <1>10, <1>11, <1>12, <1>13 DEF IsSwapped
<1> QED
  BY <1>1, <1>14

\* What the nodes and sets of a tree are called once p is in the place of n.
Renamed(X, n, p) == IF n \in X THEN (X \ {n}) \cup {p} ELSE X

Swapped(sub, S, n, p) ==
    [m \in (S \ {n}) \cup {p} |-> Renamed(sub[IF m = p THEN n ELSE m], n, p)]

\* Each link of the one tree is that of the other, renamed.
IsRenamed(w, u, S, n, p) ==
    /\ \A m \in (S \ {n}) \cup {p} : \E o \in S :
        /\ o = IF m = p THEN n ELSE m
        /\ \A s \in Sides : /\ w[s][o] \in S \cup {Null}
                            /\ u[s][m] = IF w[s][o] = n THEN p ELSE w[s][o]
        /\ w.parent[o] \in S \cup {Null}
        /\ u.parent[m] = IF w.parent[o] = n THEN p ELSE w.parent[o]
        /\ u.depth[m] = w.depth[o]
    /\ w.root \in S
    /\ u.root = IF w.root = n THEN p ELSE w.root

\* The tree is then the same, but that n is called p.
LEMMA SwapRenames ==
    ASSUME NEW w, NEW u, NEW S, NEW sub, Linked(w, S), Subtrees(w, S, sub), NEW n \in S,
           NEW p \in Nodes, p \notin S, IsSwapped(w, u, n, p)
    PROVE  IsRenamed(w, u, S, n, p)
<1>1. /\ S \subseteq Nodes /\ Null \notin S /\ n # Null /\ p # Null /\ p # n
      /\ \A m \in S, s \in Sides : w[s][m] \in S \cup {Null}
      /\ \A m \in S, s \in Sides : w[s][m] # Null => w.parent[w[s][m]] = m
      /\ \A m \in S : w.parent[m] = Null => m = w.root
      /\ \A m \in S : w.parent[m] # Null =>
            w.parent[m] \in S /\ \E s \in Sides : w[s][w.parent[m]] = m
      /\ w.root \in S /\ w.parent[w.root] = Null
  BY ConstantFacts DEF Linked
<1>2. \A s \in Sides : w[s][n] # n
  BY <1>1, KidFacts
<1>3. w.parent[n] # n
  BY <1>1, <1>2
<1>4. ASSUME NEW m \in (S \ {n}) \cup {p}
      PROVE  \E o \in S :
        /\ o = IF m = p THEN n ELSE m
        /\ \A s \in Sides : /\ w[s][o] \in S \cup {Null}
                            /\ u[s][m] = IF w[s][o] = n THEN p ELSE w[s][o]
        /\ w.parent[o] \in S \cup {Null}
        /\ u.parent[m] = IF w.parent[o] = n THEN p ELSE w.parent[o]
        /\ u.depth[m] = w.depth[o]
  <2>1. m \in Nodes
    BY <1>1
  <2>2. CASE m = p
    <3>1. \A s \in Sides : m # w[s][n]
      BY <1>1, <2>2
    <3>2. u.parent[m] = w.parent[n] /\ u.depth[m] = w.depth[n]
      BY <2>1, <2>2, <3>1 DEF IsSwapped
    <3>3. \A s \in Sides : u[s][m] = w[s][n]
      BY <2>1, <2>2 DEF IsSwapped
    <3> QED
      BY <1>1, <1>2, <1>3, <2>2, <3>2, <3>3
  <2>3. CASE m # p
    <3>1. m \in S /\ m # n
      BY <2>3
    <3>2. (\E s \in Sides : m = w[s][n]) <=> w.parent[m] = n
      BY <1>1, <3>1
    <3>3. u.parent[m] = (IF w.parent[m] = n THEN p ELSE w.parent[m])
          /\ u.depth[m] = w.depth[m]
      BY <2>1, <2>3, <3>2 DEF IsSwapped
    <3>4. ASSUME NEW s \in Sides PROVE u[s][m] = IF w[s][m] = n THEN p ELSE w[s][m]
      <4>1. w[s][m] = n => m = w.parent[n]
        BY <1>1, <3>1
      <4> QED
        BY <2>1, <2>3, <4>1 DEF IsSwapped
    <3> QED
      BY <1>1, <2>3, <3>1, <3>3, <3>4
  <2> QED
    BY <2>2, <2>3
<1>5. u.root = IF w.root = n THEN p ELSE w.root
  BY <1>1 DEF IsSwapped
<1> QED
  BY <1>1, <1>4, <1>5 DEF IsRenamed

\* A node takes the place of another where its value may be.
LEMMA SwapShape ==
    ASSUME NEW w, NEW u, NEW S, NEW sub, Shape(w, S, sub), NEW n \in S,
           NEW p \in Nodes, p \notin S, u \in Trees, IsRenamed(w, u, S, n, p),
           \A s \in Sides : \A k \in Branch(w, sub, n, s) : Precedes(s, k, p),
           \A m \in S, s \in Sides : n \in Branch(w, sub, m, s) => Precedes(s, p, m),
           NEW sub2, sub2 = Swapped(sub, S, n, p)
    PROVE  Shape(u, (S \ {n}) \cup {p}, sub2)
<1> DEFINE S2 == (S \ {n}) \cup {p}
           Old(m) == IF m = p THEN n ELSE m
           New(k) == IF k = n THEN p ELSE k
<1>1. /\ Linked(w, S) /\ Subtrees(w, S, sub) /\ Ordered(w, S, sub)
      /\ S \subseteq Nodes /\ Null \notin S /\ p # Null /\ p # n
  BY ConstantFacts DEF Shape, Linked
<1>2. /\ \A m \in S, s \in Sides : w[s][m] \in S \cup {Null}
      /\ \A m \in S, s \in Sides : w[s][m] # Null => w.parent[w[s][m]] = m
      /\ \A m \in S : w.parent[m] = Null => m = w.root
      /\ \A m \in S : w.parent[m] # Null =>
            w.parent[m] \in S /\ \E s \in Sides : w[s][w.parent[m]] = m
      /\ w.parent[w.root] = Null
  BY <1>1 DEF Linked, IsRenamed
<1>3. /\ \A m \in S2 : Old(m) \in S /\ New(Old(m)) = m
      /\ \A k \in S : New(k) \in S2 /\ Old(New(k)) = k /\ New(k) # Null
      /\ New(Null) = Null
  BY <1>1
<1>4. \A m \in S2 :
        /\ \A s \in Sides : u[s][m] = New(w[s][Old(m)])
        /\ u.parent[m] = New(w.parent[Old(m)])
  BY DEF IsRenamed
<1>5. w.root \in S /\ u.root = New(w.root)
  BY DEF IsRenamed
<1> HIDE DEF Old, New
<1>6. Linked(u, S2)
  <2>1. \A m \in S2, s \in Sides : u[s][m] \in S2 \cup {Null}
    BY <1>2, <1>3, <1>4
  <2>2. ASSUME NEW m \in S2, NEW s \in Sides, u[s][m] # Null
        PROVE  u.parent[u[s][m]] = m
    <3> DEFINE k == w[s][Old(m)]
    <3>1. u[s][m] = New(k) /\ k \in S
      BY <1>2, <1>3, <1>4, <2>2
    <3>2. w.parent[k] = Old(m)
      BY <1>1, <1>2, <1>3, <3>1
    <3> HIDE DEF k
    <3>3. u.parent[New(k)] = New(w.parent[k])
      BY <1>3, <1>4, <3>1
    <3> QED
      BY <1>3, <3>1, <3>2, <3>3
  <2>3. \A m \in S2 : u.parent[m] = Null => m = u.root
    <3> TAKE m \in S2
    <3>1. w.parent[Old(m)] \in S \cup {Null}
      BY <1>2, <1>3
    <3> QED
      BY <1>2, <1>3, <1>4, <1>5, <3>1
  <2>4. ASSUME NEW m \in S2, u.parent[m] # Null
        PROVE  u.parent[m] \in S2 /\ \E s \in Sides : u[s][u.parent[m]] = m
    <3> DEFINE q == w.parent[Old(m)]
    <3>1. u.parent[m] = New(q) /\ q # Null
      BY <1>3, <1>4, <2>4
    <3>2. q \in S
      BY <1>2, <1>3, <3>1
    <3>3. PICK s \in Sides : w[s][q] = Old(m)
      BY <1>2, <1>3, <3>1
    <3> HIDE DEF q
    <3>4. u[s][New(q)] = New(w[s][q])
      BY <1>3, <1>4, <3>2
    <3> QED
      BY <1>3, <3>1, <3>2, <3>3, <3>4
  <2>5. u.root \in S2 /\ u.root # Null /\ u.parent[u.root] = Null
    BY <1>2, <1>3, <1>4, <1>5
  <2> QED
    BY <1>1, <2>1, <2>2, <2>3, <2>4, <2>5 DEF Linked
<1>7. /\ \A m \in S : sub[m] \in SUBSET S
      /\ \A m \in S2 : sub2[m] = Renamed(sub[Old(m)], n, p)
      /\ sub2 \in [S2 -> SUBSET S2]
  <2>1. \A m \in S : sub[m] \in SUBSET S
    BY <1>1 DEF Subtrees
  <2>2. \A X \in SUBSET S : Renamed(X, n, p) \in SUBSET S2
    BY DEF Renamed
  <2>3. \A m \in S2 : Renamed(sub[Old(m)], n, p) \in SUBSET S2
    BY <1>3, <2>1, <2>2
  <2>4. sub2 = [m \in S2 |-> Renamed(sub[Old(m)], n, p)]
    BY DEF Swapped, Old
  <2> QED
    BY <2>1, <2>3, <2>4
<1>8. ASSUME NEW m \in S2, NEW s \in Sides
      PROVE  Branch(u, sub2, m, s) = Renamed(Branch(w, sub, Old(m), s), n, p)
  <2> DEFINE k == w[s][Old(m)]
  <2>1. u[s][m] = New(k) /\ k \in S \cup {Null}
    BY <1>2, <1>3, <1>4
  <2>2. Branch(w, sub, Old(m), s) = IF k = Null THEN {} ELSE sub[k]
    BY DEF Branch
  <2>3. Branch(u, sub2, m, s) = IF New(k) = Null THEN {} ELSE sub2[New(k)]
    BY <2>1 DEF Branch
  <2> HIDE DEF k
  <2>4. CASE k = Null
    <3>1. Renamed({}, n, p) = {}
      BY DEF Renamed
    <3> QED
      BY <1>3, <2>2, <2>3, <2>4, <3>1
  <2>5. CASE k # Null
    <3>1. k \in S
      BY <2>1, <2>5
    <3>2. New(k) \in S2 /\ New(k) # Null /\ Old(New(k)) = k
      BY <1>3, <3>1
    <3>3. sub2[New(k)] = Renamed(sub[k], n, p)
      BY <1>7, <3>2
    <3> QED
      BY <2>2, <2>3, <2>5, <3>2, <3>3
  <2> QED
    BY <2>4, <2>5
<1>9. \A X, L, R, m : X \subseteq S /\ m \in S2 /\ Split(X, Old(m), L, R) =>
            Split(Renamed(X, n, p), m, Renamed(L, n, p), Renamed(R, n, p))
  BY <1>1 DEF Split, Renamed, Old
<1>10. ASSUME NEW m \in S2
       PROVE  Split(sub2[m], m, Branch(u, sub2, m, "left"), Branch(u, sub2, m, "right"))
  <2>1. Split(sub[Old(m)], Old(m), Branch(w, sub, Old(m), "left"),
              Branch(w, sub, Old(m), "right"))
    BY <1>1, <1>3 DEF Subtrees
  <2>2. sub[Old(m)] \subseteq S
    BY <1>3, <1>7
  <2> QED
    BY <1>7, <1>8, <1>9, <2>1, <2>2, SideFacts
<1>11. sub2[u.root] = S2
  <2>1. sub[w.root] = S
    BY <1>1, <1>5 DEF Subtrees
  <2> QED
    BY <1>3, <1>5, <1>7, <2>1 DEF Renamed
<1>12. Subtrees(u, S2, sub2)
  BY <1>7, <1>10, <1>11 DEF Subtrees
<1>13. ASSUME NEW m \in S2, NEW s \in Sides, NEW k \in Branch(u, sub2, m, s)
       PROVE  Precedes(s, k, m)
  <2>1. k \in Renamed(Branch(w, sub, Old(m), s), n, p) /\ Old(m) \in S
    BY <1>3, <1>8
  <2>2. n \notin Branch(w, sub, n, s)
    BY <1>1, SideFacts, SplitAt DEF Split
  <2>3. Branch(w, sub, Old(m), s) \subseteq S
    BY <1>1, <1>3, BranchTransitive
  <2>4. CASE k = p
    <3>1. n \in Branch(w, sub, Old(m), s)
      BY <2>1, <2>3, <2>4 DEF Renamed
    <3>2. m # p /\ Old(m) = m
      BY <2>2, <3>1 DEF Old
    <3> QED
      BY <2>1, <2>4, <3>1, <3>2
  <2>5. CASE k # p
    <3>1. k \in Branch(w, sub, Old(m), s)
      BY <2>1, <2>5 DEF Renamed
    <3>2. CASE m = p
      BY <3>1, <3>2 DEF Old
    <3>3. CASE m # p
      BY <1>1, <2>1, <3>1, <3>3 DEF Old, Ordered
    <3> QED
      BY <3>2, <3>3
  <2> QED
    BY <2>4, <2>5
<1>14. Ordered(u, S2, sub2)
  BY <1>13 DEF Ordered
<1> QED
  BY <1>6, <1>12, <1>14 DEF Shape

\* The climb goes on from the node of the new name.
LEMMA SwapClimbs ==
    ASSUME NEW w, NEW u, NEW S, NEW sub, NEW q, Climbing(w, S, sub, q), NEW n \in S,
           NEW p \in Nodes, p \notin S, IsSwapped(w, u, n, p),
           \A s \in Sides : \A k \in Branch(w, sub, n, s) : Precedes(s, k, p),
           \A m \in S, s \in Sides : n \in Branch(w, sub, m, s) => Precedes(s, p, m)
    PROVE  Climbing(u, (S \ {n}) \cup {p}, Swapped(sub, S, n, p),
                    IF q = n THEN p ELSE q)
<1> DEFINE S2 == (S \ {n}) \cup {p}
           Old(m) == IF m = p THEN n ELSE m
           q2 == IF q = n THEN p ELSE q
<1>1. /\ Shape(w, S, sub) /\ Linked(w, S) /\ Subtrees(w, S, sub) /\ Deep(w, S)
      /\ S \subseteq Nodes /\ Null \notin S /\ p # Null /\ n # Null /\ w.sound
      /\ u \in Trees /\ u.sound /\ q \in S \cup {Null}
      /\ \A m \in S \ {q} : Level(w, m)
      /\ q # Null => Tilted(w, q)
  BY ConstantFacts DEF Climbing, Shape, Linked, IsSwapped
<1>2. IsRenamed(w, u, S, n, p)
  BY <1>1, SwapRenames
<1>3. Shape(u, S2, Swapped(sub, S, n, p))
  BY <1>1, <1>2, SwapShape
<1>4. \A m \in S2 :
        /\ Old(m) \in S
        /\ u.depth[m] = w.depth[Old(m)]
        /\ \A s \in Sides : /\ w[s][Old(m)] \in S \cup {Null}
                            /\ u[s][m] = IF w[s][Old(m)] = n THEN p ELSE w[s][Old(m)]
  BY <1>2 DEF IsRenamed
<1>5. ASSUME NEW m \in S2, NEW s \in Sides
      PROVE  SideDepth(u, m, s) = SideDepth(w, Old(m), s)
  <2> DEFINE k == w[s][Old(m)]
  <2>1. k \in S \cup {Null} /\ u[s][m] = IF k = n THEN p ELSE k
    BY <1>4
  <2>2. SideDepth(w, Old(m), s) = IF k = Null THEN 0 ELSE w.depth[k] + 1
    BY DEF SideDepth
  <2>3. SideDepth(u, m, s) = IF u[s][m] = Null THEN 0 ELSE u.depth[u[s][m]] + 1
    BY DEF SideDepth
  <2> HIDE DEF k
  <2>4. CASE k = n
    <3>1. u.depth[p] = w.depth[n]
      BY <1>4
    <3> QED
      BY <1>1, <2>1, <2>2, <2>3, <2>4, <3>1
  <2>5. CASE k # n /\ k # Null
    <3>1. k \in S2 /\ k # p
      BY <2>1, <2>5
    <3>2. u.depth[k] = w.depth[k]
      BY <1>4, <3>1
    <3> QED
      BY <2>1, <2>2, <2>3, <2>5, <3>2
  <2>6. CASE k = Null
    BY <1>1, <2>1, <2>2, <2>3, <2>6
  <2> QED
    BY <2>4, <2>5, <2>6
<1>6. Deep(u, S2)
  BY <1>1, <1>4 DEF Deep
<1>7. ASSUME NEW m \in S2 \ {q2} PROVE Level(u, m)
  <2>1. Old(m) \in S \ {q}
    BY <1>4
  <2>2. Level(w, Old(m))
    BY <1>1, <2>1
  <2> QED
    BY <1>4, <1>5, <2>2, SideFacts DEF Level, LongerSide
<1>8. q2 \in S2 \cup {Null}
  BY <1>1
<1>9. q2 # Null => Tilted(u, q2)
  <2> SUFFICES ASSUME q2 # Null PROVE Tilted(u, q2)
    OBVIOUS
  <2>1. q2 \in S2 /\ Old(q2) = q /\ Tilted(w, q)
    BY <1>1, <1>8
  <2>2. PICK s \in Sides, was \in Nat :
          /\ SideDepth(w, q, s) - was \in {-1, 1}
          /\ was - SideDepth(w, q, Other(s)) \in -1..1
          /\ w.depth[q] = Higher(was, SideDepth(w, q, Other(s)))
    BY <2>1 DEF Tilted
  <2>3. /\ SideDepth(u, q2, s) = SideDepth(w, q, s)
        /\ SideDepth(u, q2, Other(s)) = SideDepth(w, q, Other(s))
        /\ u.depth[q2] = w.depth[q]
    BY <1>4, <1>5, <2>1, SideFacts
  <2> HIDE DEF q2
  <2> QED
    BY <2>2, <2>3 DEF Tilted
<1> QED
  BY <1>1, <1>3, <1>6, <1>7, <1>8, <1>9 DEF Climbing

\* Memory that has been freed is marked.
IsFreed(t, u, x) ==
    /\ u \in Trees /\ u.root = t.root /\ u.sound = t.sound
    /\ \A m \in Nodes : /\ u.parent[m] = IF m = x THEN Freed ELSE t.parent[m]
                        /\ u.depth[m] = IF m = x THEN Freed ELSE t.depth[m]
    /\ \A s \in Sides, m \in Nodes : u[s][m] = IF m = x THEN Freed ELSE t[s][m]

\* DeallocNode marks the fields of one node.
LEMMA DeallocFields ==
    ASSUME NEW t \in Trees, NEW x \in Nodes
    PROVE  IsFreed(t, DeallocNode(t, x), x)
<1> DEFINE u == DeallocNode(t, x)
<1>1. /\ u.root = t.root /\ u.sound = t.sound
      /\ u.left = [t.left EXCEPT ![x] = Freed] /\ u.right = [t.right EXCEPT ![x] = Freed]
      /\ u.parent = [t.parent EXCEPT ![x] = Freed]
      /\ u.depth = [t.depth EXCEPT ![x] = Freed]
  BY DEF Trees, DeallocNode
<1>2. u \in Trees
  <2> DEFINE t1 == [t EXCEPT !.left = u.left]
             t2 == [t1 EXCEPT !.right = u.right]
             t3 == [t2 EXCEPT !.parent = u.parent]
             t4 == [t3 EXCEPT !.depth = u.depth]
  <2>1. /\ u.left \in [Nodes -> Link] /\ u.right \in [Nodes -> Link]
        /\ u.parent \in [Nodes -> Link] /\ u.depth \in [Nodes -> Int]
    BY <1>1 DEF Trees, Link, Freed
  <2>2. u = t4
    BY <1>1 DEF DeallocNode
  <2> HIDE DEF u
  <2>3. t1 \in Trees
    BY <2>1 DEF Trees
  <2>4. t2 \in Trees
    BY <2>1, <2>3 DEF Trees
  <2>5. t3 \in Trees
    BY <2>1, <2>4 DEF Trees
  <2>6. t4 \in Trees
    BY <2>1, <2>5 DEF Trees
  <2> QED
    BY <2>2, <2>6
<1> HIDE DEF u
<1>3. \A m \in Nodes : /\ u.parent[m] = IF m = x THEN Freed ELSE t.parent[m]
                       /\ u.depth[m] = IF m = x THEN Freed ELSE t.depth[m]
                       /\ u.left[m] = IF m = x THEN Freed ELSE t.left[m]
                       /\ u.right[m] = IF m = x THEN Freed ELSE t.right[m]
  BY <1>1 DEF Trees
<1>4. \A s \in Sides, m \in Nodes : u[s][m] = IF m = x THEN Freed ELSE t[s][m]
  BY <1>2, <1>3, TreeFields DEF Sides
<1>5. IsFreed(t, u, x)
  BY <1>1, <1>2, <1>3, <1>4 DEF IsFreed
<1> QED
  BY <1>5 DEF u

\* Once n is no longer linked, rebalancing and freeing it end the removal.
LEMMA FreedSane ==
    ASSUME NEW t, NEW S, NEW sub, NEW q, NEW n \in S, Climbing(t, S \ {n}, sub, q),
           n \in Nodes, Clean(t, S)
    PROVE  \E sub2 : Sane(DeallocNode(Rebalance(t, q), n), S \ {n}, sub2)
<1> DEFINE r == Rebalance(t, q)
           u == DeallocNode(r, n)
           S2 == S \ {n}
<1>1. PICK sub2 : IsRebalanced(t, r, S2, sub2)
  BY RebalanceEnds
<1> HIDE DEF r
<1>2. Climbing(r, S2, sub2, Null) /\ SameOutside(t, r, S2) /\ r \in Trees /\ S2 \subseteq Nodes
  BY <1>1 DEF IsRebalanced, Climbing, Shape, Linked
<1>3. IsFreed(r, u, n)
  BY <1>2, DeallocFields
<1> HIDE DEF u
<1>4. Climbing(u, S2, sub2, Null)
  <2>1. /\ u \in Trees /\ u.root = r.root /\ u.sound = r.sound
        /\ \A m \in S2 : u.parent[m] = r.parent[m] /\ u.depth[m] = r.depth[m]
        /\ \A m \in S2, s \in Sides : u[s][m] = r[s][m]
    BY <1>2, <1>3 DEF IsFreed
  <2> QED
    BY <1>2, <2>1, ClimbingKept
<1>5. Clean(u, S2)
  BY <1>2, <1>3 DEF IsFreed, SameOutside, Clean
<1>6. Sane(u, S2, sub2)
  BY <1>4, <1>5 DEF Sane
<1> QED
  BY <1>6 DEF u, r

\* What is outside of S is not written when a node of S is taken out.
LEMMA UnlinkClean ==
    ASSUME NEW t, NEW u, NEW S, NEW sub, Linked(t, S), Subtrees(t, S, sub), NEW p \in S,
           NEW c \in S \cup {Null}, IsUnlinked(t, u, p, c), Clean(t, S)
    PROVE  Clean(u, S)
<1>1. ASSUME NEW m \in Nodes \ S
      PROVE  /\ \A s \in Sides : u[s][m] = t[s][m]
             /\ u.parent[m] = t.parent[m] /\ u.depth[m] = t.depth[m]
  <2>1. m # t.parent[p] /\ m # c
    BY ConstantFacts DEF Linked
  <2> QED
    BY <2>1 DEF IsUnlinked
<1> QED
  BY <1>1 DEF Clean

\* A climb that has written nothing outside of S.
ClimbsClean(u, S2, sub2, q, S) == Climbing(u, S2, sub2, q) /\ Clean(u, S)

\* The predecessor p of n is taken out, and then takes its place.
LEMMA InnerClimbs ==
    ASSUME NEW t, NEW S, NEW sub, Climbing(t, S, sub, Null), Clean(t, S), NEW n \in S,
           t["left"][n] # Null, NEW p, IsRightmost(t, sub, p, t["left"][n]),
           NEW c, c = t.left[p],
           NEW r, IsUnlinked(t, r, p, c),
           NEW w, w = Asserted(r, c # Null => IsLeaf(t, c))
    PROVE  ClimbsClean(TakeOver(w, n, p), S \ {n},
                       Swapped(Unlinked(sub, S, p), S \ {p}, n, p),
                       IF t.parent[p] = n THEN p ELSE t.parent[p], S)
<1> DEFINE l == t["left"][n]
           S1 == S \ {p}
           sub1 == Unlinked(sub, S, p)
           u == TakeOver(w, n, p)
<1>1. /\ Shape(t, S, sub) /\ Linked(t, S) /\ Subtrees(t, S, sub) /\ Ordered(t, S, sub)
      /\ S \subseteq Nodes /\ Null \notin S /\ t \in Trees
      /\ \A m \in S, s \in Sides : t[s][m] \in S \cup {Null}
  BY ConstantFacts DEF Climbing, Shape, Linked
<1>2. /\ p \in sub[l] /\ t["right"][p] = Null
      /\ \A m \in sub[l] : ValueOf[m] <= ValueOf[p]
  BY DEF IsRightmost
<1>3. l \in S /\ Branch(t, sub, n, "left") = sub[l]
  BY <1>1, SideFacts DEF Branch
<1>4. Split(sub[n], n, sub[l], Branch(t, sub, n, "right"))
  BY <1>1, <1>3 DEF Subtrees
<1>5. p \in S /\ p \in Nodes /\ p # n /\ p \in sub[n]
  BY <1>1, <1>2, <1>3, <1>4, SelfBelow DEF Split
<1>6. c = t["left"][p] /\ c \in S \cup {Null} /\ t[Other("left")][p] = Null
  BY <1>1, <1>2, <1>5, TreeFields, SideFacts
<1>7. Climbing(r, S1, sub1, t.parent[p]) /\ (c # Null => IsLeaf(t, c))
  BY <1>5, <1>6, SideFacts, UnlinkClimbs
<1>8. \A m \in S1, s \in Sides : Branch(r, sub1, m, s) = Branch(t, sub, m, s) \ {p}
  <2>1. LosesOnly(t, r, S, sub, sub1, p)
    BY <1>1, <1>5, <1>6, SideFacts, UnlinkShape
  <2> QED
    BY <2>1 DEF LosesOnly
<1>9. IsAsserted(r, w, TRUE)
  <2>1. r \in Trees
    BY DEF IsUnlinked
  <2> QED
    BY <1>7, <2>1, AssertedFields
<1>10. /\ w \in Trees /\ w.root = r.root /\ w.parent = r.parent /\ w.depth = r.depth
       /\ w.sound = r.sound
       /\ \A s \in Sides : w[s] = r[s]
  <2>1. r.sound
    BY <1>7 DEF Climbing
  <2> QED
    BY <1>9, <2>1 DEF IsAsserted
<1>11. Climbing(w, S1, sub1, t.parent[p])
  BY <1>7, <1>10, ClimbingKept
<1>12. \A m \in S1, s \in Sides : Branch(w, sub1, m, s) = Branch(t, sub, m, s) \ {p}
  BY <1>8, <1>10 DEF Branch
<1>13. n \in S1 /\ p \notin S1 /\ Linked(w, S1) /\ Subtrees(w, S1, sub1)
  BY <1>5, <1>11 DEF Climbing, Shape
<1>14. IsSwapped(w, u, n, p)
  BY <1>5, <1>13, SwapMade
<1>15. ASSUME NEW s \in Sides, NEW k \in Branch(w, sub1, n, s) PROVE Precedes(s, k, p)
  <2>1. k \in Branch(t, sub, n, s)
    BY <1>12, <1>13
  <2>2. CASE s = "left"
    BY <1>2, <1>3, <2>1, <2>2 DEF Precedes
  <2>3. CASE s = "right"
    <3>1. ValueOf[n] <= ValueOf[k]
      BY <1>1, <2>1, <2>3, SideFacts DEF Ordered, Precedes
    <3>2. ValueOf[p] <= ValueOf[n]
      BY <1>1, <1>2, <1>3, SideFacts DEF Ordered, Precedes
    <3>3. k \in Nodes /\ n \in Nodes
      BY <1>1, <2>1, BranchTransitive
    <3>4. ValueOf[k] \in Int /\ ValueOf[n] \in Int /\ ValueOf[p] \in Int
      BY <1>5, <3>3, ConstantFacts
    <3> QED
      BY <2>3, <3>1, <3>2, <3>4 DEF Precedes
  <2> QED
    BY <2>2, <2>3 DEF Sides
<1>16. ASSUME NEW m \in S1, NEW s \in Sides, n \in Branch(w, sub1, m, s)
       PROVE  Precedes(s, p, m)
  <2>1. n \in Branch(t, sub, m, s)
    BY <1>12, <1>16
  <2>2. p \in Branch(t, sub, m, s)
    BY <1>1, <1>5, <2>1, BranchTransitive
  <2> QED
    BY <1>1, <2>2 DEF Ordered
<1>17. Climbing(u, (S1 \ {n}) \cup {p}, Swapped(sub1, S1, n, p),
                IF t.parent[p] = n THEN p ELSE t.parent[p])
  BY <1>5, <1>11, <1>13, <1>14, <1>15, <1>16, SwapClimbs
<1>18. (S1 \ {n}) \cup {p} = S \ {n}
  BY <1>5
<1>19. Clean(u, S)
  <2>1. Clean(r, S)
    BY <1>1, <1>5, <1>6, UnlinkClean
  <2>2. ASSUME NEW m \in Nodes \ S
        PROVE  /\ \A s \in Sides : u[s][m] = r[s][m]
               /\ u.parent[m] = r.parent[m] /\ u.depth[m] = r.depth[m]
    <3>1. \A s \in Sides : w[s][n] \in S \cup {Null}
      BY <1>13 DEF Linked
    <3>2. w.parent[n] \in S \cup {Null}
      BY <1>13 DEF Linked
    <3>3. m # Null /\ m # p /\ m # w.parent[n] /\ \A s \in Sides : m # w[s][n]
      BY <1>5, <3>1, <3>2, ConstantFacts
    <3>4. m \in Nodes
      BY <2>2
    <3>5. /\ \A s \in Sides : u[s][m] = w[s][m]
          /\ u.parent[m] = w.parent[m] /\ u.depth[m] = w.depth[m]
      BY <1>14, <3>3, <3>4, SwapApart
    <3> QED
      BY <1>10, <3>5
  <2> QED
    BY <2>1, <2>2 DEF Clean
<1> QED
  BY <1>17, <1>18, <1>19 DEF ClimbsClean

\* What a removal leaves is a tree of one node less.
LEMMA RemoveSane ==
    ASSUME NEW t, NEW sub, Sane(t, lent, sub), NEW n \in lent
    PROVE  \E sub2 : Sane(RemoveNode(t, n), lent \ {n}, sub2)
<1>1. /\ Climbing(t, lent, sub, Null) /\ Clean(t, lent)
      /\ Shape(t, lent, sub) /\ Linked(t, lent) /\ Subtrees(t, lent, sub)
      /\ t \in Trees /\ lent \subseteq Nodes /\ n \in Nodes
      /\ t.left = t["left"] /\ t.right = t["right"]
      /\ \A m \in lent, s \in Sides : t[s][m] \in lent \cup {Null}
  BY TreeFields DEF Sane, Climbing, Shape, Linked
<1>2. CASE Null \notin {t.left[n], t.right[n]}
  <2> DEFINE p == Rightmost(t, t.left[n])
             c == t.left[p]
             r == Replace(t, Slot(t, p), c)
             w == Asserted(r, c # Null => IsLeaf(t, c))
             q == IF t.parent[p] = n THEN p ELSE t.parent[p]
  <2>1. RemoveNode(t, n) = DeallocNode(Rebalance(TakeOver(w, n, p), q), n)
    BY <1>2 DEF RemoveNode, RemoveInner
  <2>2. t.left[n] \in lent /\ t["left"][n] = t.left[n] /\ t.left[n] # Null
    BY <1>1, <1>2, SideFacts
  <2>3. IsRightmost(t, sub, p, t.left[n])
    BY <1>1, <2>2, RightmostFound
  <2> HIDE DEF p
  <2>4. p \in lent /\ c \in lent \cup {Null}
    BY <1>1, <2>2, <2>3, SelfBelow, SideFacts DEF IsRightmost
  <2>5. IsUnlinked(t, r, p, c)
    BY <1>1, <2>4, UnlinkMade
  <2> HIDE DEF c, r, w
  <2>6. c = t.left[p] /\ w = Asserted(r, c # Null => IsLeaf(t, c))
    BY DEF c, w
  <2> DEFINE sub2 == Swapped(Unlinked(sub, lent, p), lent \ {p}, n, p)
             u == TakeOver(w, n, p)
  <2>7. ClimbsClean(u, lent \ {n}, sub2, q, lent)
    BY <1>1, <2>2, <2>3, <2>5, <2>6, InnerClimbs
  <2> HIDE DEF q, sub2, u
  <2>8. \E sub3 : Sane(DeallocNode(Rebalance(u, q), n), lent \ {n}, sub3)
    BY <1>1, <2>7, FreedSane DEF ClimbsClean
  <2> QED
    BY <2>1, <2>8 DEF u
<1>3. CASE Null \in {t.left[n], t.right[n]}
  <2> DEFINE c == IF t.left[n] = Null THEN t.right[n] ELSE t.left[n]
             u == Replace(t, Slot(t, n), c)
             q == t.parent[n]
             sub2 == Unlinked(sub, lent, n)
  <2>1. RemoveNode(t, n) = DeallocNode(Rebalance(u, q), n)
    BY <1>3 DEF RemoveNode
  <2>2. PICK side \in Sides : c = t[side][n] /\ t[Other(side)][n] = Null
    BY <1>1, <1>3, SideFacts
  <2>3. c \in lent \cup {Null}
    BY <1>1, <2>2
  <2> HIDE DEF c
  <2>4. IsUnlinked(t, u, n, c)
    BY <1>1, <2>3, UnlinkMade
  <2> HIDE DEF u
  <2>5. Climbing(u, lent \ {n}, sub2, q)
    BY <1>1, <2>2, <2>4, UnlinkClimbs
  <2>6. Clean(u, lent)
    BY <1>1, <2>3, <2>4, UnlinkClean
  <2> HIDE DEF q, sub2
  <2>7. \E sub3 : Sane(DeallocNode(Rebalance(u, q), n), lent \ {n}, sub3)
    BY <1>1, <2>5, <2>6, FreedSane
  <2> QED
    BY <2>1, <2>7
<1> QED
  BY <1>2, <1>3

-----------------------------------------------------------------------------
(* Clear.                                                                  *)

\* A value at a node is made of the values at both of its children, and the one
\* at Null is given.
IsMadeBelow(f, t, S, base, h) ==
    /\ f[Null] = base
    /\ \A m \in S : f[m] = h[m][f[t.left[m]]][f[t.right[m]]]

MakesValues(S, Val, h) == \A m \in S, a, b \in Val : h[m][a][b] \in Val

\* There is such a function.
LEMMA NodeRecursion ==
    ASSUME NEW t, NEW S, NEW sub, Linked(t, S), Subtrees(t, S, sub),
           NEW Val, NEW base \in Val, NEW h, MakesValues(S, Val, h)
    PROVE  \E f \in [S \cup {Null} -> Val] : IsMadeBelow(f, t, S, base, h)
<1> DEFINE D == S \cup {Null}
           Stop == {Null}
           bases == [m \in D |-> base]
           l == [m \in D |-> t.left[m]]
           r == [m \in D |-> t.right[m]]
<1>1. /\ Null \notin S /\ t.left = t["left"] /\ t.right = t["right"]
      /\ \A m \in S, s \in Sides : t[s][m] \in S \cup {Null}
  BY ConstantFacts, TreeFields DEF Linked
<1>2. GoesDown(t, D, Stop, l, r)
  BY <1>1, SideFacts DEF GoesDown
<1>3. Returns(D, Val, Stop, bases, h)
  BY <1>1 DEF Returns, MakesValues
<1>4. \E f \in [D -> Val] : IsRecursion(f, D, Stop, bases, l, r, h)
  <2>1. D \subseteq S \cup {Null}
    OBVIOUS
  <2> HIDE DEF D, Stop, bases, l, r
  <2> QED
    BY <1>2, <1>3, <2>1, TreeRecursion
<1>5. PICK f \in [D -> Val] : IsRecursion(f, D, Stop, bases, l, r, h)
  BY <1>4
<1>6. f[Null] = base
  BY <1>5 DEF IsRecursion
<1>7. \A m \in S : f[m] = h[m][f[t.left[m]]][f[t.right[m]]]
  BY <1>1, <1>5 DEF IsRecursion
<1> QED
  BY <1>5, <1>6, <1>7 DEF IsMadeBelow

\* The two children of a node, and Null.
LEMMA ChildFacts ==
    ASSUME NEW t, NEW S, Linked(t, S)
    PROVE  /\ Null \notin S /\ S \subseteq Nodes /\ t \in Trees
           /\ t.left = t["left"] /\ t.right = t["right"]
           /\ \A m \in S, s \in Sides : t[s][m] \in S \cup {Null}
           /\ \A m \in S : t.left[m] \in S \cup {Null} /\ t.right[m] \in S \cup {Null}
           /\ t.root \in S \cup {Null}
           /\ t.root = Null => S = {}
BY ConstantFacts, TreeFields, SideFacts DEF Linked

\* Below finds all that is below a node.
LEMMA BelowFound ==
    ASSUME NEW sub, Linked(tree, lent), Subtrees(tree, lent, sub)
    PROVE  Below(tree.root) = lent
<1> DEFINE Val == SUBSET lent
           h == [m \in lent |-> [a \in Val |-> [b \in Val |-> {m} \cup a \cup b]]]
           Loop(f) == f = [m \in lent \cup {Null} |->
                             IF m = Null THEN {}
                             ELSE {m} \cup f[tree.left[m]] \cup f[tree.right[m]]]
           from == CHOOSE f : Loop(f)
<1>1. \A n : Below(n) = from[n]
  BY DEF Below
<1>2. /\ Null \notin lent
      /\ tree.left = tree["left"] /\ tree.right = tree["right"]
      /\ \A m \in lent : tree.left[m] \in lent \cup {Null} /\ tree.right[m] \in lent \cup {Null}
      /\ tree.root \in lent \cup {Null}
      /\ tree.root = Null => lent = {}
  BY ChildFacts
<1>3. \E f : Loop(f)
  <2>1. {} \in Val /\ MakesValues(lent, Val, h)
    BY DEF MakesValues
  <2>2. \E f \in [lent \cup {Null} -> Val] : IsMadeBelow(f, tree, lent, {}, h)
    <3> HIDE DEF Val, h
    <3> QED
      BY <2>1, NodeRecursion
  <2>3. PICK f \in [lent \cup {Null} -> Val] :
          /\ f[Null] = {}
          /\ \A m \in lent : f[m] = h[m][f[tree.left[m]]][f[tree.right[m]]]
    BY <2>2 DEF IsMadeBelow
  <2>4. \A m \in lent : f[m] = {m} \cup f[tree.left[m]] \cup f[tree.right[m]]
    <3> TAKE m \in lent
    <3>1. f[tree.left[m]] \in Val /\ f[tree.right[m]] \in Val
      BY <1>2, <2>3
    <3> HIDE DEF Val
    <3> QED
      BY <2>3, <3>1
  <2>5. Loop(f)
    BY <1>2, <2>3, <2>4
  <2> QED
    BY <2>5
<1>4. Loop(from)
  <2> HIDE DEF Loop
  <2> QED
    BY <1>3
<1> HIDE DEF from
<1>5. /\ from[Null] = {}
      /\ \A m \in lent : from[m] = {m} \cup from[tree.left[m]] \cup from[tree.right[m]]
  BY <1>2, <1>4
<1> DEFINE G == {m \in lent : from[m] = sub[m]}
<1>6. ASSUME NEW k \in lent, \A s \in Sides : tree[s][k] # Null => tree[s][k] \in G
      PROVE  k \in G
  <2>1. Split(sub[k], k, Branch(tree, sub, k, "left"), Branch(tree, sub, k, "right"))
    BY DEF Subtrees
  <2>2. /\ from[tree.left[k]] = Branch(tree, sub, k, "left")
        /\ from[tree.right[k]] = Branch(tree, sub, k, "right")
    BY <1>2, <1>5, <1>6, SideFacts DEF Branch
  <2> QED
    BY <1>5, <2>1, <2>2 DEF Split
<1> HIDE DEF G
<1>7. \A m \in lent : m \in G
  BY <1>6, TreeInduction
<1>8. \A m \in lent : from[m] = sub[m]
  BY <1>7 DEF G
<1>9. CASE tree.root = Null
  BY <1>1, <1>2, <1>5, <1>9
<1>10. CASE tree.root # Null
  BY <1>1, <1>2, <1>8, <1>10 DEF Subtrees
<1> QED
  BY <1>9, <1>10

\* What is sane of no node.
LEMMA EmptySane ==
    ASSUME NEW t \in Trees, t.root = Null, t.sound, Clean(t, {}),
           NEW sub, sub = [m \in {} |-> {}]
    PROVE  Sane(t, {}, sub)
<1>1. Linked(t, {})
  BY DEF Linked
<1>2. Subtrees(t, {}, sub) /\ Ordered(t, {}, sub)
  BY DEF Subtrees, Ordered
<1>3. Climbing(t, {}, sub, Null)
  BY <1>1, <1>2 DEF Climbing, Shape, Deep
<1> QED
  BY <1>3 DEF Sane

\* Clear leaves no node, and no link in the memory it has freed.
LEMMA ClearSane ==
    ASSUME NEW sub, Sane(tree, lent, sub), Clear
    PROVE  lent' = {} /\ \E sub2 : Sane(tree', {}, sub2)
<1>1. /\ Clean(tree, lent) /\ Linked(tree, lent) /\ Subtrees(tree, lent, sub)
      /\ tree.sound /\ tree \in Trees
  BY DEF Sane, Climbing, Shape, Linked
<1>2. Below(tree.root) = lent
  BY <1>1, BelowFound
<1> DEFINE kept(field) == [n \in Nodes |-> IF n \in lent THEN Freed ELSE field[n]]
<1>3. /\ lent' = {}
      /\ tree' = [tree EXCEPT !.root = Null,
                              !.left = kept(@), !.right = kept(@),
                              !.parent = kept(@), !.depth = kept(@)]
  BY <1>2 DEF Clear
<1>4. /\ \A field \in [Nodes -> Link] : kept(field) \in [Nodes -> Link]
      /\ \A field \in [Nodes -> Int] : kept(field) \in [Nodes -> Int]
      /\ Null \in Link
  BY DEF Link, Freed
<1>5. \A field, n : n \in Nodes => kept(field)[n] = IF n \in lent THEN Freed ELSE field[n]
  OBVIOUS
<1> HIDE DEF kept
<1>6. /\ tree'.root = Null /\ tree'.sound = tree.sound
      /\ tree'.left = kept(tree.left) /\ tree'.right = kept(tree.right)
      /\ tree'.parent = kept(tree.parent) /\ tree'.depth = kept(tree.depth)
  BY <1>1, <1>3 DEF Trees
<1>7. tree' \in Trees
  BY <1>1, <1>3, <1>4 DEF Trees
<1>8. Clean(tree', {})
  <2> SUFFICES ASSUME NEW m \in Nodes
               PROVE  /\ \A s \in Sides : (tree')[s][m] = Freed
                      /\ tree'.parent[m] = Freed /\ tree'.depth[m] = Freed
    BY DEF Clean
  <2>1. /\ tree'.left = (tree')["left"] /\ tree'.right = (tree')["right"]
        /\ tree.left = tree["left"] /\ tree.right = tree["right"]
    BY <1>1, <1>7, TreeFields
  <2>2. m \notin lent => /\ tree.left[m] = Freed /\ tree.right[m] = Freed
                         /\ tree.parent[m] = Freed /\ tree.depth[m] = Freed
    BY <1>1, <2>1, SideFacts DEF Clean
  <2>3. /\ tree'.left[m] = Freed /\ tree'.right[m] = Freed
        /\ tree'.parent[m] = Freed /\ tree'.depth[m] = Freed
    <3>1. CASE m \in lent
      BY <1>5, <1>6, <3>1
    <3>2. CASE m \notin lent
      BY <1>5, <1>6, <2>2, <3>2
    <3> QED
      BY <3>1, <3>2
  <2> QED
    BY <2>1, <2>3 DEF Sides
<1>9. Sane(tree', {}, [m \in {} |-> {}])
  BY <1>1, <1>6, <1>7, <1>8, EmptySane
<1> QED
  BY <1>3, <1>9

-----------------------------------------------------------------------------
(* The searches.                                                           *)

\* An answer among X: none of them is wanted, or none that is comes before it.
Nearest(X, Ok, key, x) ==
    \/ x = Null /\ Ok \cap X = {}
    \/ x \in Ok \cap X /\ \A k \in Ok \cap X : key[x] <= key[k]

\* Keys are in order from the near side to the other.
KeysOrdered(t, S, sub, near, key) ==
    /\ \A n \in S : key[n] \in Int
    /\ \A n \in S : /\ \A m \in Branch(t, sub, n, near) : key[m] <= key[n]
                    /\ \A m \in Branch(t, sub, n, Other(near)) : key[n] <= key[m]

\* What comes after a wanted node is wanted, and nothing wanted comes before one
\* of the best.
Wants(S, Ok, Best, key) ==
    /\ Ok \subseteq S /\ Best \subseteq Ok
    /\ \A a \in Ok, b \in S : key[a] <= key[b] => b \in Ok
    /\ \A a \in Best, b \in Ok : key[a] <= key[b]

\* The search: away from the near side as long as nothing wanted is found, and
\* then towards it, unless it cannot get better.
IsSearch(f, t, S, near, Ok, Best) ==
    /\ f[Null] = Null
    /\ \A m \in S :
         f[m] = IF m \notin Ok THEN f[t[Other(near)][m]]
                ELSE IF m \in Best THEN m
                ELSE IF f[t[near][m]] # Null THEN f[t[near][m]]
                ELSE m

\* It finds the nearest node below the one it starts from.
LEMMA SearchFinds ==
    ASSUME NEW t, NEW S, NEW sub, Linked(t, S), Subtrees(t, S, sub),
           NEW near \in Sides, NEW key, KeysOrdered(t, S, sub, near, key),
           NEW Ok, NEW Best, Wants(S, Ok, Best, key),
           NEW f, IsSearch(f, t, S, near, Ok, Best)
    PROVE  \A m \in S : Nearest(sub[m], Ok, key, f[m])
<1> DEFINE G == {m \in S : Nearest(sub[m], Ok, key, f[m])}
<1>1. ASSUME NEW k \in S, \A s \in Sides : t[s][k] # Null => t[s][k] \in G
      PROVE  k \in G
  <2> DEFINE a == t[near][k]
             b == t[Other(near)][k]
             L == Branch(t, sub, k, near)
             R == Branch(t, sub, k, Other(near))
  <2>1. Split(sub[k], k, L, R)
    BY SplitAt
  <2>2. \A s \in Sides : Nearest(Branch(t, sub, k, s), Ok, key, f[t[s][k]])
    BY <1>1 DEF Branch, Nearest, IsSearch
  <2>3. Nearest(L, Ok, key, f[a]) /\ Nearest(R, Ok, key, f[b])
    BY <2>2, SideFacts
  <2>4. f[k] = IF k \notin Ok THEN f[b] ELSE IF k \in Best THEN k
               ELSE IF f[a] # Null THEN f[a] ELSE k
    BY DEF IsSearch
  <2>5. /\ L \subseteq S /\ R \subseteq S /\ Null \notin S
        /\ \A m \in L : m \in S /\ key[m] <= key[k]
        /\ \A m \in R : m \in S /\ key[k] <= key[m]
    BY <2>1, SelfBelow, ConstantFacts DEF Split, KeysOrdered, Linked
  <2> HIDE DEF a, b, L, R
  <2>6. \A m, n, o \in S : /\ key[m] \in Int /\ key[m] <= key[m]
                           /\ key[m] <= key[n] /\ key[n] <= key[o] => key[m] <= key[o]
    BY DEF KeysOrdered
  <2>7. CASE k \notin Ok
    <3>1. Ok \cap L = {}
      BY <2>5, <2>7 DEF Wants
    <3>2. Ok \cap sub[k] = Ok \cap R
      BY <2>1, <2>7, <3>1 DEF Split
    <3>3. Nearest(sub[k], Ok, key, f[k])
      BY <2>3, <2>4, <2>7, <3>2 DEF Nearest
    <3> QED
      BY <3>3
  <2>8. CASE k \in Ok /\ k \in Best
    <3>1. Nearest(sub[k], Ok, key, f[k])
      BY <2>1, <2>4, <2>8 DEF Nearest, Wants, Split
    <3> QED
      BY <3>1
  <2>9. CASE k \in Ok /\ k \notin Best /\ f[a] # Null
    <3>1. f[a] \in Ok /\ f[a] \in L /\ \A m \in Ok \cap L : key[f[a]] <= key[m]
      BY <2>3, <2>9 DEF Nearest
    <3>2. \A m \in R : key[f[a]] <= key[m]
      BY <2>5, <2>6, <3>1
    <3>3. \A m \in Ok \cap sub[k] : key[f[a]] <= key[m]
      BY <2>1, <2>5, <3>1, <3>2 DEF Split
    <3>4. Nearest(sub[k], Ok, key, f[a])
      BY <2>1, <3>1, <3>3 DEF Nearest, Split
    <3> QED
      BY <2>4, <2>9, <3>4
  <2>10. CASE k \in Ok /\ k \notin Best /\ f[a] = Null
    <3>1. Ok \cap L = {}
      BY <2>3, <2>5, <2>10 DEF Nearest
    <3>2. \A m \in Ok \cap sub[k] : key[k] <= key[m]
      BY <2>1, <2>5, <2>6, <3>1 DEF Split
    <3>3. Nearest(sub[k], Ok, key, k)
      BY <2>1, <2>10, <3>2 DEF Nearest, Split
    <3> QED
      BY <2>4, <2>10, <3>3
  <2> QED
    BY <2>7, <2>8, <2>9, <2>10
<1> HIDE DEF G
<1>2. \A m \in S : m \in G
  BY <1>1, TreeInduction
<1> QED
  BY <1>2 DEF G

\* There is such a search.
LEMMA SearchExists ==
    ASSUME NEW t, NEW S, NEW sub, Linked(t, S), Subtrees(t, S, sub),
           NEW near \in Sides, NEW Ok, NEW Best
    PROVE  \E f \in [S \cup {Null} -> S \cup {Null}] : IsSearch(f, t, S, near, Ok, Best)
<1> DEFINE Val == S \cup {Null}
           pick(m, a, b) == IF m \notin Ok THEN b
                            ELSE IF m \in Best THEN m
                            ELSE IF a # Null THEN a ELSE m
           h == [m \in S |-> [a \in Val |-> [b \in Val |->
                    IF near = "left" THEN pick(m, a, b) ELSE pick(m, b, a)]]]
<1>1. Null \in Val /\ MakesValues(S, Val, h)
  BY DEF MakesValues
<1>2. \E f \in [S \cup {Null} -> Val] : IsMadeBelow(f, t, S, Null, h)
  <2> HIDE DEF Val, h
  <2> QED
    BY <1>1, NodeRecursion
<1>3. PICK f \in [S \cup {Null} -> Val] : IsMadeBelow(f, t, S, Null, h)
  BY <1>2
<1>4. /\ t.left = t["left"] /\ t.right = t["right"]
      /\ \A m \in S, s \in Sides : t[s][m] \in S \cup {Null}
  BY ChildFacts
<1>5. ASSUME NEW m \in S
      PROVE  f[m] = pick(m, f[t[near][m]], f[t[Other(near)][m]])
  <2>1. f[m] = h[m][f[t["left"][m]]][f[t["right"][m]]]
    BY <1>3, <1>4 DEF IsMadeBelow
  <2>2. f[t["left"][m]] \in Val /\ f[t["right"][m]] \in Val
    BY <1>3, <1>4, SideFacts
  <2>3. f[m] = IF near = "left" THEN pick(m, f[t["left"][m]], f[t["right"][m]])
               ELSE pick(m, f[t["right"][m]], f[t["left"][m]])
    <3> HIDE DEF Val, pick
    <3> QED
      BY <2>1, <2>2
  <2> HIDE DEF pick
  <2> QED
    BY <2>3 DEF Sides, Other
<1>6. IsSearch(f, t, S, near, Ok, Best)
  BY <1>3, <1>5 DEF IsSearch, IsMadeBelow
<1> QED
  BY <1>3, <1>6

\* The answer for the whole tree is the one below its root.
LEMMA SearchFromRoot ==
    ASSUME NEW t, NEW S, NEW sub, Linked(t, S), Subtrees(t, S, sub),
           NEW key, NEW Ok, Ok \subseteq S, NEW f, f[Null] = Null,
           \A m \in S : Nearest(sub[m], Ok, key, f[m])
    PROVE  Nearest(S, Ok, key, f[t.root])
<1>1. CASE t.root = Null
  BY <1>1 DEF Linked, Nearest
<1>2. CASE t.root # Null
  BY <1>2 DEF Linked, Subtrees
<1> QED
  BY <1>1, <1>2

\* The values of nodes are in order from left to right.
LEMMA ValuesOrdered ==
    ASSUME NEW t, NEW S, NEW sub, Shape(t, S, sub)
    PROVE  /\ KeysOrdered(t, S, sub, "left", ValueOf)
           /\ KeysOrdered(t, S, sub, "right", [m \in S |-> - ValueOf[m]])
<1>1. /\ Linked(t, S) /\ Subtrees(t, S, sub) /\ Ordered(t, S, sub) /\ S \subseteq Nodes
      /\ \A n \in S : ValueOf[n] \in Int
  BY ConstantFacts DEF Shape, Linked
<1>2. \A n \in S : /\ \A m \in Branch(t, sub, n, "left") : m \in S /\ ValueOf[m] <= ValueOf[n]
                   /\ \A m \in Branch(t, sub, n, "right") : m \in S /\ ValueOf[n] <= ValueOf[m]
  BY <1>1, SideFacts, BranchTransitive DEF Ordered, Precedes
<1> QED
  BY <1>1, <1>2, SideFacts DEF KeysOrdered

\* SearchAbove finds a lowest of the values above v.
LEMMA AboveFound ==
    ASSUME NEW sub, Shape(tree, lent, sub), NEW v \in Int, NEW allowEqual \in BOOLEAN
    PROVE  Nearest(lent, {m \in lent : ValueOf[m] > v \/ (allowEqual /\ ValueOf[m] = v)},
                   ValueOf, SearchAbove(tree.root, v, allowEqual))
<1> DEFINE Ok == {m \in lent : ValueOf[m] > v \/ (allowEqual /\ ValueOf[m] = v)}
           Best == {m \in lent : allowEqual /\ ValueOf[m] = v}
           skipped(m) == ValueOf[m] < v \/ (~ allowEqual /\ ValueOf[m] = v)
           equal(m) == allowEqual /\ ValueOf[m] = v
           Loop(f) == f = [m \in lent \cup {Null} |->
                             IF m = Null THEN Null
                             ELSE IF skipped(m) THEN f[tree.right[m]]
                             ELSE IF equal(m) THEN m
                             ELSE LET lower == f[tree.left[m]]
                                  IN  IF lower # Null THEN lower ELSE m]
           from == CHOOSE f : Loop(f)
<1>1. SearchAbove(tree.root, v, allowEqual) = from[tree.root]
  BY DEF SearchAbove
<1>2. Linked(tree, lent) /\ Subtrees(tree, lent, sub)
  BY DEF Shape
<1>3. /\ Null \notin lent /\ lent \subseteq Nodes
      /\ tree.left = tree["left"] /\ tree.right = tree["right"]
      /\ \A m \in lent : ValueOf[m] \in Int
  BY <1>2, ChildFacts, ConstantFacts
<1>4. \A m \in lent : (m \in Ok <=> ~ skipped(m)) /\ (m \in Best <=> equal(m))
  BY <1>3
<1>5. Wants(lent, Ok, Best, ValueOf)
  BY <1>3 DEF Wants
<1> HIDE DEF Ok, Best, skipped, equal
<1>6. PICK f \in [lent \cup {Null} -> lent \cup {Null}] :
         IsSearch(f, tree, lent, "left", Ok, Best)
  BY <1>2, SearchExists, SideFacts
<1>7. Loop(f)
  BY <1>3, <1>4, <1>6, SideFacts DEF IsSearch
<1>8. Loop(from)
  <2> HIDE DEF Loop
  <2> QED
    BY <1>7
<1> HIDE DEF from
<1>9. IsSearch(from, tree, lent, "left", Ok, Best)
  BY <1>3, <1>4, <1>8, SideFacts DEF IsSearch
<1>10. \A m \in lent : Nearest(sub[m], Ok, ValueOf, from[m])
  BY <1>2, <1>5, <1>9, SearchFinds, ValuesOrdered, SideFacts
<1>11. Nearest(lent, Ok, ValueOf, from[tree.root])
  BY <1>2, <1>5, <1>9, <1>10, SearchFromRoot DEF Wants, IsSearch
<1> QED
  BY <1>1, <1>11 DEF Ok

\* SearchBelow finds a highest of the values below v.
LEMMA BelowSearchFound ==
    ASSUME NEW sub, Shape(tree, lent, sub), NEW v \in Int, NEW allowEqual \in BOOLEAN
    PROVE  Nearest(lent, {m \in lent : ValueOf[m] < v \/ (allowEqual /\ ValueOf[m] = v)},
                   [m \in lent |-> - ValueOf[m]], SearchBelow(tree.root, v, allowEqual))
<1> DEFINE Ok == {m \in lent : ValueOf[m] < v \/ (allowEqual /\ ValueOf[m] = v)}
           Best == {m \in lent : allowEqual /\ ValueOf[m] = v}
           key == [m \in lent |-> - ValueOf[m]]
           skipped(m) == ValueOf[m] > v \/ (~ allowEqual /\ ValueOf[m] = v)
           equal(m) == allowEqual /\ ValueOf[m] = v
           Loop(f) == f = [m \in lent \cup {Null} |->
                             IF m = Null THEN Null
                             ELSE IF skipped(m) THEN f[tree.left[m]]
                             ELSE IF equal(m) THEN m
                             ELSE LET higher == f[tree.right[m]]
                                  IN  IF higher # Null THEN higher ELSE m]
           from == CHOOSE f : Loop(f)
<1>1. SearchBelow(tree.root, v, allowEqual) = from[tree.root]
  BY DEF SearchBelow
<1>2. Linked(tree, lent) /\ Subtrees(tree, lent, sub)
  BY DEF Shape
<1>3. /\ Null \notin lent /\ lent \subseteq Nodes
      /\ tree.left = tree["left"] /\ tree.right = tree["right"]
      /\ \A m \in lent : ValueOf[m] \in Int
  BY <1>2, ChildFacts, ConstantFacts
<1>4. \A m \in lent : (m \in Ok <=> ~ skipped(m)) /\ (m \in Best <=> equal(m))
  BY <1>3
<1>5. Wants(lent, Ok, Best, key)
  <2>1. \A a, b \in lent : key[a] <= key[b] <=> ValueOf[b] <= ValueOf[a]
    BY <1>3
  <2> HIDE DEF key
  <2> QED
    BY <1>3, <2>1 DEF Wants
<1> HIDE DEF Ok, Best, skipped, equal
<1>6. PICK f \in [lent \cup {Null} -> lent \cup {Null}] :
         IsSearch(f, tree, lent, "right", Ok, Best)
  BY <1>2, SearchExists, SideFacts
<1>7. Loop(f)
  BY <1>3, <1>4, <1>6, SideFacts DEF IsSearch
<1>8. Loop(from)
  <2> HIDE DEF Loop
  <2> QED
    BY <1>7
<1> HIDE DEF from
<1>9. IsSearch(from, tree, lent, "right", Ok, Best)
  BY <1>3, <1>4, <1>8, SideFacts DEF IsSearch
<1>10. KeysOrdered(tree, lent, sub, "right", key)
  BY ValuesOrdered
<1> HIDE DEF key
<1>11. \A m \in lent : Nearest(sub[m], Ok, key, from[m])
  BY <1>2, <1>5, <1>9, <1>10, SearchFinds, SideFacts
<1>12. Nearest(lent, Ok, key, from[tree.root])
  BY <1>2, <1>5, <1>9, <1>11, SearchFromRoot DEF Wants, IsSearch
<1> QED
  BY <1>1, <1>12 DEF Ok, key

\* A search for a range of values finds one of them, or there is none.
IsInRange(X, lo, hi, x) ==
    \/ x = Null /\ \A k \in X : ValueOf[k] \notin lo..hi
    \/ x \in X /\ ValueOf[x] \in lo..hi

\* Search finds a value in the range if there is one.
LEMMA NodeFound ==
    ASSUME NEW sub, Shape(tree, lent, sub), NEW lo \in Int, NEW hi \in Int
    PROVE  IsInRange(lent, lo, hi, SearchNode(tree.root, lo, hi))
<1> DEFINE Val == lent \cup {Null}
           toLeft(m) == ValueOf[m] > hi
           in(m) == ValueOf[m] \in lo..hi
           h == [m \in lent |-> [a \in Val |-> [b \in Val |->
                    IF in(m) THEN m ELSE IF toLeft(m) THEN a ELSE b]]]
           Loop(f) == f = [m \in lent \cup {Null} |->
                             IF m = Null THEN Null
                             ELSE IF in(m) THEN m
                             ELSE f[IF toLeft(m) THEN tree.left[m] ELSE tree.right[m]]]
           from == CHOOSE f : Loop(f)
<1>1. SearchNode(tree.root, lo, hi) = from[tree.root]
  BY DEF SearchNode
<1>2. Linked(tree, lent) /\ Subtrees(tree, lent, sub) /\ Ordered(tree, lent, sub)
  BY DEF Shape
<1>3. /\ Null \notin lent /\ lent \subseteq Nodes
      /\ tree.left = tree["left"] /\ tree.right = tree["right"]
      /\ tree.root \in lent \cup {Null} /\ (tree.root = Null => lent = {})
      /\ \A m \in lent : tree.left[m] \in lent \cup {Null} /\ tree.right[m] \in lent \cup {Null}
      /\ \A m \in lent : ValueOf[m] \in Int
  BY <1>2, ChildFacts, ConstantFacts
<1>4. \E f : Loop(f)
  <2>1. Null \in Val /\ MakesValues(lent, Val, h)
    BY DEF MakesValues
  <2>2. \E f \in [lent \cup {Null} -> Val] : IsMadeBelow(f, tree, lent, Null, h)
    <3> HIDE DEF Val, h
    <3> QED
      BY <1>2, <2>1, NodeRecursion
  <2>3. PICK f \in [lent \cup {Null} -> Val] :
          /\ f[Null] = Null
          /\ \A m \in lent : f[m] = h[m][f[tree.left[m]]][f[tree.right[m]]]
    BY <2>2 DEF IsMadeBelow
  <2>4. \A m \in lent : f[m] = IF in(m) THEN m
                               ELSE IF toLeft(m) THEN f[tree.left[m]] ELSE f[tree.right[m]]
    <3> TAKE m \in lent
    <3>1. f[tree.left[m]] \in Val /\ f[tree.right[m]] \in Val
      BY <1>3, <2>3
    <3> HIDE DEF Val, in, toLeft
    <3> QED
      BY <2>3, <3>1
  <2> HIDE DEF in, toLeft
  <2>5. Loop(f)
    BY <1>3, <2>3, <2>4
  <2> QED
    BY <2>5
<1>5. Loop(from)
  <2> HIDE DEF Loop
  <2> QED
    BY <1>4
<1> HIDE DEF from
<1>6. /\ from[Null] = Null
      /\ \A m \in lent : from[m] = IF in(m) THEN m
                                   ELSE IF toLeft(m) THEN from[tree.left[m]]
                                   ELSE from[tree.right[m]]
  <2> HIDE DEF in, toLeft
  <2> QED
    BY <1>3, <1>5
<1> DEFINE G == {m \in lent : IsInRange(sub[m], lo, hi, from[m])}
<1>7. ASSUME NEW k \in lent, \A s \in Sides : tree[s][k] # Null => tree[s][k] \in G
      PROVE  k \in G
  <2> DEFINE L == Branch(tree, sub, k, "left")
             R == Branch(tree, sub, k, "right")
  <2>1. Split(sub[k], k, L, R)
    BY <1>2 DEF Subtrees
  <2>2. \A s \in Sides : IsInRange(Branch(tree, sub, k, s), lo, hi, from[tree[s][k]])
    BY <1>6, <1>7 DEF Branch, IsInRange
  <2>3. IsInRange(L, lo, hi, from[tree.left[k]]) /\ IsInRange(R, lo, hi, from[tree.right[k]])
    BY <1>3, <2>2, SideFacts
  <2>4. /\ \A m \in L : m \in lent /\ ValueOf[m] <= ValueOf[k]
        /\ \A m \in R : m \in lent /\ ValueOf[k] <= ValueOf[m]
    BY <1>2, SideFacts, BranchTransitive DEF Ordered, Precedes
  <2> HIDE DEF L, R
  <2>5. CASE in(k)
    <3>1. IsInRange(sub[k], lo, hi, from[k])
      BY <1>6, <2>1, <2>5 DEF IsInRange, Split
    <3> QED
      BY <3>1
  <2>6. CASE ~ in(k) /\ toLeft(k)
    <3>1. \A m \in R : ValueOf[m] \notin lo..hi
      BY <1>3, <2>4, <2>6
    <3>2. \A m \in sub[k] : m = k \/ m \in L \/ m \in R
      BY <2>1 DEF Split
    <3>3. from[k] = from[tree.left[k]] /\ L \subseteq sub[k]
      BY <1>6, <2>1, <2>6 DEF Split
    <3>4. IsInRange(sub[k], lo, hi, from[k])
      BY <2>3, <2>6, <3>1, <3>2, <3>3 DEF IsInRange
    <3> QED
      BY <3>4
  <2>7. CASE ~ in(k) /\ ~ toLeft(k)
    <3>1. \A m \in L : ValueOf[m] \notin lo..hi
      BY <1>3, <2>4, <2>7
    <3>2. \A m \in sub[k] : m = k \/ m \in L \/ m \in R
      BY <2>1 DEF Split
    <3>3. from[k] = from[tree.right[k]] /\ R \subseteq sub[k]
      BY <1>6, <2>1, <2>7 DEF Split
    <3>4. IsInRange(sub[k], lo, hi, from[k])
      BY <2>3, <2>7, <3>1, <3>2, <3>3 DEF IsInRange
    <3> QED
      BY <3>4
  <2> QED
    BY <2>5, <2>6, <2>7
<1> HIDE DEF G
<1>8. \A m \in lent : m \in G
  BY <1>2, <1>7, TreeInduction
<1>9. \A m \in lent : IsInRange(sub[m], lo, hi, from[m])
  BY <1>8 DEF G
<1>10. CASE tree.root = Null
  BY <1>1, <1>3, <1>6, <1>10 DEF IsInRange
<1>11. CASE tree.root # Null
  BY <1>1, <1>2, <1>3, <1>9, <1>11 DEF Subtrees
<1> QED
  BY <1>10, <1>11

-----------------------------------------------------------------------------
(* Enumeration.                                                            *)

\* A node and what is on either side of it, with the values in order.
InOrder(X, k, L, R) ==
    /\ Split(X, k, L, R) /\ X \subseteq Nodes
    /\ \A j \in L : ValueOf[j] <= ValueOf[k]
    /\ \A j \in R : ValueOf[k] <= ValueOf[j]

\* The nodes below one are counted on its two sides.
LEMMA SplitCardinality ==
    ASSUME NEW X, NEW k, NEW L, NEW R, InOrder(X, k, L, R)
    PROVE  /\ IsFiniteSet(X) /\ IsFiniteSet(L) /\ IsFiniteSet(R)
           /\ Cardinality(L) \in Nat /\ Cardinality(R) \in Nat
           /\ Cardinality(X) = Cardinality(L) + 1 + Cardinality(R)
<1>1. IsFiniteSet(X)
  BY ConstantFacts, FS_Subset DEF InOrder
<1>2. /\ X = (L \cup R) \cup {k} /\ k \notin L \cup R /\ L \cap R = {}
      /\ L \subseteq X /\ R \subseteq X
  BY DEF InOrder, Split
<1>3. IsFiniteSet(L) /\ IsFiniteSet(R)
  BY <1>1, <1>2, FS_Subset
<1>4. Cardinality(L) \in Nat /\ Cardinality(R) \in Nat /\ Cardinality({}) = 0
  BY <1>3, FS_CardinalityType, FS_EmptySet
<1>5. /\ IsFiniteSet(L \cup R)
      /\ Cardinality(L \cup R) = Cardinality(L) + Cardinality(R) - Cardinality(L \cap R)
  BY <1>3, FS_Union
<1>6. Cardinality(L \cup R) = Cardinality(L) + Cardinality(R)
  <2>1. Cardinality(L \cap R) = 0
    BY <1>2, <1>4
  <2> QED
    BY <1>4, <1>5, <2>1
<1>7. Cardinality((L \cup R) \cup {k}) = Cardinality(L \cup R) + 1
  BY <1>2, <1>5, FS_AddElement
<1> QED
  BY <1>1, <1>2, <1>3, <1>4, <1>6, <1>7

\* The nodes of values below the last one.
Under(X, last) == {j \in X : ValueOf[j] < last}

HasValue(X, v) == \E j \in X : ValueOf[j] = v

Rising(s) == \A i, j \in 1..Len(s) : i <= j => s[i] <= s[j]

\* What has been seen comes from s or is a value of X.
Drawn(out, s, X) ==
    \A i \in 1..Len(out) : \/ \E j \in 1..Len(s) : out[i] = s[j]
                           \/ HasValue(X, out[i])

\* The last value has not been seen yet.
Calm(s, last) == s \in Seq(Values) /\ Rising(s) /\ \A i \in 1..Len(s) : s[i] # last

\* What has been seen comes before X.
Leads(s, X) == \A i \in 1..Len(s), k \in X : s[i] <= ValueOf[k]

\* What has been seen after X, where s had been seen before it.
Visited(s, out, X, last) ==
    /\ out \in Seq(Values) /\ Rising(out) /\ Drawn(out, s, X)
    /\ HasValue(X, last) =>
          /\ Len(out) = Len(s) + Cardinality(Under(X, last)) + 1
          /\ out[Len(out)] = last
          /\ \A i \in 1..(Len(out) - 1) : out[i] # last
    /\ ~ HasValue(X, last) =>
          /\ Len(out) = Len(s) + Cardinality(X)
          /\ \A i \in 1..Len(out) : out[i] # last

\* The last value is on the left.
LEMMA VisitedLeft ==
    ASSUME NEW X, NEW k, NEW L, NEW R, InOrder(X, k, L, R), NEW last \in Int,
           NEW s, NEW before, Visited(s, before, L, last), HasValue(L, last)
    PROVE  Visited(s, before, X, last)
<1>1. /\ k \in X /\ L \subseteq X /\ R \subseteq X
      /\ \A j \in X : ValueOf[j] \in Int /\ (j \in L \/ j = k \/ j \in R)
  BY ConstantFacts DEF InOrder, Split
<1>2. last <= ValueOf[k] /\ \A j \in R : last <= ValueOf[j]
  BY <1>1 DEF InOrder, HasValue
<1>3. \A j \in X : ValueOf[j] < last => j \in L
  BY <1>1, <1>2
<1>4. Under(X, last) = Under(L, last)
  BY <1>1, <1>3 DEF Under
<1>5. Drawn(before, s, X) /\ HasValue(X, last)
  BY <1>1 DEF Visited, Drawn, HasValue
<1> QED
  BY <1>4, <1>5 DEF Visited

\* What has been seen is s, the left side and the node itself.
SeenHere(s, here, k, L, R, last) ==
    /\ here \in Seq(Values) /\ Rising(here) /\ Drawn(here, s, L \cup {k})
    /\ Leads(here, R)
    /\ Len(here) = Len(s) + Cardinality(L) + 1
    /\ here[Len(here)] = ValueOf[k]
    /\ \A i \in 1..(Len(here) - 1) : here[i] # last

\* The left side has been seen, and the node itself is next.
LEMMA VisitedHere ==
    ASSUME NEW X, NEW k, NEW L, NEW R, InOrder(X, k, L, R), NEW last \in Int,
           NEW s \in Seq(Values), Leads(s, X),
           NEW before, Visited(s, before, L, last), ~ HasValue(L, last),
           NEW here, here = Append(before, ValueOf[k])
    PROVE  SeenHere(s, here, k, L, R, last)
<1>1. /\ k \in X /\ L \subseteq X /\ R \subseteq X
      /\ \A j \in X : j \in Nodes /\ ValueOf[j] \in Int /\ ValueOf[j] \in Values
      /\ Values \subseteq Int
  BY ConstantFacts DEF InOrder, Split
<1>2. /\ before \in Seq(Values) /\ Rising(before) /\ Drawn(before, s, L)
      /\ Len(before) = Len(s) + Cardinality(L)
      /\ \A i \in 1..Len(before) : before[i] # last
  BY DEF Visited
<1>3. /\ here \in Seq(Values) /\ Len(here) = Len(before) + 1
      /\ here[Len(here)] = ValueOf[k]
      /\ \A i \in 1..Len(before) : here[i] = before[i]
      /\ Len(before) \in Nat
      /\ \A i \in 1..Len(here) : i \in 1..Len(before) \/ i = Len(here)
  BY <1>1, <1>2
<1>4. \A i \in 1..Len(before) : before[i] \in Int /\ before[i] <= ValueOf[k]
  <2> TAKE i \in 1..Len(before)
  <2>1. before[i] \in Int
    <3>1. before[i] \in Values
      BY <1>2, ElementOfSeq
    <3> QED
      BY <1>1, <3>1
  <2>2. ASSUME NEW j \in 1..Len(s), before[i] = s[j]
        PROVE  before[i] <= ValueOf[k]
    BY <1>1, <2>2 DEF Leads
  <2>3. ASSUME NEW j \in L, ValueOf[j] = before[i]
        PROVE  before[i] <= ValueOf[k]
    BY <2>3 DEF InOrder
  <2> QED
    BY <1>2, <2>1, <2>2, <2>3 DEF Drawn, HasValue
<1>5. Rising(here)
  <2> SUFFICES ASSUME NEW i \in 1..Len(here), NEW j \in 1..Len(here), i <= j
               PROVE  here[i] <= here[j]
    BY DEF Rising
  <2>1. CASE j \in 1..Len(before)
    <3>1. i \in 1..Len(before)
      BY <1>3, <2>1
    <3> QED
      BY <1>2, <1>3, <2>1, <3>1 DEF Rising
  <2>2. CASE j = Len(here) /\ i \in 1..Len(before)
    BY <1>3, <1>4, <2>2
  <2>3. CASE j = Len(here) /\ i = Len(here)
    BY <1>1, <1>3, <2>3
  <2> QED
    BY <1>3, <2>1, <2>2, <2>3
<1>6. Drawn(here, s, L \cup {k})
  <2> SUFFICES ASSUME NEW i \in 1..Len(here), i \in 1..Len(before) \/ i = Len(here)
               PROVE  (\E j \in 1..Len(s) : here[i] = s[j]) \/ HasValue(L \cup {k}, here[i])
    BY <1>3 DEF Drawn
  <2>1. CASE i \in 1..Len(before)
    BY <1>2, <1>3, <2>1 DEF Drawn, HasValue
  <2>2. CASE i = Len(here)
    BY <1>3, <2>2 DEF HasValue
  <2> QED
    BY <2>1, <2>2
<1>7. Leads(here, R)
  <2> SUFFICES ASSUME NEW i \in 1..Len(here), NEW j \in R,
                      i \in 1..Len(before) \/ i = Len(here)
               PROVE  here[i] <= ValueOf[j]
    BY <1>3 DEF Leads
  <2>1. ValueOf[k] <= ValueOf[j] /\ ValueOf[k] \in Int /\ ValueOf[j] \in Int
    BY <1>1 DEF InOrder
  <2>2. CASE i \in 1..Len(before)
    BY <1>3, <1>4, <2>1, <2>2
  <2>3. CASE i = Len(here)
    BY <1>3, <2>1, <2>3
  <2> QED
    BY <2>2, <2>3
<1>8. \A i \in 1..(Len(here) - 1) : here[i] # last
  BY <1>2, <1>3
<1> QED
  BY <1>2, <1>3, <1>5, <1>6, <1>7, <1>8 DEF SeenHere

\* The node has the last value.
LEMMA VisitedEnd ==
    ASSUME NEW X, NEW k, NEW L, NEW R, InOrder(X, k, L, R), NEW last \in Int,
           NEW s \in Seq(Values), ~ HasValue(L, last), ValueOf[k] = last,
           NEW here, SeenHere(s, here, k, L, R, last)
    PROVE  Visited(s, here, X, last)
<1>1. /\ k \in X /\ L \subseteq X /\ R \subseteq X /\ k \notin L
      /\ \A j \in X : ValueOf[j] \in Int /\ (j \in L \/ j = k \/ j \in R)
  BY ConstantFacts DEF InOrder, Split
<1>2. \A j \in X : ValueOf[j] < last <=> j \in L
  <2> TAKE j \in X
  <2>1. CASE j \in L
    <3>1. ValueOf[j] <= last /\ ValueOf[j] # last
      BY <2>1 DEF InOrder, HasValue
    <3> QED
      BY <1>1, <2>1, <3>1
  <2>2. CASE j \notin L
    <3>1. last <= ValueOf[j]
      BY <1>1, <2>2 DEF InOrder
    <3> QED
      BY <1>1, <2>2, <3>1
  <2> QED
    BY <2>1, <2>2
<1>3. Under(X, last) = L
  BY <1>1, <1>2 DEF Under
<1>4. HasValue(X, last) /\ Drawn(here, s, X)
  BY <1>1 DEF HasValue, Drawn, SeenHere
<1> QED
  BY <1>3, <1>4 DEF Visited, SeenHere

\* The right side has been seen too.
LEMMA VisitedRight ==
    ASSUME NEW X, NEW k, NEW L, NEW R, InOrder(X, k, L, R), NEW last \in Int,
           NEW s \in Seq(Values), ~ HasValue(L, last), ValueOf[k] # last,
           NEW here, SeenHere(s, here, k, L, R, last),
           NEW out, Visited(here, out, R, last)
    PROVE  Visited(s, out, X, last)
<1>1. /\ k \in X /\ L \subseteq X /\ R \subseteq X /\ k \notin L /\ k \notin R
      /\ L \cap R = {}
      /\ \A j \in X : ValueOf[j] \in Int /\ (j \in L \/ j = k \/ j \in R)
  BY ConstantFacts DEF InOrder, Split
<1>2. out \in Seq(Values) /\ Rising(out) /\ Drawn(out, here, R)
  BY DEF Visited
<1>3. Drawn(out, s, X)
  <2> SUFFICES ASSUME NEW i \in 1..Len(out)
               PROVE  (\E j \in 1..Len(s) : out[i] = s[j]) \/ HasValue(X, out[i])
    BY DEF Drawn
  <2>1. CASE HasValue(R, out[i])
    BY <1>1, <2>1 DEF HasValue
  <2>2. ASSUME NEW j \in 1..Len(here), out[i] = here[j]
        PROVE  (\E l \in 1..Len(s) : out[i] = s[l]) \/ HasValue(X, out[i])
    BY <1>1, <2>2 DEF Drawn, HasValue, SeenHere
  <2> QED
    BY <1>2, <2>1, <2>2 DEF Drawn
<1>4. /\ Cardinality(X) = Cardinality(L) + 1 + Cardinality(R)
      /\ Cardinality(L) \in Nat /\ Cardinality(R) \in Nat /\ Len(s) \in Nat
  BY SplitCardinality
<1>5. HasValue(X, last) <=> HasValue(R, last)
  BY <1>1 DEF HasValue
<1>6. CASE HasValue(R, last)
  <2>1. ValueOf[k] < last
    <3>1. ValueOf[k] <= last
      BY <1>6 DEF HasValue, InOrder
    <3> QED
      BY <1>1, <3>1
  <2>2. \A j \in L : ValueOf[j] < last
    BY <1>1, <2>1 DEF InOrder
  <2>3. InOrder(Under(X, last), k, L, Under(R, last))
    <3>1. Under(X, last) = {k} \cup L \cup Under(R, last)
      BY <1>1, <2>1, <2>2 DEF Under
    <3>2. Under(R, last) \subseteq R /\ Under(X, last) \subseteq X
      BY DEF Under
    <3> QED
      BY <1>1, <3>1, <3>2 DEF InOrder, Split
  <2>4. Cardinality(Under(X, last)) = Cardinality(L) + 1 + Cardinality(Under(R, last))
    BY <2>3, SplitCardinality
  <2>5. Cardinality(Under(R, last)) \in Nat
    BY <2>3, SplitCardinality
  <2>6. /\ Len(out) = Len(here) + Cardinality(Under(R, last)) + 1
        /\ out[Len(out)] = last
        /\ \A i \in 1..(Len(out) - 1) : out[i] # last
    BY <1>6 DEF Visited
  <2>7. Len(out) = Len(s) + Cardinality(Under(X, last)) + 1
    BY <1>4, <2>4, <2>5, <2>6 DEF SeenHere
  <2> QED
    BY <1>2, <1>3, <1>5, <1>6, <2>6, <2>7 DEF Visited
<1>7. CASE ~ HasValue(R, last)
  <2>1. Len(out) = Len(here) + Cardinality(R) /\ \A i \in 1..Len(out) : out[i] # last
    BY <1>7 DEF Visited
  <2>2. Len(out) = Len(s) + Cardinality(X)
    BY <1>4, <2>1 DEF SeenHere
  <2> QED
    BY <1>2, <1>3, <1>5, <1>7, <2>1, <2>2 DEF Visited
<1> QED
  BY <1>6, <1>7

\* The enumeration below each node, of what has been seen before it.
IsEnumeration(f, t, S, last) ==
    /\ \A s \in Seq(Values) : f[Null][s] = s
    /\ \A m \in S, s \in Seq(Values) :
         LET stopped(seen) == seen # <<>> /\ seen[Len(seen)] = last
             before == f[t.left[m]][s]
             here == Append(before, ValueOf[m])
         IN  f[m][s] = IF stopped(s) THEN s
                       ELSE IF stopped(before) THEN before
                       ELSE IF stopped(here) THEN here
                       ELSE f[t.right[m]][here]

\* It sees the values below a node.
Enumerates(f, m, X, last) ==
    \A s \in Seq(Values) : Calm(s, last) /\ Leads(s, X) => Visited(s, f[m][s], X, last)

\* EnumerateFromNode sees the values below each node, from whatever was seen before.
LEMMA EnumerationVisits ==
    ASSUME NEW t, NEW S, NEW sub, Shape(t, S, sub), NEW last \in Int,
           NEW f, IsEnumeration(f, t, S, last)
    PROVE  \A m \in S : Enumerates(f, m, sub[m], last)
<1> DEFINE G == {m \in S : Enumerates(f, m, sub[m], last)}
<1>1. /\ Linked(t, S) /\ Subtrees(t, S, sub) /\ Ordered(t, S, sub)
      /\ t.left = t["left"] /\ t.right = t["right"] /\ S \subseteq Nodes
  BY ChildFacts DEF Shape
<1>2. Enumerates(f, Null, {}, last)
  <2> SUFFICES ASSUME NEW s \in Seq(Values), Calm(s, last)
               PROVE  Visited(s, f[Null][s], {}, last)
    BY DEF Enumerates
  <2>1. f[Null][s] = s /\ Len(s) \in Nat
    BY DEF IsEnumeration
  <2>2. Cardinality({}) = 0
    BY FS_EmptySet
  <2> QED
    BY <2>1, <2>2 DEF Visited, Calm, Drawn, HasValue
<1>3. ASSUME NEW k \in S, \A s \in Sides : t[s][k] # Null => t[s][k] \in G
      PROVE  k \in G
  <2> DEFINE X == sub[k]
             L == Branch(t, sub, k, "left")
             R == Branch(t, sub, k, "right")
             a == t.left[k]
             b == t.right[k]
  <2>1. \A s \in Sides : Enumerates(f, t[s][k], Branch(t, sub, k, s), last)
    BY <1>2, <1>3 DEF Branch
  <2>2. Enumerates(f, a, L, last) /\ Enumerates(f, b, R, last)
    BY <1>1, <2>1, SideFacts
  <2>3. InOrder(X, k, L, R)
    <3>1. Split(X, k, L, R) /\ X \subseteq Nodes
      BY <1>1, SelfBelow DEF Subtrees
    <3>2. \A s \in Sides : \A m \in Branch(t, sub, k, s) : Precedes(s, m, k)
      BY <1>1 DEF Ordered
    <3> QED
      BY <3>1, <3>2, SideFacts DEF InOrder, Precedes
  <2> SUFFICES ASSUME NEW s \in Seq(Values), Calm(s, last), Leads(s, X)
               PROVE  Visited(s, f[k][s], X, last)
    BY DEF Enumerates
  <2> DEFINE stopped(seen) == seen # <<>> /\ seen[Len(seen)] = last
             before == f[a][s]
             here == Append(before, ValueOf[k])
  <2>4. f[k][s] = IF stopped(s) THEN s
                  ELSE IF stopped(before) THEN before
                  ELSE IF stopped(here) THEN here
                  ELSE f[b][here]
    BY DEF IsEnumeration
  <2>5. L \subseteq X /\ R \subseteq X
    BY <2>3 DEF InOrder, Split
  <2> HIDE DEF X, L, R, a, b
  <2>6. Visited(s, before, L, last)
    BY <2>2, <2>5 DEF Enumerates, Leads
  <2> HIDE DEF before
  <2>7. ~ stopped(s)
    BY DEF Calm
  <2>8. before \in Seq(Values) /\ Len(before) \in Nat
    BY <2>6 DEF Visited
  <2>9. CASE HasValue(L, last)
    <3>1. before[Len(before)] = last /\ Len(before) = Len(s) + Cardinality(Under(L, last)) + 1
      BY <2>6, <2>9 DEF Visited
    <3>2. Cardinality(Under(L, last)) \in Nat
      <4>1. IsFiniteSet(L) /\ Under(L, last) \subseteq L
        BY <2>3, SplitCardinality DEF Under
      <4> QED
        BY <4>1, FS_Subset, FS_CardinalityType
    <3>3. before # <<>>
      BY <2>8, <3>1, <3>2
    <3>4. f[k][s] = before
      BY <2>4, <2>7, <3>1, <3>3
    <3> QED
      BY <2>3, <2>6, <2>9, <3>4, VisitedLeft
  <2>10. CASE ~ HasValue(L, last)
    <3>1. ~ stopped(before)
      BY <2>6, <2>8, <2>10 DEF Visited
    <3> HIDE DEF here
    <3>2. here = Append(before, ValueOf[k])
      BY DEF here
    <3>3. SeenHere(s, here, k, L, R, last)
      BY <2>3, <2>6, <2>10, <3>2, VisitedHere
    <3>4. here # <<>> /\ Len(here) \in Nat /\ Len(here) > 0
      <4>1. Cardinality(L) \in Nat
        BY <2>3, SplitCardinality
      <4> QED
        BY <3>3, <4>1 DEF SeenHere
    <3>5. CASE ValueOf[k] = last
      <4>1. f[k][s] = here
        BY <2>4, <2>7, <3>1, <3>3, <3>4, <3>5 DEF SeenHere
      <4> QED
        BY <2>3, <2>10, <3>3, <3>5, <4>1, VisitedEnd
    <3>6. CASE ValueOf[k] # last
      <4>1. f[k][s] = f[b][here]
        BY <2>4, <2>7, <3>1, <3>3, <3>4, <3>6 DEF SeenHere
      <4>2. \A i \in 1..Len(here) : here[i] # last
        BY <3>3, <3>4, <3>6 DEF SeenHere
      <4>3. Visited(here, f[b][here], R, last)
        BY <2>2, <3>3, <4>2 DEF Enumerates, Calm, SeenHere
      <4> QED
        BY <2>3, <2>10, <3>3, <3>6, <4>1, <4>3, VisitedRight
    <3> QED
      BY <3>5, <3>6
  <2> QED
    BY <2>9, <2>10
<1> HIDE DEF G
<1>4. \A m \in S : m \in G
  BY <1>1, <1>3, TreeInduction
<1> QED
  BY <1>4 DEF G

\* Enumerate sees all values in order, up to the last one.
LEMMA EnumerateFound ==
    ASSUME NEW sub, Shape(tree, lent, sub), NEW last \in Int
    PROVE  Visited(<<>>, Enumerate(tree.root, last), lent, last)
<1> DEFINE Val == [Seq(Values) -> Seq(Values)]
           stopped(s) == s # <<>> /\ s[Len(s)] = last
           after(m, seen, before, a) ==
                LET here == Append(before, ValueOf[m])
                IN  IF stopped(seen) THEN seen
                    ELSE IF stopped(before) THEN before
                    ELSE IF stopped(here) THEN here
                    ELSE a[here]
           same == [seen \in Seq(Values) |-> seen]
           h == [m \in lent |-> [a \in Val |-> [b \in Val |->
                    [seen \in Seq(Values) |-> after(m, seen, a[seen], b)]]]]
           Loop(f) == f = [m \in lent \cup {Null} |->
                             [seen \in Seq(Values) |->
                                LET before == f[tree.left[m]][seen]
                                    here == Append(before, ValueOf[m])
                                IN  IF m = Null \/ stopped(seen) THEN seen
                                    ELSE IF stopped(before) THEN before
                                    ELSE IF stopped(here) THEN here
                                    ELSE f[tree.right[m]][here]]]
           from == CHOOSE f : Loop(f)
<1>1. Enumerate(tree.root, last) = from[tree.root][<<>>]
  BY DEF Enumerate
<1>2. Linked(tree, lent) /\ Subtrees(tree, lent, sub)
  BY DEF Shape
<1>3. /\ Null \notin lent
      /\ tree.root \in lent \cup {Null} /\ (tree.root = Null => lent = {})
      /\ \A m \in lent : tree.left[m] \in lent \cup {Null} /\ tree.right[m] \in lent \cup {Null}
      /\ \A m \in lent : ValueOf[m] \in Values
  BY <1>2, ChildFacts, ConstantFacts
<1>4. \E f : Loop(f)
  <2>1. same \in Val /\ MakesValues(lent, Val, h)
    <3>1. ASSUME NEW m \in lent, NEW a \in Val, NEW b \in Val, NEW seen \in Seq(Values)
          PROVE  after(m, seen, a[seen], b) \in Seq(Values)
      <4>1. a[seen] \in Seq(Values)
        OBVIOUS
      <4>2. Append(a[seen], ValueOf[m]) \in Seq(Values)
        BY <1>3, <4>1
      <4>3. b[Append(a[seen], ValueOf[m])] \in Seq(Values)
        BY <4>2
      <4> HIDE DEF stopped
      <4> QED
        BY <4>1, <4>2, <4>3
    <3> HIDE DEF after
    <3> QED
      BY <3>1 DEF MakesValues
  <2>2. \E f \in [lent \cup {Null} -> Val] : IsMadeBelow(f, tree, lent, same, h)
    <3> HIDE DEF Val, h, same
    <3> QED
      BY <1>2, <2>1, NodeRecursion
  <2>3. PICK f \in [lent \cup {Null} -> Val] : IsMadeBelow(f, tree, lent, same, h)
    BY <2>2
  <2>4. ASSUME NEW m \in lent
        PROVE  f[m] = [seen \in Seq(Values) |->
                          after(m, seen, f[tree.left[m]][seen], f[tree.right[m]])]
    <3>1. f[m] = h[m][f[tree.left[m]]][f[tree.right[m]]]
      BY <2>3 DEF IsMadeBelow
    <3>2. f[tree.left[m]] \in Val /\ f[tree.right[m]] \in Val
      BY <1>3, <2>3
    <3> HIDE DEF Val, after
    <3> QED
      BY <3>1, <3>2
  <2>5. f[Null] = same
    BY <2>3 DEF IsMadeBelow
  <2> HIDE DEF stopped
  <2> DEFINE turn(m, seen) == LET before == f[tree.left[m]][seen]
                                  here == Append(before, ValueOf[m])
                              IN  IF m = Null \/ stopped(seen) THEN seen
                                  ELSE IF stopped(before) THEN before
                                  ELSE IF stopped(here) THEN here
                                  ELSE f[tree.right[m]][here]
  <2>6. ASSUME NEW m \in lent \cup {Null}
        PROVE  f[m] = [seen \in Seq(Values) |-> turn(m, seen)]
    <3>1. CASE m = Null
      BY <2>5, <3>1
    <3>2. CASE m \in lent
      <4>1. m # Null
        BY <1>3, <3>2
      <4> QED
        BY <2>4, <3>2, <4>1
    <3> QED
      BY <3>1, <3>2
  <2>7. f = [m \in lent \cup {Null} |-> f[m]]
    BY <2>3
  <2> HIDE DEF turn
  <2>8. f = [m \in lent \cup {Null} |-> [seen \in Seq(Values) |-> turn(m, seen)]]
    BY <2>6, <2>7
  <2> QED
    BY <2>8 DEF turn
<1>5. Loop(from)
  <2> HIDE DEF Loop
  <2> QED
    BY <1>4
<1> HIDE DEF from
<1>6. IsEnumeration(from, tree, lent, last)
  <2> HIDE DEF stopped
  <2>1. \A seen \in Seq(Values) : from[Null][seen] = seen
    BY <1>5
  <2>2. ASSUME NEW m \in lent, NEW seen \in Seq(Values)
        PROVE  from[m][seen] = after(m, seen, from[tree.left[m]][seen], from[tree.right[m]])
    <3>1. from[m] = [s \in Seq(Values) |->
                        LET before == from[tree.left[m]][s]
                            here == Append(before, ValueOf[m])
                        IN  IF m = Null \/ stopped(s) THEN s
                            ELSE IF stopped(before) THEN before
                            ELSE IF stopped(here) THEN here
                            ELSE from[tree.right[m]][here]]
      BY <1>5
    <3>2. m # Null
      BY <1>3
    <3> QED
      BY <3>1, <3>2
  <2> QED
    BY <2>1, <2>2 DEF IsEnumeration, stopped
<1>7. \A m \in lent : Enumerates(from, m, sub[m], last)
  BY <1>6, EnumerationVisits
<1>8. <<>> \in Seq(Values) /\ Calm(<<>>, last) /\ \A X : Leads(<<>>, X)
  BY DEF Calm, Leads, Rising
<1>9. CASE tree.root = Null
  <2>1. Cardinality(lent) = 0 /\ lent = {}
    BY <1>3, <1>9, FS_EmptySet
  <2>2. from[tree.root][<<>>] = <<>>
    BY <1>6, <1>8, <1>9 DEF IsEnumeration
  <2> QED
    BY <1>1, <2>1, <2>2 DEF Visited, Rising, Drawn, HasValue
<1>10. CASE tree.root # Null
  <2>1. tree.root \in lent /\ sub[tree.root] = lent
    BY <1>2, <1>3, <1>10 DEF Subtrees
  <2> QED
    BY <1>1, <1>7, <1>8, <2>1 DEF Enumerates
<1> QED
  BY <1>9, <1>10

-----------------------------------------------------------------------------
(* The operations together.                                                *)

\* No node is as deep as there are nodes below it.
LEMMA DepthBound ==
    ASSUME NEW t, NEW S, NEW sub, Sane(t, S, sub)
    PROVE  \A m \in S : t.depth[m] \in 0..Cardinality(Nodes)
<1> DEFINE G == {m \in S : t.depth[m] < Cardinality(sub[m])}
<1>1. /\ Linked(t, S) /\ Subtrees(t, S, sub) /\ Deep(t, S) /\ Null \notin S
      /\ \A m \in S : Level(t, m)
  BY ConstantFacts DEF Sane, Climbing, Shape, Linked
<1>2. \A m \in S : Cardinality(sub[m]) \in 1..Cardinality(Nodes)
  BY <1>1, RankFacts
<1>3. ASSUME NEW k \in S, \A s \in Sides : t[s][k] # Null => t[s][k] \in G
      PROVE  k \in G
  <2>1. \A s \in Sides : SideDepth(t, k, s) < Cardinality(sub[k])
    <3> TAKE s \in Sides
    <3>1. CASE t[s][k] = Null
      BY <1>2, <3>1 DEF SideDepth
    <3>2. CASE t[s][k] # Null
      <4>1. /\ t[s][k] \in S /\ t.depth[t[s][k]] < Cardinality(sub[t[s][k]])
            /\ Cardinality(sub[t[s][k]]) < Cardinality(sub[k])
        BY <1>1, <1>3, <3>2, RankFacts
      <4>2. /\ t.depth[t[s][k]] \in Int /\ Cardinality(sub[t[s][k]]) \in Int
            /\ Cardinality(sub[k]) \in Int
        BY <1>1, <1>2, <4>1 DEF Deep
      <4> QED
        BY <3>2, <4>1, <4>2 DEF SideDepth
    <3> QED
      BY <3>1, <3>2
  <2>2. t.depth[k] = LongerSide(t, k)
    BY <1>1 DEF Level
  <2> QED
    BY <2>1, <2>2, SideFacts DEF LongerSide
<1> HIDE DEF G
<1>4. \A m \in S : m \in G
  BY <1>1, <1>3, TreeInduction
<1>5. \A m \in S : t.depth[m] < Cardinality(sub[m]) /\ t.depth[m] \in Nat
  BY <1>1, <1>4 DEF G, Deep
<1> QED
  BY <1>2, <1>5, ConstantFacts

\* A search that removes takes a node that is in use.
LEMMA FoundInUse ==
    ASSUME NEW sub, Shape(tree, lent, sub)
    PROVE  /\ \A v \in Probes, e \in BOOLEAN :
                /\ SearchAbove(tree.root, v, e) \in lent \cup {Null}
                /\ SearchBelow(tree.root, v, e) \in lent \cup {Null}
           /\ \A lo, hi \in Values \cup Probes :
                SearchNode(tree.root, lo, hi) \in lent \cup {Null}
<1>1. Probes \subseteq Int /\ Values \subseteq Int
  BY TreeAssumption, ConstantFacts
<1>2. ASSUME NEW v \in Probes, NEW e \in BOOLEAN
      PROVE  SearchAbove(tree.root, v, e) \in lent \cup {Null}
  <2>1. v \in Int
    BY <1>1
  <2> DEFINE Ok == {m \in lent : ValueOf[m] > v \/ (e /\ ValueOf[m] = v)}
  <2>2. Nearest(lent, Ok, ValueOf, SearchAbove(tree.root, v, e))
    BY <2>1, AboveFound
  <2> HIDE DEF Ok
  <2> QED
    BY <2>2 DEF Nearest
<1>3. ASSUME NEW v \in Probes, NEW e \in BOOLEAN
      PROVE  SearchBelow(tree.root, v, e) \in lent \cup {Null}
  <2>1. v \in Int
    BY <1>1
  <2> DEFINE Ok == {m \in lent : ValueOf[m] < v \/ (e /\ ValueOf[m] = v)}
             key == [m \in lent |-> - ValueOf[m]]
  <2>2. Nearest(lent, Ok, key, SearchBelow(tree.root, v, e))
    BY <2>1, BelowSearchFound
  <2> HIDE DEF Ok, key
  <2> QED
    BY <2>2 DEF Nearest
<1>4. ASSUME NEW lo \in Values \cup Probes, NEW hi \in Values \cup Probes
      PROVE  SearchNode(tree.root, lo, hi) \in lent \cup {Null}
  <2>1. lo \in Int /\ hi \in Int
    BY <1>1
  <2>2. IsInRange(lent, lo, hi, SearchNode(tree.root, lo, hi))
    BY <2>1, NodeFound
  <2> QED
    BY <2>2 DEF IsInRange
<1> QED
  BY <1>2, <1>3, <1>4

\* What a step does to the nodes in use.
IsMove(S, T) ==
    \/ \E n \in Nodes \ S : T = S \cup {n}
    \/ \E n \in S : T = S \ {n}
    \/ T = {}

\* What a search finds is removed from the tree, and nothing else is.
LEMMA TakeSane ==
    ASSUME NEW sub, Sane(tree, lent, sub), NEW x \in lent \cup {Null}, Take(x)
    PROVE  IsMove(lent, lent') /\ \E sub2 : Sane(tree', lent', sub2)
<1>1. x \in lent /\ tree' = RemoveNode(tree, x) /\ lent' = lent \ {x}
  BY DEF Take
<1>2. \E sub2 : Sane(RemoveNode(tree, x), lent \ {x}, sub2)
  BY <1>1, RemoveSane
<1> QED
  BY <1>1, <1>2 DEF IsMove

\* Every operation leaves the tree as promised.
LEMMA StepSane ==
    ASSUME NEW sub, Sane(tree, lent, sub), Next
    PROVE  IsMove(lent, lent') /\ \E sub2 : Sane(tree', lent', sub2)
<1>1. Shape(tree, lent, sub)
  BY DEF Sane, Climbing
<1>3. ASSUME NEW n \in Nodes, Add(n)
      PROVE  IsMove(lent, lent') /\ \E sub2 : Sane(tree', lent', sub2)
  <2>1. n \in Nodes \ lent /\ lent' = lent \cup {n}
    BY <1>3 DEF Add
  <2>2. \E sub2 : Sane(tree', lent', sub2)
    BY <1>3, AddSane
  <2> QED
    BY <2>1, <2>2 DEF IsMove
<1>4. ASSUME NEW x \in lent \cup {Null}, Take(x)
      PROVE  IsMove(lent, lent') /\ \E sub2 : Sane(tree', lent', sub2)
  BY <1>4, TakeSane
<1>5. ASSUME NEW v \in Values, RemoveValue(v)
      PROVE  IsMove(lent, lent') /\ \E sub2 : Sane(tree', lent', sub2)
  <2>1. SearchNode(tree.root, v, v) \in lent \cup {Null}
    BY <1>1, FoundInUse
  <2> QED
    BY <1>4, <1>5, <2>1 DEF RemoveValue, FindEqual
<1>6. ASSUME NEW v \in Probes, FindGT(v) \/ FindGE(v) \/ FindLT(v) \/ FindLE(v)
      PROVE  IsMove(lent, lent') /\ \E sub2 : Sane(tree', lent', sub2)
  <2>1. \A e \in BOOLEAN : /\ SearchAbove(tree.root, v, e) \in lent \cup {Null}
                           /\ SearchBelow(tree.root, v, e) \in lent \cup {Null}
    BY <1>1, FoundInUse
  <2> QED
    BY <1>4, <1>6, <2>1 DEF FindGT, FindGE, FindLT, FindLE
<1>7. ASSUME NEW lo \in Probes, NEW hi \in Probes, lo < hi, Search(lo, hi)
      PROVE  IsMove(lent, lent') /\ \E sub2 : Sane(tree', lent', sub2)
  <2>1. SearchNode(tree.root, lo, hi) \in lent \cup {Null}
    BY <1>1, FoundInUse
  <2> QED
    BY <1>4, <1>7, <2>1 DEF Search
<1>8. CASE Clear
  BY <1>8, ClearSane DEF IsMove
<1> QED
  BY <1>3, <1>5, <1>6, <1>7, <1>8 DEF Next

\* The inductive invariant: for some account of what is below each node, the
\* tree is linked, ordered, level and clean.
IInv == \E sub : Sane(tree, lent, sub)

\* The empty tree satisfies the invariant.
LEMMA InitInvariant == Init => IInv
<1> SUFFICES ASSUME Init PROVE IInv
  OBVIOUS
<1>1. /\ tree = [root |-> Null, left |-> Filled(Freed), right |-> Filled(Freed),
                 parent |-> Filled(Freed), depth |-> Filled(Freed), sound |-> TRUE]
      /\ lent = {}
  BY DEF Init
<1>2. /\ Filled(Freed) \in [Nodes -> Link] /\ Filled(Freed) \in [Nodes -> Int]
      /\ \A m \in Nodes : Filled(Freed)[m] = Freed
      /\ Null \in Link
  BY DEF Filled, Link, Freed
<1> HIDE DEF Filled
<1>3. tree \in Trees /\ tree.root = Null /\ tree.sound
  BY <1>1, <1>2 DEF Trees
<1>4. Clean(tree, {})
  BY <1>1, <1>2 DEF Clean, Sides
<1>5. Sane(tree, {}, [m \in {} |-> {}])
  BY <1>3, <1>4, EmptySane
<1> QED
  BY <1>1, <1>5 DEF IInv

\* Every operation preserves the invariant.
LEMMA StepInvariant == IInv /\ [Next]_vars => IInv'
<1> SUFFICES ASSUME IInv, [Next]_vars PROVE IInv'
  OBVIOUS
<1>1. CASE UNCHANGED vars
  BY <1>1 DEF vars, IInv
<1>2. CASE Next
  <2>1. PICK sub : Sane(tree, lent, sub)
    BY DEF IInv
  <2>2. \E sub2 : Sane(tree', lent', sub2)
    BY <1>2, <2>1, StepSane
  <2> QED
    BY <2>2 DEF IInv
<1> QED
  BY <1>1, <1>2

\* The invariant holds in every state.
LEMMA Invariance == Spec => []IInv
<1>1. IInv /\ [Next]_vars => IInv'
  BY StepInvariant
<1> QED
  BY <1>1, InitInvariant, PTL DEF Spec

-----------------------------------------------------------------------------
(* The theorems.                                                           *)

\* The links of a sane tree lead to nodes in use.
LEMMA TypeHolds == IInv => TypeOK
<1> SUFFICES ASSUME IInv PROVE TypeOK
  OBVIOUS
<1>1. PICK sub : Sane(tree, lent, sub)
  BY DEF IInv
<1>2. /\ Linked(tree, lent) /\ Clean(tree, lent) /\ tree \in Trees /\ lent \subseteq Nodes
  BY <1>1 DEF Sane, Climbing, Shape, Linked
<1>3. \A n \in lent : tree.depth[n] \in 0..Cardinality(Nodes)
  BY <1>1, DepthBound
<1>4. \A n \in lent : {tree.left[n], tree.right[n], tree.parent[n]} \subseteq lent \cup {Null}
  <2> TAKE n \in lent
  <2>1. tree.left[n] \in lent \cup {Null} /\ tree.right[n] \in lent \cup {Null}
    BY <1>2, ChildFacts
  <2>2. tree.parent[n] \in lent \cup {Null}
    BY <1>2 DEF Linked
  <2> QED
    BY <2>1, <2>2
<1>5. \A n \in Nodes \ lent :
        {tree.left[n], tree.right[n], tree.parent[n], tree.depth[n]} = {Freed}
  <2> TAKE n \in Nodes \ lent
  <2>1. tree.left[n] = Freed /\ tree.right[n] = Freed
    BY <1>2, TreeFields, SideFacts DEF Clean
  <2>2. tree.parent[n] = Freed /\ tree.depth[n] = Freed
    BY <1>2 DEF Clean
  <2> QED
    BY <2>1, <2>2
<1>6. tree.root \in lent \cup {Null}
  BY <1>2 DEF Linked
<1> QED
  BY <1>2, <1>3, <1>4, <1>5, <1>6 DEF TypeOK

\* Every link of a node in use leads to one in use, no depth is more than there
\* are nodes, and nothing is left in memory that was freed: for any memory and
\* any values.
THEOREM TypeTheorem == Spec => []TypeOK
BY Invariance, TypeHolds, PTL

\* A sane tree has all its nodes below the root and is balanced.
LEMMA BalancedHolds == IInv => Balanced
<1> SUFFICES ASSUME IInv PROVE Balanced
  OBVIOUS
<1>1. PICK sub : Sane(tree, lent, sub)
  BY DEF IInv
<1>2. /\ Linked(tree, lent) /\ Subtrees(tree, lent, sub) /\ tree.sound
      /\ Null \notin lent
      /\ \A n \in lent : Level(tree, n)
  BY <1>1, ConstantFacts DEF Sane, Climbing, Shape, Linked
<1>3. Below(tree.root) = lent
  BY <1>2, BelowFound
<1> QED
  BY <1>2, <1>3 DEF Balanced, Linked, Level

\* The tree is an AVL tree after every operation: it loses no node, its depths
\* are exact and differ by one at most, and no assertion of the rotations fails.
THEOREM BalancedTheorem == Spec => []Balanced
BY Invariance, BalancedHolds, PTL

-----------------------------------------------------------------------------
(* What DynamicTree promises.                                              *)

\* A walk from the root meets every node in use.
LEMMA ReachedIs == IInv => Reached = lent
  BY BalancedHolds DEF Balanced, Reached

\* The values that are present are those of the nodes in use.
LEMMA PresentIs ==
    ASSUME NEW sub, Shape(tree, lent, sub)
    PROVE  Contract!Present = {ValueOf[n] : n \in lent}
<1>1. Below(tree.root) = lent
  BY BelowFound DEF Shape
<1>2. Reached = lent
  BY <1>1 DEF Reached
<1> QED
  BY <1>2 DEF Contract!Present

\* A nearest node from below has the lowest of the values that are wanted.
LEMMA LowestFound ==
    ASSUME lent \subseteq Nodes, NEW Ok, Ok \subseteq lent,
           NEW x, Nearest(lent, Ok, ValueOf, x)
    PROVE  Found(x) = Contract!Lowest({ValueOf[k] : k \in Ok})
<1>1. Null \notin Ok /\ Ok \cap lent = Ok /\ \A k \in Ok : ValueOf[k] \in Int
  BY ConstantFacts
<1>2. CASE x = Null
  <2>1. Ok = {}
    BY <1>1, <1>2 DEF Nearest
  <2> QED
    BY <1>2, <2>1 DEF Found, Contract!Lowest
<1>3. CASE x # Null
  <2>1. x \in Ok /\ \A k \in Ok : ValueOf[x] <= ValueOf[k]
    BY <1>1, <1>3 DEF Nearest
  <2>2. \A k \in Ok : (\A j \in Ok : ValueOf[k] <= ValueOf[j]) => ValueOf[k] = ValueOf[x]
    BY <1>1, <2>1
  <2>3. Found(x) = {ValueOf[x]}
    BY <1>3 DEF Found
  <2> QED
    BY <2>1, <2>2, <2>3 DEF Contract!Lowest
<1> QED
  BY <1>2, <1>3

\* And one from above the highest.
LEMMA HighestFound ==
    ASSUME lent \subseteq Nodes, NEW Ok, Ok \subseteq lent,
           NEW x, Nearest(lent, Ok, [m \in lent |-> - ValueOf[m]], x)
    PROVE  Found(x) = Contract!Highest({ValueOf[k] : k \in Ok})
<1>1. Null \notin Ok /\ Ok \cap lent = Ok /\ \A k \in Ok : ValueOf[k] \in Int
  BY ConstantFacts
<1>2. CASE x = Null
  <2>1. Ok = {}
    BY <1>1, <1>2 DEF Nearest
  <2> QED
    BY <1>2, <2>1 DEF Found, Contract!Highest
<1>3. CASE x # Null
  <2>1. x \in Ok /\ \A k \in Ok : - ValueOf[x] <= - ValueOf[k]
    BY <1>1, <1>3 DEF Nearest
  <2>2. x \in Ok /\ \A k \in Ok : ValueOf[x] >= ValueOf[k]
    BY <1>1, <2>1
  <2>3. \A k \in Ok : (\A j \in Ok : ValueOf[k] >= ValueOf[j]) => ValueOf[k] = ValueOf[x]
    BY <1>1, <2>2
  <2>4. Found(x) = {ValueOf[x]}
    BY <1>3 DEF Found
  <2> QED
    BY <2>2, <2>3, <2>4 DEF Contract!Highest
<1> QED
  BY <1>2, <1>3

\* Every search from a value finds what the contract says.
LEMMA PointSearches ==
    ASSUME NEW sub, Shape(tree, lent, sub), lent \subseteq Nodes, NEW v \in Values
    PROVE  /\ Found(SearchAbove(tree.root, v, FALSE)) = Contract!FoundGT(v)
           /\ Found(SearchAbove(tree.root, v, TRUE)) = Contract!FoundGE(v)
           /\ Found(SearchBelow(tree.root, v, FALSE)) = Contract!FoundLT(v)
           /\ Found(SearchBelow(tree.root, v, TRUE)) = Contract!FoundLE(v)
           /\ Found(FindEqual(v)) = {v} \cap Contract!Present
<1>1. /\ v \in Int /\ Null \notin lent /\ TRUE \in BOOLEAN /\ FALSE \in BOOLEAN
      /\ \A k \in lent : ValueOf[k] \in Int
      /\ Contract!Present = {ValueOf[n] : n \in lent}
  BY PresentIs, ConstantFacts
<1>2. Found(SearchAbove(tree.root, v, FALSE)) = Contract!FoundGT(v)
  <2> DEFINE Ok == {m \in lent : ValueOf[m] > v \/ (FALSE /\ ValueOf[m] = v)}
  <2>1. Nearest(lent, Ok, ValueOf, SearchAbove(tree.root, v, FALSE))
    BY <1>1, AboveFound
  <2>2. {ValueOf[k] : k \in Ok} = {w \in Contract!Present : w > v} /\ Ok \subseteq lent
    BY <1>1
  <2> HIDE DEF Ok
  <2> QED
    BY <2>1, <2>2, LowestFound DEF Contract!FoundGT
<1>3. Found(SearchAbove(tree.root, v, TRUE)) = Contract!FoundGE(v)
  <2> DEFINE Ok == {m \in lent : ValueOf[m] > v \/ (TRUE /\ ValueOf[m] = v)}
  <2>1. Nearest(lent, Ok, ValueOf, SearchAbove(tree.root, v, TRUE))
    BY <1>1, AboveFound
  <2>2. {ValueOf[k] : k \in Ok} = {w \in Contract!Present : w >= v} /\ Ok \subseteq lent
    BY <1>1
  <2> HIDE DEF Ok
  <2> QED
    BY <2>1, <2>2, LowestFound DEF Contract!FoundGE
<1>4. Found(SearchBelow(tree.root, v, FALSE)) = Contract!FoundLT(v)
  <2> DEFINE Ok == {m \in lent : ValueOf[m] < v \/ (FALSE /\ ValueOf[m] = v)}
             key == [m \in lent |-> - ValueOf[m]]
  <2>1. Nearest(lent, Ok, key, SearchBelow(tree.root, v, FALSE))
    BY <1>1, BelowSearchFound
  <2>2. {ValueOf[k] : k \in Ok} = {w \in Contract!Present : w < v} /\ Ok \subseteq lent
    BY <1>1
  <2> HIDE DEF Ok
  <2> QED
    BY <2>1, <2>2, HighestFound DEF Contract!FoundLT
<1>5. Found(SearchBelow(tree.root, v, TRUE)) = Contract!FoundLE(v)
  <2> DEFINE Ok == {m \in lent : ValueOf[m] < v \/ (TRUE /\ ValueOf[m] = v)}
             key == [m \in lent |-> - ValueOf[m]]
  <2>1. Nearest(lent, Ok, key, SearchBelow(tree.root, v, TRUE))
    BY <1>1, BelowSearchFound
  <2>2. {ValueOf[k] : k \in Ok} = {w \in Contract!Present : w <= v} /\ Ok \subseteq lent
    BY <1>1
  <2> HIDE DEF Ok
  <2> QED
    BY <2>1, <2>2, HighestFound DEF Contract!FoundLE
<1>6. Found(FindEqual(v)) = {v} \cap Contract!Present
  <2>1. IsInRange(lent, v, v, FindEqual(v))
    BY <1>1, NodeFound DEF FindEqual
  <2>2. v..v = {v}
    BY <1>1
  <2> QED
    BY <1>1, <2>1, <2>2 DEF IsInRange, Found
<1> QED
  BY <1>2, <1>3, <1>4, <1>5, <1>6

\* Enumeration sees the values in order, and as many as there are.
LEMMA EnumerationExact ==
    ASSUME NEW sub, Shape(tree, lent, sub), lent \subseteq Nodes, NEW last \in Int,
           NEW seen, seen = Enumerate(tree.root, last)
    PROVE  /\ \A i \in 1..(Len(seen) - 1) : seen[i] <= seen[i + 1] /\ seen[i] # last
           /\ Len(seen) = IF last \in Contract!Present
                          THEN Cardinality({n \in lent : ValueOf[n] < last}) + 1
                          ELSE Cardinality(lent)
<1>1. Visited(<<>>, seen, lent, last)
  BY EnumerateFound
<1>2. seen \in Seq(Values) /\ Len(seen) \in Nat /\ Rising(seen)
  BY <1>1 DEF Visited
<1>3. \A i \in 1..(Len(seen) - 1) : seen[i] <= seen[i + 1]
  BY <1>2 DEF Rising
<1>4. last \in Contract!Present <=> HasValue(lent, last)
  BY PresentIs DEF HasValue
<1>5. Cardinality(lent) \in Nat /\ Cardinality(Under(lent, last)) \in Nat
  <2>1. Under(lent, last) \subseteq Nodes
    BY DEF Under
  <2> QED
    BY <2>1, ConstantFacts, FS_Subset, FS_CardinalityType
<1>6. CASE HasValue(lent, last)
  <2>1. /\ Len(seen) = Len(<<>>) + Cardinality(Under(lent, last)) + 1
        /\ \A i \in 1..(Len(seen) - 1) : seen[i] # last
    BY <1>1, <1>6 DEF Visited
  <2>2. Len(seen) = Cardinality(Under(lent, last)) + 1
    BY <1>5, <2>1
  <2> QED
    BY <1>3, <1>4, <1>6, <2>1, <2>2 DEF Under
<1>7. CASE ~ HasValue(lent, last)
  <2>1. /\ Len(seen) = Len(<<>>) + Cardinality(lent)
        /\ \A i \in 1..Len(seen) : seen[i] # last
    BY <1>1, <1>7 DEF Visited
  <2>2. Len(seen) = Cardinality(lent) /\ \A i \in 1..(Len(seen) - 1) : seen[i] # last
    BY <1>2, <1>5, <2>1
  <2> QED
    BY <1>3, <1>4, <1>7, <2>2
<1> QED
  BY <1>6, <1>7

\* In a sane tree every search is exact.
LEMMA SearchHolds == IInv => SearchExact
<1> SUFFICES ASSUME IInv PROVE SearchExact
  OBVIOUS
<1>1. PICK sub : Sane(tree, lent, sub)
  BY DEF IInv
<1>2. /\ Shape(tree, lent, sub) /\ lent \subseteq Nodes /\ Null \notin lent
      /\ Probes \subseteq Int /\ Freed \in Int
  <2>1. Shape(tree, lent, sub)
    BY <1>1 DEF Sane, Climbing
  <2>2. lent \subseteq Nodes
    BY <2>1 DEF Shape, Linked
  <2>3. Freed \in Int
    BY DEF Freed
  <2>4. Null \notin lent
    BY <2>2, ConstantFacts
  <2> QED
    BY <2>1, <2>2, <2>3, <2>4, TreeAssumption
<1>3. \A v \in Values :
        /\ Found(SearchAbove(tree.root, v, FALSE)) = Contract!FoundGT(v)
        /\ Found(SearchAbove(tree.root, v, TRUE)) = Contract!FoundGE(v)
        /\ Found(SearchBelow(tree.root, v, FALSE)) = Contract!FoundLT(v)
        /\ Found(SearchBelow(tree.root, v, TRUE)) = Contract!FoundLE(v)
        /\ Found(FindEqual(v)) = {v} \cap Contract!Present
  BY <1>2, PointSearches
<1>4. ASSUME NEW lo \in Probes, NEW hi \in Probes
      PROVE  IF SearchNode(tree.root, lo, hi) = Null THEN lo..hi \cap Contract!Present = {}
             ELSE ValueOf[SearchNode(tree.root, lo, hi)] \in lo..hi
  <2> DEFINE n == SearchNode(tree.root, lo, hi)
  <2>1. lo \in Int /\ hi \in Int
    BY <1>2
  <2>2. IsInRange(lent, lo, hi, n)
    BY <1>2, <2>1, NodeFound
  <2>3. Contract!Present = {ValueOf[k] : k \in lent}
    BY <1>2, PresentIs
  <2> HIDE DEF n
  <2>4. IF n = Null THEN lo..hi \cap Contract!Present = {} ELSE ValueOf[n] \in lo..hi
    BY <1>2, <2>2, <2>3 DEF IsInRange
  <2> QED
    BY <2>4 DEF n
<1>5. ASSUME NEW last \in Probes \cup {Freed}
      PROVE  LET seen == Enumerate(tree.root, last)
             IN  /\ \A i \in 1..(Len(seen) - 1) : seen[i] <= seen[i + 1] /\ seen[i] # last
                 /\ Len(seen) = IF last \in Contract!Present
                                THEN Cardinality({n \in lent : ValueOf[n] < last}) + 1
                                ELSE Cardinality(lent)
  <2>1. last \in Int
    BY <1>2
  <2> DEFINE seen == Enumerate(tree.root, last)
  <2> HIDE DEF seen
  <2>2. seen = Enumerate(tree.root, last)
    BY DEF seen
  <2>3. /\ \A i \in 1..(Len(seen) - 1) : seen[i] <= seen[i + 1] /\ seen[i] # last
        /\ Len(seen) = IF last \in Contract!Present
                       THEN Cardinality({n \in lent : ValueOf[n] < last}) + 1
                       ELSE Cardinality(lent)
    BY <1>2, <2>1, <2>2, EnumerationExact
  <2> QED
    BY <2>3 DEF seen
<1> QED
  BY <1>3, <1>4, <1>5 DEF SearchExact

\* Every search finds what DynamicTree promises and enumeration sees every node
\* in order, whichever side of each other equal values have been turned to.
THEOREM SearchExactTheorem == Spec => []SearchExact
BY Invariance, SearchHolds, PTL

\* So does a walk after a step.
LEMMA ReachedAfter == IInv /\ [Next]_vars => (Reached = lent)'
<1>1. IInv /\ [Next]_vars => IInv'
  BY StepInvariant
<1>2. IInv => Reached = lent
  BY ReachedIs
<1> QED
  BY <1>1, <1>2, PTL

\* Every operation is one of DynamicTree.
LEMMA ContractStep == IInv /\ Next => Contract!Next
<1> SUFFICES ASSUME IInv, Next PROVE Contract!Next
  OBVIOUS
<1>1. IsMove(lent, lent')
  BY StepSane DEF IInv
<1>2. Reached = lent
  BY ReachedIs
<1>3. Reached' = lent'
  BY ReachedAfter
<1>4. lent \subseteq Nodes
  BY DEF IInv, Sane, Climbing, Shape, Linked
<1>5. ASSUME NEW n \in Nodes \ lent, lent' = lent \cup {n}
      PROVE  Contract!Next
  BY <1>2, <1>3, <1>5 DEF Contract!Next, Contract!Add
<1>6. ASSUME NEW n \in lent, lent' = lent \ {n}
      PROVE  Contract!Next
  BY <1>2, <1>3, <1>4, <1>6 DEF Contract!Next, Contract!Remove
<1>7. CASE lent' = {}
  BY <1>3, <1>7 DEF Contract!Next, Contract!Clear
<1> QED
  BY <1>1, <1>5, <1>6, <1>7 DEF IsMove

\* The tree is a DynamicTree: every operation adds one occurrence of a value,
\* takes one away, or leaves none.
THEOREM ContractTheorem == Spec => DynamicTreeContract
<1>1. Init => Contract!Init
  <2> SUFFICES ASSUME Init PROVE Contract!Init
    OBVIOUS
  <2>1. Reached = {}
    BY InitInvariant, ReachedIs DEF Init
  <2> QED
    BY <2>1 DEF Contract!Init
<1>2. IInv /\ [Next]_vars => [Contract!Next]_Reached
  <2> SUFFICES ASSUME IInv, [Next]_vars
               PROVE  Contract!Next \/ UNCHANGED Reached
    OBVIOUS
  <2>1. CASE Next
    BY <2>1, ContractStep
  <2>2. CASE UNCHANGED vars
    <3>1. Reached = lent /\ lent' = lent
      BY <2>2, ReachedIs DEF vars
    <3> QED
      BY <3>1, ReachedAfter
  <2> QED
    BY <2>1, <2>2
<1> QED
  BY <1>1, <1>2, Invariance, PTL DEF Spec, DynamicTreeContract, Contract!Spec

-----------------------------------------------------------------------------
(* BufferedStack.  Its type invariant is not inductive as it stands: that  *)
(* ApplyBuffer finds a place for what the source gave it rests on how much *)
(* the source can have put there since the test, which Room states.        *)

\* What the source frees into the stack while it allocates fits beside what the
\* stack had when ApplyBuffer decided to allocate.
CapacityAllowsReentry == SoftMinimum + MaxReentries <= Capacity

Room == at = "allocating" => Len(stack) < SoftMinimum + reentries

\* Only a call of source->Dealloc has an object that nobody owns.
Passed == passing # {} => at = "freeing"

StackInv == StackTypeOK /\ Room /\ Passed /\ OneOwner

-----------------------------------------------------------------------------
(* Sequences as stacks.                                                    *)

\* Taking the top off a sequence leaves the rest in place.
LEMMA PopFacts ==
    ASSUME NEW S, NEW s \in Seq(S), s # <<>>
    PROVE  /\ Front(s) \in Seq(S) /\ Len(Front(s)) = Len(s) - 1
           /\ Last(s) \in S
           /\ Range(s) = Range(Front(s)) \cup {Last(s)}
           /\ IsInjective(s) => IsInjective(Front(s)) /\ Last(s) \notin Range(Front(s))
<1> DEFINE n == Len(s)
           f == Front(s)
<1>1. /\ n \in Nat /\ n > 0
      /\ \A i \in 1..n : s[i] \in S
      /\ DOMAIN s = 1..n
      OBVIOUS
<1>2. /\ f \in Seq(S) /\ Len(f) = n - 1
      /\ DOMAIN f = 1..(n - 1)
      /\ \A i \in 1..(n - 1) : f[i] = s[i]
      BY <1>1 DEF Front
<1>3. Last(s) = s[n]
      BY DEF Last
<1>4. Range(s) = Range(f) \cup {s[n]}
  <2>1. 1..n = 1..(n - 1) \cup {n}
        BY <1>1
  <2> QED BY <2>1, <1>1, <1>2 DEF Range
<1>5. ASSUME IsInjective(s)
      PROVE  IsInjective(f) /\ s[n] \notin Range(f)
  <2>1. \A i, j \in 1..n : s[i] = s[j] => i = j
        BY <1>5, <1>1 DEF IsInjective
  <2>2. IsInjective(f)
        BY <2>1, <1>1, <1>2 DEF IsInjective
  <2>3. \A i \in 1..(n - 1) : f[i] # s[n]
        BY <2>1, <1>1, <1>2
  <2> QED BY <2>2, <2>3, <1>2 DEF Range
<1> QED BY <1>1, <1>2, <1>3, <1>4, <1>5

\* Putting something on top of a sequence leaves the rest in place.
LEMMA PushFacts ==
    ASSUME NEW S, NEW s \in Seq(S), NEW e \in S
    PROVE  /\ Append(s, e) \in Seq(S) /\ Len(Append(s, e)) = Len(s) + 1
           /\ Range(Append(s, e)) = Range(s) \cup {e}
           /\ IsInjective(s) /\ e \notin Range(s) => IsInjective(Append(s, e))
<1> DEFINE n == Len(s)
           a == Append(s, e)
<1>1. n \in Nat /\ DOMAIN s = 1..n
      OBVIOUS
<1>2. /\ a \in Seq(S) /\ Len(a) = n + 1 /\ DOMAIN a = 1..(n + 1)
      /\ \A i \in 1..n : a[i] = s[i]
      /\ a[n + 1] = e
      BY <1>1
<1>3. Range(a) = Range(s) \cup {e}
  <2>1. 1..(n + 1) = 1..n \cup {n + 1}
        BY <1>1
  <2> QED BY <2>1, <1>1, <1>2 DEF Range
<1>4. ASSUME IsInjective(s), e \notin Range(s)
      PROVE  IsInjective(a)
  <2>1. \A i, j \in 1..n : s[i] = s[j] => i = j
        BY <1>4, <1>1 DEF IsInjective
  <2>2. \A i \in 1..n : s[i] # e
        BY <1>4, <1>1 DEF Range
  <2> SUFFICES ASSUME NEW i \in 1..(n + 1), NEW j \in 1..(n + 1), a[i] = a[j]
               PROVE  i = j
      BY <1>2 DEF IsInjective
  <2> QED BY <2>1, <2>2, <1>1, <1>2
<1> QED BY <1>2, <1>3, <1>4

-----------------------------------------------------------------------------
(* Pop and Push.                                                           *)

\* Where an object is, by the sets that may own it: OneOwner of these values.
Owned(s, src, pas, hel, ove) ==
    /\ s \in Seq(Objects)
    /\ IsInjective(s)
    /\ Objects = Range(s) \cup src \cup pas \cup hel \cup ove
    /\ Range(s) \cap (src \cup pas \cup hel \cup ove) = {}
    /\ src \cap (pas \cup hel \cup ove) = {}
    /\ pas \cap (hel \cup ove) = {}
    /\ hel \cap ove = {}

\* Pop gives the top of the stack to a new owner.
LEMMA PopOwned ==
    ASSUME StackTypeOK, OneOwner, Pop
    PROVE  /\ stack' \in Seq(Objects)
           /\ Len(stack') = Len(stack) - 1 /\ Len(stack') \in Nat
           /\ Last(stack) \in Objects
           /\ Owned(stack', source \cup {Last(stack)}, passing, held, overflowed)
           /\ Owned(stack', source, passing \cup {Last(stack)}, held, overflowed)
           /\ Owned(stack', source, passing, held \cup {Last(stack)}, overflowed)
<1> DEFINE t == Last(stack)
<1>1. /\ stack \in Seq(Objects) /\ stack # <<>> /\ stack' = Front(stack)
      BY DEF StackTypeOK, Pop
<1>2. /\ stack' \in Seq(Objects) /\ Len(stack') = Len(stack) - 1
      /\ t \in Objects
      /\ Range(stack) = Range(stack') \cup {t}
      /\ IsInjective(stack') /\ t \notin Range(stack')
      BY <1>1, PopFacts DEF OneOwner
<1> HIDE DEF t
<1>3. Len(stack') \in Nat
      BY <1>2
<1>4. /\ Objects = Range(stack) \cup source \cup passing \cup held \cup overflowed
      /\ Range(stack) \cap (source \cup passing \cup held \cup overflowed) = {}
      /\ source \cap (passing \cup held \cup overflowed) = {}
      /\ passing \cap (held \cup overflowed) = {}
      /\ held \cap overflowed = {}
      BY DEF OneOwner
<1>5. Owned(stack', source \cup {t}, passing, held, overflowed)
      BY <1>2, <1>4 DEF Owned
<1>6. Owned(stack', source, passing \cup {t}, held, overflowed)
      BY <1>2, <1>4 DEF Owned
<1>7. Owned(stack', source, passing, held \cup {t}, overflowed)
      BY <1>2, <1>4 DEF Owned
<1> QED BY <1>2, <1>3, <1>5, <1>6, <1>7 DEF t

\* Push takes an object from the owner it had, to the stack or to the handler.
LEMMA PushOwned ==
    ASSUME StackTypeOK, OneOwner, NEW o \in source \cup held, Push(o)
    PROVE  /\ stack' \in Seq(Objects)
           /\ Len(stack') <= Capacity
           /\ Len(stack') <= Len(stack) + 1
           /\ overflowed' \subseteq Objects
           /\ Owned(stack', source \ {o}, passing, held \ {o}, overflowed')
<1>1. /\ stack \in Seq(Objects) /\ Len(stack) \in Nat /\ Len(stack) <= Capacity
      /\ o \in Objects /\ overflowed \subseteq Objects
      /\ Capacity \in Nat
      BY StackAssumption DEF StackTypeOK
<1>2. /\ IsInjective(stack)
      /\ Objects = Range(stack) \cup source \cup passing \cup held \cup overflowed
      /\ Range(stack) \cap (source \cup passing \cup held \cup overflowed) = {}
      /\ source \cap (passing \cup held \cup overflowed) = {}
      /\ passing \cap (held \cup overflowed) = {}
      /\ held \cap overflowed = {}
      BY DEF OneOwner
<1>3. CASE Len(stack) = Capacity
  <2>1. overflowed' = overflowed \cup {o} /\ stack' = stack
        BY <1>3 DEF Push
  <2>2. Owned(stack', source \ {o}, passing, held \ {o}, overflowed')
        BY <2>1, <1>1, <1>2 DEF Owned
  <2> QED BY <2>1, <2>2, <1>1
<1>4. CASE Len(stack) # Capacity
  <2>1. stack' = Append(stack, o) /\ overflowed' = overflowed
        BY <1>4 DEF Push
  <2>2. /\ stack' \in Seq(Objects) /\ Len(stack') = Len(stack) + 1
        /\ Range(stack') = Range(stack) \cup {o}
        /\ IsInjective(stack')
        BY <2>1, <1>1, <1>2, PushFacts
  <2>3. Owned(stack', source \ {o}, passing, held \ {o}, overflowed')
        BY <2>1, <2>2, <1>2 DEF Owned
  <2> QED BY <2>1, <2>2, <2>3, <1>1, <1>4
<1> QED BY <1>3, <1>4

-----------------------------------------------------------------------------
(* The actions.                                                            *)

\* The empty stack satisfies the invariant.
LEMMA StackInitInvariant == StackInit => StackInv
<1> SUFFICES ASSUME StackInit PROVE StackInv
    OBVIOUS
<1>1. stack = <<>> /\ Range(stack) = {} /\ IsInjective(stack)
      BY DEF StackInit, Range, IsInjective
<1>2. StackTypeOK
  <2>1. stack \in Seq(Objects) /\ Len(stack) = 0
        BY <1>1
  <2>2. Len(stack) <= Capacity /\ 0 \in 0..MaxReentries
        BY <2>1, StackAssumption
  <2> QED BY <2>1, <2>2 DEF StackInit, StackTypeOK
<1>3. Room /\ Passed
      BY DEF StackInit, Room, Passed
<1>4. OneOwner
      BY <1>1 DEF StackInit, OneOwner
<1> QED BY <1>2, <1>3, <1>4 DEF StackInv

\* The client's calls.
LEMMA ClientInvariant ==
    ASSUME StackInv, Alloc \/ (\E o \in Objects : Dealloc(o))
    PROVE  StackInv'
<1>1. StackTypeOK /\ Room /\ Passed /\ OneOwner
      BY DEF StackInv
<1>2. CASE Alloc
  <2>1. /\ Pop /\ at = "out" /\ held' = held \cup {Last(stack)}
        /\ UNCHANGED <<source, overflowed, at, passing, reentries, buffering, result>>
        BY <1>2 DEF Alloc
  <2>2. /\ stack' \in Seq(Objects) /\ Len(stack') = Len(stack) - 1
        /\ Last(stack) \in Objects
        /\ Owned(stack', source, passing, held \cup {Last(stack)}, overflowed)
        BY <1>1, <2>1, PopOwned
  <2>3. StackTypeOK'
        BY <1>1, <2>1, <2>2, StackAssumption DEF StackTypeOK
  <2>4. OneOwner'
        BY <2>1, <2>2 DEF OneOwner, Owned
  <2>5. Room' /\ Passed'
        BY <1>1, <2>1 DEF Room, Passed
  <2> QED BY <2>3, <2>4, <2>5 DEF StackInv
<1>3. ASSUME NEW o \in Objects, Dealloc(o)
      PROVE  StackInv'
  <2>1. /\ at = "out" /\ o \in held /\ Push(o) /\ held' = held \ {o}
        /\ UNCHANGED <<source, at, passing, reentries, buffering, result>>
        BY <1>3 DEF Dealloc
  <2>2. /\ stack' \in Seq(Objects) /\ Len(stack') <= Capacity
        /\ overflowed' \subseteq Objects
        /\ Owned(stack', source \ {o}, passing, held \ {o}, overflowed')
        BY <1>1, <2>1, PushOwned
  <2>3. source \ {o} = source
        BY <1>1, <2>1 DEF OneOwner
  <2>4. StackTypeOK'
        BY <1>1, <2>1, <2>2 DEF StackTypeOK
  <2>5. OneOwner'
        BY <2>1, <2>2, <2>3 DEF OneOwner, Owned
  <2>6. Room' /\ Passed'
        BY <1>1, <2>1 DEF Room, Passed
  <2> QED BY <2>4, <2>5, <2>6 DEF StackInv
<1> QED BY <1>2, <1>3

\* The steps of ApplyBuffer and of the destructor that no object is part of.
LEMMA ControlInvariant ==
    ASSUME StackInv, ApplyBuffer \/ FillTest \/ SourceFails \/ Destroy
    PROVE  StackInv'
<1>1. StackTypeOK /\ Room /\ Passed /\ OneOwner
      BY DEF StackInv
<1>2. UNCHANGED <<stack, source, held, overflowed, passing>>
      BY DEF ApplyBuffer, FillTest, SourceFails, Destroy
<1>3. OneOwner'
      BY <1>1, <1>2 DEF OneOwner
<1>4. Len(stack) \in Nat
      BY <1>1 DEF StackTypeOK
<1>5. CASE ApplyBuffer
  <2>1. at = "out" /\ at' \in {"out", "fill"} /\ UNCHANGED reentries
        BY <1>5 DEF ApplyBuffer
  <2>2. buffering' \in BOOLEAN /\ result' \in BOOLEAN
        BY <1>1, <1>5 DEF ApplyBuffer, StackTypeOK
  <2> QED BY <1>1, <1>2, <1>3, <2>1, <2>2 DEF StackInv, StackTypeOK, Room, Passed
<1>6. CASE FillTest
  <2>1. /\ at = "fill" /\ reentries' = 0 /\ UNCHANGED <<buffering, result>>
        /\ at' \in {"allocating", "drain"}
        /\ at' = "allocating" => Len(stack) < SoftMinimum
        BY <1>6 DEF FillTest
  <2>2. StackTypeOK'
        BY <1>1, <1>2, <2>1, StackAssumption DEF StackTypeOK
  <2>3. Room' /\ Passed'
        BY <1>1, <1>2, <1>4, <2>1, StackAssumption DEF Room, Passed
  <2> QED BY <1>3, <2>2, <2>3 DEF StackInv
<1>7. CASE SourceFails
  <2>1. /\ at = "allocating" /\ at' = "out"
        /\ buffering' = FALSE /\ result' = FALSE /\ UNCHANGED reentries
        BY <1>7 DEF SourceFails
  <2> QED BY <1>1, <1>2, <1>3, <2>1 DEF StackInv, StackTypeOK, Room, Passed
<1>8. CASE Destroy
  <2>1. /\ at = "out" /\ at' = "destroying" /\ reentries' = MaxReentries
        /\ UNCHANGED <<buffering, result>>
        BY <1>8 DEF Destroy
  <2> QED BY <1>1, <1>2, <1>3, <2>1, StackAssumption
             DEF StackInv, StackTypeOK, Room, Passed
<1> QED BY <1>5, <1>6, <1>7, <1>8

\* ApplyBuffer finds a place for what the source gives: Room.
LEMMA SourceGivesInvariant ==
    ASSUME CapacityAllowsReentry, StackInv, NEW o \in Objects, SourceGives(o)
    PROVE  StackInv'
<1>1. StackTypeOK /\ Room /\ Passed /\ OneOwner
      BY DEF StackInv
<1>2. /\ at = "allocating" /\ o \in source
      /\ UNCHANGED <<held, overflowed, passing, reentries, buffering, result>>
      BY DEF SourceGives
<1>3. /\ stack \in Seq(Objects) /\ Len(stack) \in Nat
      /\ reentries \in 0..MaxReentries
      BY <1>1 DEF StackTypeOK
<1>4. Len(stack) < Capacity
  <2>1. Len(stack) < SoftMinimum + reentries
        BY <1>1, <1>2 DEF Room
  <2> QED BY <2>1, <1>3, StackAssumption DEF CapacityAllowsReentry
<1>5. at' = "fill" /\ stack' = Append(stack, o) /\ source' = source \ {o}
      BY <1>4 DEF SourceGives
<1>6. Push(o)
      BY <1>2, <1>4, <1>5, <1>3, StackAssumption DEF Push
<1>7. /\ stack' \in Seq(Objects) /\ Len(stack') <= Capacity
      /\ Owned(stack', source \ {o}, passing, held \ {o}, overflowed')
      BY <1>1, <1>2, <1>6, PushOwned
<1>8. held \ {o} = held
      BY <1>1, <1>2 DEF OneOwner
<1>9. StackTypeOK'
      BY <1>1, <1>2, <1>5, <1>7 DEF StackTypeOK
<1>10. OneOwner'
      BY <1>2, <1>5, <1>7, <1>8 DEF OneOwner, Owned
<1>11. Room' /\ Passed'
      BY <1>1, <1>2, <1>5 DEF Room, Passed
<1> QED BY <1>9, <1>10, <1>11 DEF StackInv

\* What is drained is the call's until source->Dealloc returns.
LEMMA DrainInvariant ==
    ASSUME StackInv, DrainTest \/ SourceTakes
    PROVE  StackInv'
<1>1. StackTypeOK /\ Room /\ Passed /\ OneOwner
      BY DEF StackInv
<1>2. stack \in Seq(Objects) /\ Len(stack) \in Nat
      BY <1>1 DEF StackTypeOK
<1>3. CASE DrainTest /\ Len(stack) > SoftMaximum
  <2>1. /\ at = "drain" /\ at' = "freeing" /\ passing' = {Last(stack)}
        /\ stack' = Front(stack) /\ reentries' = 0
        /\ UNCHANGED <<source, held, overflowed, buffering, result>>
        BY <1>3 DEF DrainTest
  <2>2. passing = {}
        BY <1>1, <2>1 DEF Passed
  <2>3. Pop
        BY <1>2, <1>3, <2>1, StackAssumption DEF Pop
  <2>4. /\ stack' \in Seq(Objects) /\ Len(stack') = Len(stack) - 1
        /\ Last(stack) \in Objects
        /\ Owned(stack', source, passing \cup {Last(stack)}, held, overflowed)
        BY <1>1, <2>3, PopOwned
  <2>5. StackTypeOK'
        BY <1>1, <1>2, <2>1, <2>4, StackAssumption DEF StackTypeOK
  <2>6. OneOwner'
        BY <2>1, <2>2, <2>4 DEF OneOwner, Owned
  <2>7. Room' /\ Passed'
        BY <2>1 DEF Room, Passed
  <2> QED BY <2>5, <2>6, <2>7 DEF StackInv
<1>4. CASE DrainTest /\ ~ (Len(stack) > SoftMaximum)
  <2>1. /\ at = "drain" /\ at' = "out" /\ buffering' = FALSE /\ result' = TRUE
        /\ reentries' = 0
        /\ UNCHANGED <<stack, source, held, overflowed, passing>>
        BY <1>4 DEF DrainTest
  <2>2. StackTypeOK'
    <3>1. reentries' \in 0..MaxReentries
          BY <2>1, StackAssumption
    <3> QED BY <3>1, <1>1, <2>1 DEF StackTypeOK
  <2>3. OneOwner'
        BY <1>1, <2>1 DEF OneOwner
  <2>4. Room' /\ Passed'
        BY <1>1, <2>1 DEF Room, Passed
  <2> QED BY <2>2, <2>3, <2>4 DEF StackInv
<1>5. CASE SourceTakes
  <2>1. /\ at = "freeing" /\ at' = "drain"
        /\ source' = source \cup passing /\ passing' = {}
        /\ UNCHANGED <<stack, held, overflowed, reentries, buffering, result>>
        BY <1>5 DEF SourceTakes
  <2>2. StackTypeOK'
        BY <1>1, <2>1 DEF StackTypeOK
  <2>3. OneOwner'
        BY <1>1, <2>1 DEF OneOwner
  <2>4. Room' /\ Passed'
        BY <2>1 DEF Room, Passed
  <2> QED BY <2>2, <2>3, <2>4 DEF StackInv
<1> QED BY <1>3, <1>4, <1>5

\* The source's calls of the stack add at most one object each.
LEMMA ReenterInvariant ==
    ASSUME StackInv, ReenterAlloc \/ (\E o \in Objects : ReenterDealloc(o))
    PROVE  StackInv'
<1>1. StackTypeOK /\ Room /\ Passed /\ OneOwner
      BY DEF StackInv
<1>2. /\ reentries' = reentries + 1 /\ reentries' \in 0..MaxReentries
      /\ reentries \in Nat
      /\ UNCHANGED <<held, at, passing, buffering, result>>
      BY <1>1, StackAssumption DEF ReenterAlloc, ReenterDealloc, Reenter, StackTypeOK
<1>3. stack \in Seq(Objects) /\ Len(stack) \in Nat
      BY <1>1 DEF StackTypeOK
<1>4. CASE ReenterAlloc
  <2>1. Pop /\ source' = source \cup {Last(stack)} /\ UNCHANGED overflowed
        BY <1>4 DEF ReenterAlloc
  <2>2. /\ stack' \in Seq(Objects) /\ Len(stack') = Len(stack) - 1
        /\ Last(stack) \in Objects
        /\ Owned(stack', source \cup {Last(stack)}, passing, held, overflowed)
        BY <1>1, <2>1, PopOwned
  <2>3. StackTypeOK'
        BY <1>1, <1>2, <1>3, <2>1, <2>2, StackAssumption DEF StackTypeOK
  <2>4. OneOwner'
        BY <1>2, <2>1, <2>2 DEF OneOwner, Owned
  <2>5. Room' /\ Passed'
        BY <1>1, <1>2, <1>3, <2>2, StackAssumption DEF Room, Passed
  <2> QED BY <2>3, <2>4, <2>5 DEF StackInv
<1>5. ASSUME NEW o \in Objects, ReenterDealloc(o)
      PROVE  StackInv'
  <2>1. o \in source /\ Push(o) /\ source' = source \ {o}
        BY <1>5 DEF ReenterDealloc
  <2>2. /\ stack' \in Seq(Objects) /\ Len(stack') <= Capacity
        /\ Len(stack') <= Len(stack) + 1
        /\ overflowed' \subseteq Objects
        /\ Owned(stack', source \ {o}, passing, held \ {o}, overflowed')
        BY <1>1, <2>1, PushOwned
  <2>3. held \ {o} = held
        BY <1>1, <2>1 DEF OneOwner
  <2>4. StackTypeOK'
        BY <1>1, <1>2, <2>1, <2>2 DEF StackTypeOK
  <2>5. OneOwner'
        BY <1>2, <2>1, <2>2, <2>3 DEF OneOwner, Owned
  <2>6. Len(stack') \in Nat
        BY <2>2
  <2>7. Room' /\ Passed'
        BY <1>1, <1>2, <1>3, <2>2, <2>6, StackAssumption DEF Room, Passed
  <2> QED BY <2>4, <2>5, <2>7 DEF StackInv
<1> QED BY <1>4, <1>5

\* The destructor frees the top object.
LEMMA DestroyTopInvariant ==
    ASSUME StackInv, DestroyTop
    PROVE  StackInv'
<1>1. StackTypeOK /\ Room /\ Passed /\ OneOwner
      BY DEF StackInv
<1>2. /\ at = "destroying" /\ Pop /\ source' = source \cup {Last(stack)}
      /\ reentries' = 0
      /\ UNCHANGED <<held, overflowed, at, passing, buffering, result>>
      BY DEF DestroyTop
<1>3. /\ stack' \in Seq(Objects) /\ Len(stack') = Len(stack) - 1
      /\ Last(stack) \in Objects
      /\ Owned(stack', source \cup {Last(stack)}, passing, held, overflowed)
      BY <1>1, <1>2, PopOwned
<1>4. StackTypeOK'
      BY <1>1, <1>2, <1>3, StackAssumption DEF StackTypeOK
<1>5. OneOwner'
      BY <1>2, <1>3 DEF OneOwner, Owned
<1>6. Room' /\ Passed'
      BY <1>1, <1>2 DEF Room, Passed
<1> QED BY <1>4, <1>5, <1>6 DEF StackInv

\* The invariant holds in every state.
LEMMA StackInvariance == CapacityAllowsReentry => (StackSpec => []StackInv)
<1> SUFFICES ASSUME CapacityAllowsReentry PROVE StackSpec => []StackInv
    OBVIOUS
<1>1. StackInit => StackInv
      BY StackInitInvariant
<1>2. StackInv /\ [StackNext]_stackVars => StackInv'
  <2> SUFFICES ASSUME StackInv, [StackNext]_stackVars PROVE StackInv'
      OBVIOUS
  <2>1. CASE UNCHANGED stackVars
        BY <2>1 DEF stackVars, StackInv, StackTypeOK, Room, Passed, OneOwner
  <2>2. ASSUME NEW o \in Objects, SourceGives(o) PROVE StackInv'
        BY <2>2, SourceGivesInvariant
  <2>3. CASE Alloc \/ (\E o \in Objects : Dealloc(o))
        BY <2>3, ClientInvariant
  <2>4. CASE ApplyBuffer \/ FillTest \/ SourceFails \/ Destroy
        BY <2>4, ControlInvariant
  <2>5. CASE DrainTest \/ SourceTakes
        BY <2>5, DrainInvariant
  <2>6. CASE ReenterAlloc \/ (\E o \in Objects : ReenterDealloc(o))
        BY <2>6, ReenterInvariant
  <2>7. CASE DestroyTop
        BY <2>7, DestroyTopInvariant
  <2> QED BY <2>1, <2>2, <2>3, <2>4, <2>5, <2>6, <2>7 DEF StackNext
<1> QED BY <1>1, <1>2, PTL DEF StackSpec

-----------------------------------------------------------------------------
\* Every variable keeps its type and ApplyBuffer's assertion of a free place
\* (buffered-stack.hpp:109) never fails, for every capacity that leaves room
\* for what the source frees into the stack while it allocates.
THEOREM StackTypeTheorem == CapacityAllowsReentry => (StackSpec => []StackTypeOK)
<1> SUFFICES ASSUME CapacityAllowsReentry PROVE StackSpec => []StackTypeOK
    OBVIOUS
<1>1. StackInv => StackTypeOK
      BY DEF StackInv
<1>2. StackSpec => []StackInv
      BY StackInvariance
<1> QED BY <1>1, <1>2, PTL

\* No object is lost, and none is in two places, however the source fails,
\* overflows or calls back.
THEOREM OneOwnerTheorem == CapacityAllowsReentry => (StackSpec => []OneOwner)
<1> SUFFICES ASSUME CapacityAllowsReentry PROVE StackSpec => []OneOwner
    OBVIOUS
<1>1. StackInv => OneOwner
      BY DEF StackInv
<1>2. StackSpec => []StackInv
      BY StackInvariance
<1> QED BY <1>1, <1>2, PTL

-----------------------------------------------------------------------------
(* The soft bounds.                                                        *)

\* How low the stack can be while it is drained, and that no ApplyBuffer is said
\* to run when none does.
Bounds ==
    /\ at = "drain" => \/ Len(stack) >= SoftMinimum
                       \/ Len(stack) >= SoftMaximum - MaxReentries
    /\ at = "freeing" => Len(stack) >= SoftMaximum - reentries
    /\ at = "out" => ~ buffering

\* How low the stack can be is preserved by every step.
LEMMA BoundsInvariant ==
    ASSUME StackInv, Bounds, [StackNext]_stackVars
    PROVE  Bounds'
<1>1. /\ StackTypeOK /\ OneOwner
      /\ stack \in Seq(Objects) /\ Len(stack) \in Nat
      /\ reentries \in 0..MaxReentries
      BY DEF StackInv, StackTypeOK
<1>2. CASE UNCHANGED stackVars
      BY <1>2 DEF stackVars, Bounds
<1>3. CASE Alloc \/ (\E o \in Objects : Dealloc(o)) \/ Destroy
      BY <1>3 DEF Alloc, Dealloc, Destroy, Bounds
<1>4. CASE ApplyBuffer
      BY <1>4 DEF ApplyBuffer, Bounds
<1>5. CASE FillTest
  <2>1. /\ at' \in {"allocating", "drain"} /\ UNCHANGED stack
        /\ at' = "drain" => ~ (Len(stack) < SoftMinimum)
        BY <1>5 DEF FillTest
  <2>2. at' = "drain" => Len(stack') >= SoftMinimum
        BY <2>1, <1>1, StackAssumption
  <2> QED BY <2>1, <2>2 DEF Bounds
<1>6. CASE \E o \in Objects : SourceGives(o)
      BY <1>6 DEF SourceGives, Bounds
<1>7. CASE SourceFails
      BY <1>7 DEF SourceFails, Bounds
<1>8. CASE DrainTest /\ Len(stack) > SoftMaximum
  <2>1. at' = "freeing" /\ stack' = Front(stack) /\ reentries' = 0
        BY <1>8 DEF DrainTest
  <2>2. Pop
        BY <1>1, <1>8, <2>1, StackAssumption DEF Pop
  <2>3. Len(stack') = Len(stack) - 1
        BY <1>1, <2>2, PopOwned
  <2>4. Len(stack') >= SoftMaximum - reentries'
        BY <1>1, <1>8, <2>1, <2>3, StackAssumption
  <2> QED BY <2>1, <2>4 DEF Bounds
<1>9. CASE DrainTest /\ ~ (Len(stack) > SoftMaximum)
      BY <1>9 DEF DrainTest, Bounds
<1>10. CASE SourceTakes
  <2>1. at = "freeing" /\ at' = "drain" /\ UNCHANGED stack
        BY <1>10 DEF SourceTakes
  <2>2. Len(stack') >= SoftMaximum - MaxReentries
        BY <1>1, <2>1, StackAssumption DEF Bounds
  <2> QED BY <2>1, <2>2 DEF Bounds
<1>11. CASE ReenterAlloc \/ (\E o \in Objects : ReenterDealloc(o))
  <2>1. /\ at \in {"allocating", "freeing", "destroying"}
        /\ reentries' = reentries + 1 /\ UNCHANGED <<at, buffering>>
        BY <1>11 DEF ReenterAlloc, ReenterDealloc, Reenter
  <2>2. Len(stack') \in Nat /\ Len(stack') >= Len(stack) - 1
    <3>1. CASE ReenterAlloc
          BY <1>1, <3>1, PopOwned DEF ReenterAlloc
    <3>2. ASSUME NEW o \in Objects, ReenterDealloc(o)
          PROVE  Len(stack') \in Nat /\ Len(stack') >= Len(stack) - 1
      <4>1. stack' = stack \/ stack' = Append(stack, o)
            BY <3>2 DEF ReenterDealloc, Push
      <4> QED BY <4>1, <1>1
    <3> QED BY <1>11, <3>1, <3>2
  <2>3. at = "freeing" => Len(stack') >= SoftMaximum - reentries'
        BY <1>1, <2>1, <2>2, StackAssumption DEF Bounds
  <2> QED BY <2>1, <2>3 DEF Bounds
<1>12. CASE DestroyTop
      BY <1>12 DEF DestroyTop, Bounds
<1> QED BY <1>2, <1>3, <1>4, <1>5, <1>6, <1>7, <1>8, <1>9, <1>10, <1>11, <1>12
        DEF StackNext

\* What ApplyBuffer leaves when it returns true.
LEMMA Returned ==
    ASSUME StackInv, Bounds, [StackNext]_stackVars,
           at' = "out", result', at = "drain" \/ (at = "out" /\ ~ result)
    PROVE  /\ Len(stack') <= SoftMaximum
           /\ \/ Len(stack') >= SoftMinimum
              \/ Len(stack') >= SoftMaximum - MaxReentries
<1>1. Len(stack) \in Nat
      BY DEF StackInv, StackTypeOK
<1>2. ASSUME at = "out", ~ result PROVE FALSE
  <2>1. ~ buffering
        BY <1>2 DEF Bounds
  <2> QED BY <1>2, <2>1 DEF StackNext, stackVars, Alloc, Dealloc, ApplyBuffer, FillTest,
            SourceGives, SourceFails, DrainTest, SourceTakes, ReenterAlloc,
            ReenterDealloc, Reenter, Destroy, DestroyTop
<1>3. CASE at = "drain"
  <2>1. DrainTest
        BY <1>3 DEF StackNext, stackVars, Alloc, Dealloc, ApplyBuffer, FillTest,
            SourceGives, SourceFails, SourceTakes, ReenterAlloc,
            ReenterDealloc, Reenter, Destroy, DestroyTop
  <2>2. stack' = stack /\ ~ (Len(stack) > SoftMaximum)
        BY <2>1 DEF DrainTest
  <2> QED BY <1>1, <1>3, <2>2, StackAssumption DEF Bounds
<1> QED BY <1>2, <1>3

\* When ApplyBuffer returns true the stack is between its soft bounds, but for
\* what the source took from it during its last call, for every capacity; and a
\* failure of the source does not make later calls return at once.
THEOREM SoftBoundsTheorem == CapacityAllowsReentry => (StackSpec => SoftBounds)
<1> SUFFICES ASSUME CapacityAllowsReentry PROVE StackSpec => SoftBounds
    OBVIOUS
<1>1. StackSpec => []StackInv
      BY StackInvariance
<1>2. StackInit => Bounds
      BY DEF StackInit, Bounds
<1>3. StackInv /\ Bounds /\ [StackNext]_stackVars => Bounds'
      BY BoundsInvariant
<1>4. StackInv /\ Bounds /\ [StackNext]_stackVars =>
          [at' = "out" /\ result' /\ (at = "drain" \/ (at = "out" /\ ~ result)) =>
              /\ Len(stack') <= SoftMaximum
              /\ \/ Len(stack') >= SoftMinimum
                 \/ Len(stack') >= SoftMaximum - MaxReentries]_stackVars
      BY Returned
<1> QED BY <1>1, <1>2, <1>3, <1>4, PTL DEF StackSpec, SoftBounds
===============================================================================
