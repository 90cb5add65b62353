------------------------- MODULE PlacedFreeListProofs -------------------------
(***************************************************************************)
(* The safety of PlacedFreeList, for every capacity of the stack that the  *)
(* class allows, every space and every request.                            *)
(***************************************************************************)
EXTENDS PlacedFreeList, RegionListProofs

-----------------------------------------------------------------------------
(* The stack.                                                              *)

StackOf(s, S, items) ==
    /\ s \in Seq(S)
    /\ IsInjective(s)
    /\ Range(s) = items

\* A chunk that is pushed joins the others.
LEMMA PushFacts ==
    ASSUME NEW S, NEW s \in Seq(S), NEW c \in S, c \notin Range(s),
           IsInjective(s)
    PROVE  /\ StackOf(Append(s, c), S, Range(s) \cup {c})
           /\ Len(Append(s, c)) = Len(s) + 1
<1> DEFINE new == Append(s, c)
<1>1. Len(s) \in Nat /\ DOMAIN s = 1..Len(s)
  BY LenProperties
<1>2. /\ new \in Seq(S)
      /\ Len(new) = Len(s) + 1
      /\ \A j \in 1..Len(s) : new[j] = s[j]
      /\ new[Len(s) + 1] = c
  BY AppendProperties
<1> HIDE DEF new
<1>3. DOMAIN new = 1..(Len(s) + 1)
  BY <1>2, LenProperties
<1>4. Range(new) = Range(s) \cup {c}
  <2>1. ASSUME NEW j \in DOMAIN new
        PROVE  new[j] \in Range(s) \cup {c}
    BY <1>1, <1>2, <1>3 DEF Range
  <2>2. ASSUME NEW j \in DOMAIN s
        PROVE  s[j] \in Range(new)
    <3>1. j \in DOMAIN new /\ new[j] = s[j]
      BY <1>1, <1>2, <1>3
    <3> QED
      BY <3>1 DEF Range
  <2>3. c \in Range(new)
    <3>1. Len(s) + 1 \in DOMAIN new
      BY <1>1, <1>3
    <3> QED
      BY <1>2, <3>1 DEF Range
  <2> QED
    BY <2>1, <2>2, <2>3 DEF Range
<1>5. IsInjective(new)
  <2>1. \A j \in DOMAIN s : s[j] # c
    BY DEF Range
  <2> QED
    BY <1>1, <1>2, <1>3, <2>1 DEF IsInjective
<1> QED
  BY <1>2, <1>4, <1>5 DEF StackOf, new

\* The chunk that is popped leaves the others.
LEMMA PopFacts ==
    ASSUME NEW S, NEW s \in Seq(S), Len(s) # 0, IsInjective(s)
    PROVE  /\ StackOf(Front(s), S, Range(s) \ {Last(s)})
           /\ Len(Front(s)) = Len(s) - 1
           /\ Last(s) \in S
           /\ Last(s) \in Range(s)
<1> DEFINE new == Front(s)
           top == Last(s)
<1>1. Len(s) \in Nat /\ DOMAIN s = 1..Len(s) /\ Len(s) \in DOMAIN s
  BY LenProperties
<1>2. /\ new \in Seq(S)
      /\ Len(new) = Len(s) - 1
      /\ \A j \in 1..(Len(s) - 1) : new[j] = s[j]
      /\ top \in S
      /\ top = s[Len(s)]
  BY FrontLastFacts
<1> HIDE DEF new, top
<1>3. DOMAIN new = 1..(Len(s) - 1)
  BY <1>2, LenProperties
<1>4. ASSUME NEW j \in DOMAIN new
      PROVE  j \in DOMAIN s /\ j # Len(s) /\ new[j] = s[j]
  BY <1>1, <1>2, <1>3
<1>5. Range(new) = Range(s) \ {top}
  <2>1. ASSUME NEW j \in DOMAIN new
        PROVE  new[j] \in Range(s) \ {top}
    BY <1>1, <1>2, <1>4 DEF Range, IsInjective
  <2>2. ASSUME NEW j \in DOMAIN s, s[j] # top
        PROVE  s[j] \in Range(new)
    <3>1. j \in DOMAIN new /\ new[j] = s[j]
      BY <1>1, <1>2, <1>3, <2>2
    <3> QED
      BY <3>1 DEF Range
  <2> QED
    BY <2>1, <2>2 DEF Range
<1>6. IsInjective(new)
  BY <1>4 DEF IsInjective
<1>7. top \in Range(s)
  BY <1>1, <1>2 DEF Range
<1> QED
  BY <1>2, <1>5, <1>6, <1>7 DEF StackOf, new, top

-----------------------------------------------------------------------------
(* The four owners of the chunks of S: the client (h), the free regions    *)
(* and their structures (r), the stack (s).  The regions hold f.           *)

Owned(S, h, f, n, b) ==
    /\ S = h \cup f \cup n \cup b
    /\ h \cap f = {}
    /\ (h \cup f) \cap n = {}
    /\ (h \cup f \cup n) \cap b = {}

Consistent(S, r, s, h, f) ==
    /\ S \subseteq Nat
    /\ ListOf(r, S, NodesOf(r), f)
    /\ StackOf(s, S, Range(s))
    /\ Owned(S, h, f, NodesOf(r), Range(s))

\* Each part of Consistent is what it says of the new list and stack.
LEMMA ConsistentByParts ==
    ASSUME NEW S \in SUBSET Nat, NEW r, NEW s, NEW h,
           NEW f, NEW n, NEW b,
           ListOf(r, S, n, f), StackOf(s, S, b), Owned(S, h, f, n, b)
    PROVE  Consistent(S, r, s, h, f) /\ f = FreeUnits(r)
<1>1. n = NodesOf(r) /\ f = FreeUnits(r) /\ b = Range(s)
  BY DEF ListOf, StackOf
<1> QED
  BY <1>1 DEF Consistent

\* What Consistent says, without the predicates about lists and stacks.
LEMMA ConsistentFacts ==
    ASSUME NEW S, NEW r, NEW s, NEW h, NEW f, Consistent(S, r, s, h, f)
    PROVE  /\ S \in SUBSET Nat
           /\ r \in ListType(S) /\ Ordered(r) /\ DistinctNodes(r)
           /\ s \in Seq(S) /\ IsInjective(s)
           /\ StackOf(s, S, Range(s))
           /\ FreeUnits(r) = f
           /\ Owned(S, h, FreeUnits(r), NodesOf(r), Range(s))
  BY DEF Consistent, ListOf, StackOf

\* The head of a region goes to the client; its structure, if the region is
\* used up, to the stack.
LEMMA TakeHeadConsistent ==
    ASSUME NEW S, NEW r, NEW s, NEW h, Consistent(S, r, s, h, FreeUnits(r)),
           NEW i \in 1..Len(r), NEW size \in Nat, size <= r[i].size
    PROVE  Consistent(S, TakeHead(r, i, size),
                      IF Exact(r, i, size) THEN Append(s, r[i].node) ELSE s,
                      h \cup UnitsFrom(r[i].start, size),
                      FreeUnits(r) \ UnitsFrom(r[i].start, size))
<1> DEFINE U == UnitsFrom(r[i].start, size)
           c == r[i].node
           N == IF Exact(r, i, size) THEN NodesOf(r) \ {c} ELSE NodesOf(r)
<1>1. /\ S \in SUBSET Nat
      /\ r \in ListType(S) /\ Ordered(r) /\ DistinctNodes(r)
      /\ s \in Seq(S) /\ IsInjective(s)
      /\ StackOf(s, S, Range(s))
      /\ Owned(S, h, FreeUnits(r), NodesOf(r), Range(s))
  BY ConsistentFacts
<1>2. ListOf(TakeHead(r, i, size), S, N, FreeUnits(r) \ U)
  BY <1>1, TakeHeadFacts
<1>3. c \in NodesOf(r) /\ Span(r[i]) \subseteq FreeUnits(r)
  BY <1>1, SpanFacts
<1>4. U \subseteq FreeUnits(r)
  <2>1. 0 + size <= r[i].size /\ r[i].start + 0 = r[i].start
    BY <1>1, ListTypeFacts
  <2> QED
    BY <1>1, <2>1, PartIsFree
<1> HIDE DEF U, c
<1>5. CASE Exact(r, i, size)
  <2>1. c \in S /\ c \notin Range(s)
    BY <1>1, <1>3 DEF Owned
  <2>2. StackOf(Append(s, c), S, Range(s) \cup {c})
    BY <1>1, <2>1, PushFacts
  <2>3. Owned(S, h \cup U, FreeUnits(r) \ U, NodesOf(r) \ {c},
              Range(s) \cup {c})
    BY <1>1, <1>3, <1>4 DEF Owned
  <2>4. ListOf(TakeHead(r, i, size), S, NodesOf(r) \ {c}, FreeUnits(r) \ U)
    BY <1>2, <1>5
  <2>5. Consistent(S, TakeHead(r, i, size), Append(s, c), h \cup U,
                   FreeUnits(r) \ U)
    BY <1>1, <2>2, <2>3, <2>4, ConsistentByParts
  <2> QED
    BY <1>5, <2>5 DEF U, c
<1>6. CASE ~ Exact(r, i, size)
  <2>1. Owned(S, h \cup U, FreeUnits(r) \ U, NodesOf(r), Range(s))
    BY <1>1, <1>4 DEF Owned
  <2>2. ListOf(TakeHead(r, i, size), S, NodesOf(r), FreeUnits(r) \ U)
    BY <1>2, <1>6
  <2>3. Consistent(S, TakeHead(r, i, size), s, h \cup U, FreeUnits(r) \ U)
    BY <1>1, <2>1, <2>2, ConsistentByParts
  <2> QED
    BY <1>6, <2>3 DEF U
<1> QED
  BY <1>5, <1>6
\* The rest of a region behind skip units goes to the client.
LEMMA ShrinkConsistent ==
    ASSUME NEW S, NEW r, NEW s, NEW h, Consistent(S, r, s, h, FreeUnits(r)),
           NEW i \in 1..Len(r), NEW skip \in Nat \ {0}, skip <= r[i].size
    PROVE  Consistent(S, Shrink(r, i, skip), s,
                      h \cup UnitsFrom(r[i].start + skip, r[i].size - skip),
                      FreeUnits(r)
                          \ UnitsFrom(r[i].start + skip, r[i].size - skip))
<1> DEFINE U == UnitsFrom(r[i].start + skip, r[i].size - skip)
<1>1. /\ S \in SUBSET Nat
      /\ r \in ListType(S) /\ Ordered(r) /\ DistinctNodes(r)
      /\ StackOf(s, S, Range(s))
      /\ Owned(S, h, FreeUnits(r), NodesOf(r), Range(s))
  BY ConsistentFacts
<1>2. ListOf(Shrink(r, i, skip), S, NodesOf(r), FreeUnits(r) \ U)
  BY <1>1, ShrinkFacts DEF ListOf
<1>3. U \subseteq FreeUnits(r)
  <2> DEFINE rest == r[i].size - skip
  <2>1. rest \in Nat /\ skip + rest <= r[i].size
    BY <1>1, ListTypeFacts
  <2> HIDE DEF rest
  <2> QED
    BY <1>1, <2>1, PartIsFree DEF rest
<1> HIDE DEF U
<1>4. Owned(S, h \cup U, FreeUnits(r) \ U, NodesOf(r), Range(s))
  BY <1>1, <1>3 DEF Owned
<1>5. Consistent(S, Shrink(r, i, skip), s, h \cup U, FreeUnits(r) \ U)
  BY <1>1, <1>2, <1>4, ConsistentByParts
<1> QED
  BY <1>5 DEF U

\* The middle of a region goes to the client; the chunk on top of the stack
\* becomes the structure of what is left behind it.
LEMMA CarveConsistent ==
    ASSUME NEW S, NEW r, NEW s, NEW h, Consistent(S, r, s, h, FreeUnits(r)),
           NEW i \in 1..Len(r), NEW skip \in Nat \ {0}, NEW size \in Nat,
           skip + size < r[i].size, Len(s) # 0
    PROVE  Consistent(S, InsertAfter(Shrink(r, i, skip), i, Last(s),
                                     r[i].start + skip + size,
                                     TailSize(r[i], skip, size)),
                      Front(s), h \cup UnitsFrom(r[i].start + skip, size),
                      FreeUnits(r) \ UnitsFrom(r[i].start + skip, size))
<1> DEFINE U   == UnitsFrom(r[i].start + skip, size)
           new == InsertAfter(Shrink(r, i, skip), i, Last(s),
                              r[i].start + skip + size,
                              TailSize(r[i], skip, size))
           top == Last(s)
<1>1. /\ S \in SUBSET Nat
      /\ r \in ListType(S) /\ Ordered(r) /\ DistinctNodes(r)
      /\ s \in Seq(S) /\ IsInjective(s)
      /\ Owned(S, h, FreeUnits(r), NodesOf(r), Range(s))
  BY ConsistentFacts
<1>2. /\ StackOf(Front(s), S, Range(s) \ {top})
      /\ top \in S /\ top \in Range(s)
  BY <1>1, PopFacts
<1>3. top \notin NodesOf(r)
  BY <1>1, <1>2 DEF Owned
<1>4. ListOf(new, S, NodesOf(r) \cup {top}, FreeUnits(r) \ U)
  BY <1>1, <1>2, <1>3, CarveFacts
<1>5. U \subseteq FreeUnits(r)
  <2>1. skip + size <= r[i].size
    BY <1>1, ListTypeFacts
  <2> QED
    BY <1>1, <2>1, PartIsFree
<1> HIDE DEF U, new, top
<1>6. Owned(S, h \cup U, FreeUnits(r) \ U, NodesOf(r) \cup {top},
            Range(s) \ {top})
  BY <1>1, <1>2, <1>5 DEF Owned
<1>7. Consistent(S, new, Front(s), h \cup U, FreeUnits(r) \ U)
  BY <1>1, <1>2, <1>4, <1>6, ConsistentByParts
<1> QED
  BY <1>7 DEF U, new

\* The chunk on top of the stack goes to the client.
LEMMA PopConsistent ==
    ASSUME NEW S, NEW r, NEW s, NEW h,
           Consistent(S, r, s, h, FreeUnits(r)), Len(s) # 0
    PROVE  /\ Consistent(S, r, Front(s), h \cup {Last(s)}, FreeUnits(r))
           /\ Last(s) \notin h
<1> DEFINE top == Last(s)
<1>1. /\ S \in SUBSET Nat
      /\ s \in Seq(S) /\ IsInjective(s)
      /\ ListOf(r, S, NodesOf(r), FreeUnits(r))
      /\ Owned(S, h, FreeUnits(r), NodesOf(r), Range(s))
  BY ConsistentFacts DEF Consistent
<1>2. StackOf(Front(s), S, Range(s) \ {top}) /\ top \in Range(s)
  BY <1>1, PopFacts
<1> HIDE DEF top
<1>3. Owned(S, h \cup {top}, FreeUnits(r), NodesOf(r), Range(s) \ {top})
      /\ top \notin h
  BY <1>1, <1>2 DEF Owned
<1>4. Consistent(S, r, Front(s), h \cup {top}, FreeUnits(r))
  BY <1>1, <1>2, <1>3, ConsistentByParts
<1> QED
  BY <1>3, <1>4 DEF top

\* A chunk of the client's goes to the stack.
LEMMA PushConsistent ==
    ASSUME NEW S, NEW r, NEW s, NEW h, NEW c \in h,
           Consistent(S, r, s, h, FreeUnits(r))
    PROVE  Consistent(S, r, Append(s, c), h \ {c}, FreeUnits(r))
<1>1. /\ S \in SUBSET Nat
      /\ s \in Seq(S) /\ IsInjective(s)
      /\ ListOf(r, S, NodesOf(r), FreeUnits(r))
      /\ Owned(S, h, FreeUnits(r), NodesOf(r), Range(s))
  BY ConsistentFacts DEF Consistent
<1>2. c \in S /\ c \notin Range(s)
  BY <1>1 DEF Owned
<1>3. StackOf(Append(s, c), S, Range(s) \cup {c})
  BY <1>1, <1>2, PushFacts
<1>4. Owned(S, h \ {c}, FreeUnits(r), NodesOf(r), Range(s) \cup {c})
  BY <1>1 DEF Owned
<1> QED
  BY <1>1, <1>3, <1>4, ConsistentByParts
\* The four cases of FreeList::Dealloc: a range of the client's becomes free,
\* alone or as part of the regions it touches.
LEMMA GrowBeforeConsistent ==
    ASSUME NEW S, NEW r, NEW s, NEW h, Consistent(S, r, s, h, FreeUnits(r)),
           NEW a \in Nat, NEW n \in Nat \ {0}, UnitsFrom(a, n) \subseteq h,
           NEW i, Before(r, a, i), TouchesBefore(r, i, a)
    PROVE  Consistent(S, GrowBefore(r, i, n), s, h \ UnitsFrom(a, n),
                      FreeUnits(r) \cup UnitsFrom(a, n))
<1> DEFINE U == UnitsFrom(a, n)
<1>1. /\ S \in SUBSET Nat
      /\ r \in ListType(S) /\ Ordered(r) /\ DistinctNodes(r)
      /\ StackOf(s, S, Range(s))
      /\ Owned(S, h, FreeUnits(r), NodesOf(r), Range(s))
  BY ConsistentFacts
<1>2. U \cap FreeUnits(r) = {}
  BY <1>1 DEF Owned
<1>3. FitsGap(r, i, a, n)
  BY <1>1, <1>2, NeighbourFacts
<1>4. ListOf(GrowBefore(r, i, n), S, NodesOf(r), FreeUnits(r) \cup U)
  BY <1>1, <1>3, GrowBeforeFacts
<1> HIDE DEF U
<1>5. U \subseteq h
  BY DEF U
<1>6. Owned(S, h \ U, FreeUnits(r) \cup U, NodesOf(r), Range(s))
  BY <1>1, <1>5 DEF Owned
<1>7. Consistent(S, GrowBefore(r, i, n), s, h \ U, FreeUnits(r) \cup U)
  BY <1>1, <1>4, <1>6, ConsistentByParts
<1> QED
  BY <1>7 DEF U

LEMMA GrowAfterConsistent ==
    ASSUME NEW S, NEW r, NEW s, NEW h, Consistent(S, r, s, h, FreeUnits(r)),
           NEW a \in Nat, NEW n \in Nat \ {0}, UnitsFrom(a, n) \subseteq h,
           NEW i, Before(r, a, i), TouchesAfter(r, i, a, n)
    PROVE  Consistent(S, GrowAfter(r, i, n), s, h \ UnitsFrom(a, n),
                      FreeUnits(r) \cup UnitsFrom(a, n))
<1> DEFINE U == UnitsFrom(a, n)
<1>1. /\ S \in SUBSET Nat
      /\ r \in ListType(S) /\ Ordered(r) /\ DistinctNodes(r)
      /\ StackOf(s, S, Range(s))
      /\ Owned(S, h, FreeUnits(r), NodesOf(r), Range(s))
  BY ConsistentFacts
<1>2. U \cap FreeUnits(r) = {}
  BY <1>1 DEF Owned
<1>3. FitsGap(r, i, a, n)
  BY <1>1, <1>2, NeighbourFacts
<1>4. ListOf(GrowAfter(r, i, n), S, NodesOf(r), FreeUnits(r) \cup U)
  BY <1>1, <1>3, GrowAfterFacts
<1> HIDE DEF U
<1>5. U \subseteq h
  BY DEF U
<1>6. Owned(S, h \ U, FreeUnits(r) \cup U, NodesOf(r), Range(s))
  BY <1>1, <1>5 DEF Owned
<1>7. Consistent(S, GrowAfter(r, i, n), s, h \ U, FreeUnits(r) \cup U)
  BY <1>1, <1>4, <1>6, ConsistentByParts
<1> QED
  BY <1>7 DEF U

LEMMA JoinBothConsistent ==
    ASSUME NEW S, NEW r, NEW s, NEW h, Consistent(S, r, s, h, FreeUnits(r)),
           NEW a \in Nat, NEW n \in Nat \ {0}, UnitsFrom(a, n) \subseteq h,
           NEW i, Before(r, a, i), TouchesBefore(r, i, a),
           TouchesAfter(r, i, a, n)
    PROVE  Consistent(S, JoinBoth(r, i, n), Append(s, r[i + 1].node),
                      h \ UnitsFrom(a, n),
                      FreeUnits(r) \cup UnitsFrom(a, n))
<1> DEFINE U == UnitsFrom(a, n)
           c == r[i + 1].node
<1>1. /\ S \in SUBSET Nat
      /\ r \in ListType(S) /\ Ordered(r) /\ DistinctNodes(r)
      /\ s \in Seq(S) /\ IsInjective(s)
      /\ Owned(S, h, FreeUnits(r), NodesOf(r), Range(s))
  BY ConsistentFacts
<1>2. U \cap FreeUnits(r) = {}
  BY <1>1 DEF Owned
<1>3. FitsGap(r, i, a, n)
  BY <1>1, <1>2, NeighbourFacts
<1>4. ListOf(JoinBoth(r, i, n), S, NodesOf(r) \ {c}, FreeUnits(r) \cup U)
  BY <1>1, <1>3, JoinBothFacts
<1>5. c \in NodesOf(r)
  <2>1. i + 1 \in 1..Len(r)
    <3>1. Len(r) \in Nat
      BY <1>1, ListTypeFacts
    <3> QED
      BY <3>1 DEF Before, TouchesAfter
  <2> QED
    BY <1>1, <2>1, SpanFacts
<1> HIDE DEF U, c
<1>6. c \in S /\ c \notin Range(s)
  BY <1>1, <1>5 DEF Owned
<1>7. StackOf(Append(s, c), S, Range(s) \cup {c})
  BY <1>1, <1>6, PushFacts
<1>8. U \subseteq h
  BY DEF U
<1>9. Owned(S, h \ U, FreeUnits(r) \cup U, NodesOf(r) \ {c}, Range(s) \cup {c})
  BY <1>1, <1>5, <1>8 DEF Owned
<1>10. Consistent(S, JoinBoth(r, i, n), Append(s, c), h \ U,
                  FreeUnits(r) \cup U)
  BY <1>1, <1>4, <1>7, <1>9, ConsistentByParts
<1> QED
  BY <1>10 DEF U, c

LEMMA InsertConsistent ==
    ASSUME NEW S, NEW r, NEW s, NEW h, Consistent(S, r, s, h, FreeUnits(r)),
           NEW a \in Nat, NEW n \in Nat \ {0}, UnitsFrom(a, n) \subseteq h,
           NEW i, Before(r, a, i), Len(s) # 0
    PROVE  Consistent(S, InsertAfter(r, i, Last(s), a, n), Front(s),
                      h \ UnitsFrom(a, n),
                      FreeUnits(r) \cup UnitsFrom(a, n))
<1> DEFINE U == UnitsFrom(a, n)
           top == Last(s)
<1>1. /\ S \in SUBSET Nat
      /\ r \in ListType(S) /\ Ordered(r) /\ DistinctNodes(r)
      /\ s \in Seq(S) /\ IsInjective(s)
      /\ Owned(S, h, FreeUnits(r), NodesOf(r), Range(s))
  BY ConsistentFacts
<1>2. U \cap FreeUnits(r) = {}
  BY <1>1 DEF Owned
<1>3. FitsGap(r, i, a, n)
  BY <1>1, <1>2, NeighbourFacts
<1>4. /\ StackOf(Front(s), S, Range(s) \ {top})
      /\ top \in S /\ top \in Range(s)
  BY <1>1, PopFacts
<1> HIDE DEF top
<1>5. top \notin NodesOf(r)
  BY <1>1, <1>4 DEF Owned
<1>6. ListOf(InsertAfter(r, i, top, a, n), S, NodesOf(r) \cup {top},
             FreeUnits(r) \cup U)
  BY <1>1, <1>3, <1>4, <1>5, InsertFacts
<1> HIDE DEF U
<1>7. U \subseteq h
  BY DEF U
<1>8. Owned(S, h \ U, FreeUnits(r) \cup U, NodesOf(r) \cup {top},
            Range(s) \ {top})
  BY <1>1, <1>4, <1>5, <1>7 DEF Owned
<1>9. Consistent(S, InsertAfter(r, i, top, a, n), Front(s), h \ U,
                 FreeUnits(r) \cup U)
  BY <1>1, <1>4, <1>6, <1>8, ConsistentByParts
<1> QED
  BY <1>9 DEF U, top
-----------------------------------------------------------------------------
(* The inductive invariant.                                                *)

\* The constants as numbers.
LEMMA ConstantFacts ==
    /\ AddressSpan \in Nat \ {0}
    /\ SizeMax \in Nat /\ SizeMax < AddressSpan
    /\ StackSize \in Nat /\ StackSize >= 3
    /\ MaxChunks \in Nat /\ MaxChunks <= SizeMax
  BY WidthAssumption, PlacementAssumption

SpaceInv ==
    \E first \in Units, count \in 1..MaxChunks :
        /\ first + count <= AddressSpan
        /\ space = UnitsFrom(first, count)

\* The stack may run empty only when a structure has just entered the list,
\* and ApplyBuffer has still to refill it; that it may fill up entirely is
\* what the soft maximum leaves room for.
BufferInv ==
    /\ Len(stack) <= StackSize
    /\ phase = "off" => Len(stack) \in 1..(StackSize - 1)
    /\ (phase = "fill" /\ Len(stack) = 0) => regions # <<>>
    /\ phase = "push" => Len(stack) \in 0..1
    /\ phase = "drain" => Len(stack) # 0

\* The chunk on its way to the stack is neither the client's nor the stack's
\* yet; there is one only until it is pushed.
ComingInv ==
    /\ held \cap coming = {}
    /\ \A chunk, other \in coming : chunk = other
    /\ phase # "push" => coming = {}

IInv ==
    /\ SpaceInv
    /\ Consistent(space, regions, stack, held \cup coming, FreeUnits(regions))
    /\ BufferInv
    /\ ComingInv
    /\ phase \in {"off", "fill", "push", "drain"}
    /\ answer \in Contract!Answers
    /\ fault = "none"

\* The space lies in the address space and is no larger than SizeType holds.
LEMMA SpaceFacts ==
    ASSUME SpaceInv
    PROVE  /\ space \subseteq Units
           /\ space \subseteq Nat
           /\ \A a \in Nat, n \in Nat \ {0} :
                 UnitsFrom(a, n) \subseteq space =>
                    /\ a \in space /\ n <= SizeMax /\ a + n <= AddressSpan
<1> PICK first \in Units, count \in 1..MaxChunks :
         first + count <= AddressSpan /\ space = UnitsFrom(first, count)
  BY DEF SpaceInv
<1>1. first \in Nat /\ count \in Nat /\ count <= SizeMax
  BY ConstantFacts DEF Units
<1>2. space \subseteq Units
  BY <1>1, ConstantFacts DEF Units, UnitsFrom
<1>3. ASSUME NEW a \in Nat, NEW n \in Nat \ {0}, UnitsFrom(a, n) \subseteq space
      PROVE  a \in space /\ n <= SizeMax /\ a + n <= AddressSpan
  <2>1. a \in UnitsFrom(a, n) /\ a + n - 1 \in UnitsFrom(a, n)
    BY DEF UnitsFrom
  <2>2. a \in space /\ a + n - 1 \in space
    BY <1>3, <2>1
  <2>3. first <= a /\ a + n - 1 < first + count
    BY <1>1, <2>2 DEF UnitsFrom
  <2> QED
    BY <1>1, <2>2, <2>3, ConstantFacts
<1>4. space \subseteq Nat
  BY <1>2 DEF Units
<1> QED
  BY <1>2, <1>3, <1>4

\* A region of a consistent list lies in the space.
LEMMA RegionFacts ==
    ASSUME SpaceInv, NEW s, NEW h,
           Consistent(space, regions, s, h, FreeUnits(regions)),
           NEW i \in 1..Len(regions)
    PROVE  /\ regions[i].node \in space
           /\ regions[i].start \in space
           /\ regions[i].start \in Nat
           /\ regions[i].size \in 1..SizeMax
           /\ regions[i].start + regions[i].size <= AddressSpan
<1>1. regions \in ListType(space) /\ FreeUnits(regions) \subseteq space
  BY ConsistentFacts DEF Owned
<1>2. /\ regions[i].node \in space
      /\ regions[i].start \in Nat
      /\ regions[i].size \in Nat \ {0}
  BY <1>1, ListTypeFacts
<1>3. UnitsFrom(regions[i].start, regions[i].size) \subseteq space
  BY <1>1, SpanFacts
<1> QED
  BY <1>2, <1>3, SpaceFacts, ConstantFacts
\* A list with a structure in it is not empty.
LEMMA NotEmpty ==
    ASSUME NEW r, NEW S, NEW n, NEW f, NEW x, ListOf(r, S, n, f), x \in n
    PROVE  r # <<>>
<1>1. NodesOf(r) # {}
  BY DEF ListOf
<1>2. NodesOf(<<>>) = {}
  BY DEF NodesOf
<1> QED
  BY <1>1, <1>2

\* Outside of the fill loop's body no chunk is on its way.
LEMMA QuietFacts ==
    ASSUME IInv, phase # "push"
    PROVE  /\ coming = {}
           /\ Consistent(space, regions, stack, held, FreeUnits(regions))
<1>1. coming = {}
  BY DEF IInv, ComingInv
<1>2. held \cup coming = held
  BY <1>1
<1> QED
  BY <1>1, <1>2 DEF IInv

LEMMA InitInvariant == Init => IInv
<1> SUFFICES ASSUME Init PROVE IInv
  OBVIOUS
<1> PICK first \in Starts, count \in 1..MaxChunks : Placed(first, count)
  BY DEF Init
<1>1. /\ first \in Nat /\ first + MaxChunks <= AddressSpan
      /\ count \in Nat /\ count >= 1 /\ first + count <= AddressSpan
      /\ first \in Units
  BY ConstantFacts, PlacementAssumption DEF Units
<1>2. SpaceInv
  BY <1>1 DEF SpaceInv, Placed
<1>3. space = {x \in Nat : first <= x /\ x < first + count}
  BY <1>1 DEF Placed, UnitsFrom
<1>4. ListOf(<<>>, space, {}, {})
  BY DEF ListOf, ListType, Ordered, DistinctNodes, NodesOf, FreeUnits
<1>5. first \in space
  BY <1>1, <1>3
<1>6. StackOf(<<first>>, space, {first})
  BY <1>5 DEF StackOf, IsInjective, Range
<1>7. /\ Consistent(space, regions, stack, held, FreeUnits(regions))
      /\ Len(stack) = 1 \/ Len(stack) = 2
  <2>1. CASE count = 1
    <3>1. regions = <<>> /\ stack = <<first>> /\ held = {}
      BY <2>1 DEF Init, Placed
    <3>2. Owned(space, {}, {}, {}, {first})
      BY <1>1, <1>3, <2>1 DEF Owned
    <3> QED
      BY <1>2, <1>4, <1>6, <3>1, <3>2, ConsistentByParts, SpaceFacts
  <2>2. CASE count = 2
    <3>1. regions = <<>> /\ stack = <<first, first + 1>> /\ held = {}
      BY <2>2 DEF Init, Placed
    <3>2. first + 1 \in space
      BY <1>1, <1>3, <2>2
    <3>3. StackOf(stack, space, {first, first + 1})
      BY <1>1, <1>5, <3>1, <3>2 DEF StackOf, IsInjective, Range
    <3>4. Owned(space, {}, {}, {}, {first, first + 1})
      BY <1>1, <1>3, <2>2 DEF Owned
    <3> QED
      BY <1>2, <1>4, <3>1, <3>3, <3>4, ConsistentByParts, SpaceFacts
  <2>3. CASE count > 2
    <3> DEFINE rest == Region(first + 1, first + 2, count - 2)
    <3>0. held = {}
      BY DEF Init
    <3>1. regions = <<rest>> /\ stack = <<first>> /\ held = {}
      BY <2>3, <3>0 DEF Placed
    <3>2. first + 1 \in space
      BY <1>1, <1>3, <2>3
    <3>3. /\ rest \in [node : space, start : Nat, size : Nat \ {0}]
          /\ rest.node = first + 1
          /\ Span(rest) = UnitsFrom(first + 2, count - 2)
      BY <1>1, <2>3, <3>2 DEF Region, Span
    <3> HIDE DEF rest
    <3>4. ListOf(<<rest>>, space, {first + 1}, UnitsFrom(first + 2, count - 2))
      <4>1. <<rest>> \in ListType(space) /\ DOMAIN <<rest>> = {1}
        BY <3>3 DEF ListType
      <4>2. Ordered(<<rest>>) /\ DistinctNodes(<<rest>>)
        BY <4>1 DEF Ordered, DistinctNodes
      <4>3. NodesOf(<<rest>>) = {first + 1}
        BY <3>3, <4>1 DEF NodesOf
      <4>4. FreeUnits(<<rest>>) = Span(rest)
        BY <4>1 DEF FreeUnits
      <4> QED
        BY <3>3, <4>1, <4>2, <4>3, <4>4 DEF ListOf
    <3>5. Owned(space, {}, UnitsFrom(first + 2, count - 2), {first + 1}, {first})
      BY <1>1, <1>3, <2>3 DEF Owned, UnitsFrom
    <3> QED
      BY <1>2, <1>6, <3>1, <3>4, <3>5, ConsistentByParts, SpaceFacts
  <2> QED
    BY <1>1, <2>1, <2>2, <2>3
<1>8. BufferInv
  <2>1. phase = "off"
    BY DEF Init
  <2>2. CASE Len(stack) = 1
    BY <2>1, <2>2, ConstantFacts DEF BufferInv
  <2>3. CASE Len(stack) = 2
    BY <2>1, <2>3, ConstantFacts DEF BufferInv
  <2> QED
    BY <1>7, <2>2, <2>3
<1>9. answer \in Contract!Answers
  BY ConstantFacts DEF Init, NoAnswer, Answered, Contract!Answers
<1> QED
  <2>1. coming = {} /\ phase = "off" /\ fault = "none"
    BY DEF Init
  <2>2. held \cup coming = held /\ ComingInv
    BY <2>1 DEF ComingInv
  <2> QED
    BY <1>2, <1>7, <1>8, <1>9, <2>1, <2>2 DEF IInv

\* The first part of Alloc, called by the client and by ApplyBuffer, and of
\* the first two cases of OffsetAlign.
LEMMA HeadStep ==
    ASSUME IInv, phase # "push", Len(stack) \in 0..(StackSize - 1),
           NEW i \in 1..Len(regions), NEW size \in Nat, size <= regions[i].size,
           regions' = TakeHead(regions, i, size),
           ReturnNode(i, Exact(regions, i, size))
    PROVE  /\ Consistent(space, regions', stack',
                         held \cup UnitsFrom(regions[i].start, size),
                         FreeUnits(regions) \ UnitsFrom(regions[i].start, size))
           /\ Len(stack') \in Len(stack)..(Len(stack) + 1)
           /\ fault' = "none"
<1> DEFINE c == regions[i].node
<1>1. /\ Consistent(space, regions, stack, held, FreeUnits(regions))
      /\ SpaceInv
      /\ fault = "none"
      /\ Len(stack) \in Nat /\ Len(stack) # StackSize
      /\ stack \in Seq(space)
  BY QuietFacts, ConsistentFacts, ConstantFacts DEF IInv
<1>2. Consistent(space, regions',
                 IF Exact(regions, i, size) THEN Append(stack, c) ELSE stack,
                 held \cup UnitsFrom(regions[i].start, size),
                 FreeUnits(regions) \ UnitsFrom(regions[i].start, size))
  BY <1>1, TakeHeadConsistent
<1>3. c \in space
  BY <1>1, RegionFacts
<1>4. CASE Exact(regions, i, size)
  <2>1. stack' = Append(stack, c) /\ fault' = "none"
    BY <1>1, <1>4 DEF ReturnNode, Push
  <2>2. Len(stack') = Len(stack) + 1
    BY <1>1, <1>3, <2>1, AppendProperties
  <2> QED
    BY <1>1, <1>2, <1>4, <2>1, <2>2
<1>5. CASE ~ Exact(regions, i, size)
  <2>1. stack' = stack /\ fault' = "none"
    BY <1>1, <1>5 DEF ReturnNode
  <2> QED
    BY <1>1, <1>2, <1>5, <2>1
<1> QED
  BY <1>4, <1>5

\* FreeList::Dealloc, called by the client's Dealloc and by ApplyBuffer.
LEMMA DeallocStep ==
    ASSUME SpaceInv, NEW s, NEW h,
           Consistent(space, regions, s, h, FreeUnits(regions)),
           fault = "none", Len(s) \in 1..(StackSize - 1),
           NEW a \in Nat, NEW n \in Nat \ {0}, UnitsFrom(a, n) \subseteq h,
           ListDealloc(s, a, n)
    PROVE  /\ Consistent(space, regions', stack', h \ UnitsFrom(a, n),
                         FreeUnits(regions) \cup UnitsFrom(a, n))
           /\ Len(stack') \in (Len(s) - 1)..(Len(s) + 1)
           /\ Len(stack') = 0 => regions' # <<>>
           /\ fault' = "none"
<1>1. /\ s \in Seq(space) /\ IsInjective(s)
      /\ regions \in ListType(space) /\ Ordered(regions)
      /\ Owned(space, h, FreeUnits(regions), NodesOf(regions), Range(s))
      /\ Len(s) \in Nat /\ Len(s) # 0 /\ Len(s) # StackSize
  BY ConsistentFacts, ConstantFacts
<1>2. PICK i \in 0..Len(regions) :
         /\ Before(regions, a, i)
         /\ IF ~ ClearOfAfter(regions, i, a, n)
            THEN fault' = "overlap" /\ stack' = s /\ UNCHANGED regions
            ELSE \/ /\ TouchesBefore(regions, i, a)
                    /\ TouchesAfter(regions, i, a, n)
                    /\ regions' = JoinBoth(regions, i, n)
                    /\ Push(s, regions[i + 1].node)
                 \/ /\ TouchesBefore(regions, i, a)
                    /\ ~ TouchesAfter(regions, i, a, n)
                    /\ regions' = GrowBefore(regions, i, n)
                    /\ stack' = s /\ UNCHANGED fault
                 \/ /\ ~ TouchesBefore(regions, i, a)
                    /\ TouchesAfter(regions, i, a, n)
                    /\ regions' = GrowAfter(regions, i, n)
                    /\ stack' = s /\ UNCHANGED fault
                 \/ /\ ~ TouchesBefore(regions, i, a)
                    /\ ~ TouchesAfter(regions, i, a, n)
                    /\ InsertFrom(s, regions, i, a, n)
  BY DEF ListDealloc
<1>3. ClearOfAfter(regions, i, a, n)
  <2>1. UnitsFrom(a, n) \cap FreeUnits(regions) = {}
    BY <1>1 DEF Owned
  <2>2. FitsGap(regions, i, a, n)
    BY <1>1, <1>2, <2>1, NeighbourFacts
  <2> QED
    BY <1>1, <2>2, GapClear
<1>4. CASE /\ TouchesBefore(regions, i, a)
           /\ TouchesAfter(regions, i, a, n)
           /\ regions' = JoinBoth(regions, i, n)
           /\ Push(s, regions[i + 1].node)
  <2>1. stack' = Append(s, regions[i + 1].node) /\ fault' = "none"
    BY <1>1, <1>4 DEF Push
  <2>2. Consistent(space, regions', stack', h \ UnitsFrom(a, n),
                   FreeUnits(regions) \cup UnitsFrom(a, n))
    BY <1>2, <1>4, <2>1, JoinBothConsistent
  <2>3. i + 1 \in 1..Len(regions)
    BY <1>1, <1>2, <1>4, ListTypeFacts DEF TouchesAfter
  <2>4. regions[i + 1].node \in space
    BY <2>3, RegionFacts
  <2>5. Len(stack') = Len(s) + 1
    BY <1>1, <2>1, <2>4, AppendProperties
  <2> QED
    BY <1>1, <2>1, <2>2, <2>5
<1>5. CASE /\ TouchesBefore(regions, i, a)
           /\ ~ TouchesAfter(regions, i, a, n)
           /\ regions' = GrowBefore(regions, i, n)
           /\ stack' = s /\ UNCHANGED fault
  <2>1. Consistent(space, regions', stack', h \ UnitsFrom(a, n),
                   FreeUnits(regions) \cup UnitsFrom(a, n))
    BY <1>2, <1>5, GrowBeforeConsistent
  <2> QED
    BY <1>1, <1>5, <2>1
<1>6. CASE /\ ~ TouchesBefore(regions, i, a)
           /\ TouchesAfter(regions, i, a, n)
           /\ regions' = GrowAfter(regions, i, n)
           /\ stack' = s /\ UNCHANGED fault
  <2>1. Consistent(space, regions', stack', h \ UnitsFrom(a, n),
                   FreeUnits(regions) \cup UnitsFrom(a, n))
    BY <1>2, <1>6, GrowAfterConsistent
  <2> QED
    BY <1>1, <1>6, <2>1
<1>7. CASE /\ ~ TouchesBefore(regions, i, a)
           /\ ~ TouchesAfter(regions, i, a, n)
           /\ InsertFrom(s, regions, i, a, n)
  <2>1. /\ regions' = InsertAfter(regions, i, Last(s), a, n)
        /\ stack' = Front(s)
        /\ fault' = "none"
    BY <1>1, <1>7 DEF InsertFrom
  <2>2. Consistent(space, regions', stack', h \ UnitsFrom(a, n),
                   FreeUnits(regions) \cup UnitsFrom(a, n))
    BY <1>1, <1>2, <2>1, InsertConsistent
  <2>3. Len(stack') = Len(s) - 1
    BY <1>1, <2>1, PopFacts
  <2>4. regions' # <<>>
    <3>1. UnitsFrom(a, n) \cap FreeUnits(regions) = {}
      BY <1>1 DEF Owned
    <3>2. FitsGap(regions, i, a, n)
      BY <1>1, <1>2, <3>1, NeighbourFacts
    <3>3. /\ Last(s) \in space /\ Last(s) \in Range(s)
          /\ Last(s) \notin NodesOf(regions)
      BY <1>1, PopFacts DEF Owned
    <3>4. DistinctNodes(regions)
      BY ConsistentFacts
    <3>5. ListOf(regions', space, NodesOf(regions) \cup {Last(s)},
                 FreeUnits(regions) \cup UnitsFrom(a, n))
      BY <1>1, <2>1, <3>2, <3>3, <3>4, InsertFacts
    <3> QED
      BY <3>5, NotEmpty
  <2> QED
    BY <1>1, <2>1, <2>2, <2>3, <2>4
<1> QED
  BY <1>2, <1>3, <1>4, <1>5, <1>6, <1>7
-----------------------------------------------------------------------------
(* Every action preserves it, and is a step of the contract or a stutter.  *)

ContractStep == [Contract!Next]_(Contract!vars)

Kept == IInv' /\ ContractStep

\* What an operation of the client leaves to ApplyBuffer.
LEMMA Entered ==
    ASSUME IInv, phase = "off", UNCHANGED <<space, coming>>,
           EnterApplyBuffer, fault' = "none", answer' \in Contract!Answers,
           NEW f, Consistent(space, regions', stack', held', f),
           Len(stack') \in 0..StackSize,
           Len(stack') = 0 => regions' # <<>>
    PROVE  IInv'
<1>1. SpaceInv'
  BY DEF IInv, SpaceInv
<1>2. coming' = {} /\ held' \cup coming' = held' /\ phase' = "fill"
  BY QuietFacts DEF EnterApplyBuffer
<1>3. Consistent(space, regions, stack, held \cup coming, FreeUnits(regions))'
  BY <1>2, ConsistentFacts DEF IInv
<1>4. BufferInv'
  BY <1>2, ConstantFacts DEF BufferInv
<1>5. ComingInv'
  BY <1>2 DEF ComingInv
<1> QED
  BY <1>1, <1>2, <1>3, <1>4, <1>5 DEF IInv

LEMMA AnswerType ==
    ASSUME NEW ok \in BOOLEAN, NEW address \in Units, NEW align \in Aligns \cup {1},
           NEW offset \in AlignOffsets \cup {0}, NEW size \in AllocSizes
    PROVE  Answered(ok, address, align, offset, size) \in Contract!Answers
  BY ConstantFacts, RequestAssumption DEF Units, Answered, Contract!Answers

\* Chunks that leave the regions for the client are a Grant.
LEMMA GrantStep ==
    ASSUME NEW at \in Units, NEW size \in AllocSizes,
           NEW align \in Aligns \cup {1}, NEW offset \in AlignOffsets \cup {0},
           ((at + offset) % AddressSpan) % align = 0,
           UnitsFrom(at, size) \subseteq FreeUnits(regions),
           FreeUnits(regions') = FreeUnits(regions) \ UnitsFrom(at, size),
           Give(at, align, offset, size)
    PROVE  ContractStep /\ answer' \in Contract!Answers
<1> DEFINE U == UnitsFrom(at, size)
<1>1. /\ held' = held \cup U
      /\ answer' = Answered(TRUE, at, align, offset, size)
      /\ answer' \in Contract!Answers
  BY AnswerType DEF Give
<1>2. /\ answer'.ok /\ answer'.address = at /\ answer'.align = align
      /\ answer'.offset = offset /\ answer'.size = size
  BY <1>1 DEF Answered
<1>3. U = answer'.address .. (answer'.address + answer'.size - 1)
  <2>1. at \in Nat /\ size \in Nat
    BY ConstantFacts, RequestAssumption DEF Units
  <2> QED
    BY <1>2, <2>1 DEF UnitsFrom
<1>4. U \subseteq FreeUnits(regions) /\ FreeUnits(regions') = FreeUnits(regions) \ U
  OBVIOUS
<1> HIDE DEF U
<1> QED
  BY <1>1, <1>2, <1>3, <1>4 DEF ContractStep, Contract!Next, Contract!Grant

LEMMA DenyKept ==
    ASSUME IInv, NEW align \in Aligns \cup {1},
           NEW offset \in AlignOffsets \cup {0}, NEW size \in AllocSizes,
           Deny(align, offset, size)
    PROVE  Kept
<1>1. 0 \in Units
  BY ConstantFacts DEF Units
<1>2. answer' \in Contract!Answers
  BY <1>1, AnswerType DEF Deny
<1>3. /\ SpaceInv' /\ BufferInv' /\ ComingInv'
      /\ Consistent(space, regions, stack, held \cup coming, FreeUnits(regions))'
  BY DEF IInv, Deny, SpaceInv, BufferInv, ComingInv
<1>4. ~ answer'.ok
  BY DEF Deny, Answered
<1>5. ContractStep
  BY <1>2, <1>4 DEF ContractStep, Contract!Next, Contract!Refuse, Deny
<1> QED
  BY <1>2, <1>3, <1>5 DEF Kept, IInv, Deny

LEMMA AllocKept ==
    ASSUME IInv, NEW size \in AllocSizes, Alloc(size)
    PROVE  Kept
<1>1. CASE NoFit(regions, size) /\ Deny(1, 0, size)
  BY <1>1, DenyKept
<1>2. CASE \E i \in DOMAIN regions :
              /\ FirstFit(regions, size, i)
              /\ regions' = TakeHead(regions, i, size)
              /\ ReturnNode(i, Exact(regions, i, size))
              /\ Give(regions[i].start, 1, 0, size)
              /\ EnterApplyBuffer
              /\ UNCHANGED <<space, coming>>
  <2> PICK i \in DOMAIN regions :
         /\ FirstFit(regions, size, i)
         /\ regions' = TakeHead(regions, i, size)
         /\ ReturnNode(i, Exact(regions, i, size))
         /\ Give(regions[i].start, 1, 0, size)
         /\ EnterApplyBuffer
         /\ UNCHANGED <<space, coming>>
    BY <1>2
  <2>1. /\ i \in 1..Len(regions)
        /\ size \in Nat /\ size <= regions[i].size
        /\ regions[i].start \in Units
    <3>1. i \in 1..Len(regions)
      BY ConsistentFacts, ListTypeFacts DEF IInv
    <3>2. regions[i].start \in Units /\ regions[i].size \in 1..SizeMax
      BY <3>1, RegionFacts, SpaceFacts DEF IInv
    <3>3. size \in Nat
      BY RequestAssumption, ConstantFacts
    <3> QED
      BY <3>1, <3>2, <3>3 DEF FirstFit, Fits
  <2> DEFINE U == UnitsFrom(regions[i].start, size)
  <2>2. /\ Consistent(space, regions', stack', held', FreeUnits(regions) \ U)
        /\ Len(stack') \in 1..StackSize
        /\ fault' = "none"
    <3>1. phase = "off" /\ Len(stack) \in 1..(StackSize - 1)
      BY DEF Alloc, Idle, IInv, BufferInv
    <3>2. Len(stack) \in 0..(StackSize - 1)
      BY <3>1, ConstantFacts
    <3>3. /\ Consistent(space, regions', stack', held \cup U, FreeUnits(regions) \ U)
          /\ Len(stack') \in Len(stack)..(Len(stack) + 1)
          /\ fault' = "none"
      BY <2>1, <3>1, <3>2, HeadStep
    <3> QED
      BY <3>1, <3>3, ConstantFacts DEF Give
  <2>3. ((regions[i].start + 0) % AddressSpan) % 1 = 0
    <3> DEFINE n == (regions[i].start + 0) % AddressSpan
    <3>1. n \in Nat
      BY <2>1, ConstantFacts DEF Units
    <3> HIDE DEF n
    <3>2. n % 1 = 0
      BY <3>1
    <3> QED
      BY <3>2 DEF n
  <2>4. U \subseteq FreeUnits(regions)
    <3>1. regions \in ListType(space)
      BY ConsistentFacts DEF IInv
    <3>2. 0 + size <= regions[i].size /\ regions[i].start + 0 = regions[i].start
      BY <2>1, <3>1, ListTypeFacts
    <3> QED
      BY <2>1, <3>1, <3>2, PartIsFree
  <2>5. FreeUnits(regions') = FreeUnits(regions) \ U
    BY <2>2, ConsistentFacts
  <2>6. ContractStep /\ answer' \in Contract!Answers
    BY <2>1, <2>3, <2>4, <2>5, GrantStep
  <2> QED
    <3>1. phase = "off"
      BY DEF Alloc, Idle
    <3>2. Len(stack') \in 0..StackSize /\ Len(stack') # 0
      BY <2>2, ConstantFacts
    <3> QED
      BY <2>2, <2>6, <3>1, <3>2, Entered DEF Kept
<1> QED
  BY <1>1, <1>2 DEF Alloc

\* The part of a region that OffsetAlign hands out, and its address.
LEMMA AlignedFacts ==
    ASSUME IInv, NEW i \in 1..Len(regions), NEW align \in Aligns,
           NEW offset \in AlignOffsets, NEW size \in AllocSizes,
           AlignedFits(regions[i], align, offset, size)
    PROVE  LET skip == Compensation(regions[i], align, offset)
               at   == AlignedAddress(regions[i], skip)
           IN  /\ skip \in Nat
               /\ size \in Nat
               /\ skip + size <= regions[i].size
               /\ at \in Units
               /\ UnitsFrom(at, size) = UnitsFrom(regions[i].start + skip, size)
               /\ UnitsFrom(at, size) \subseteq FreeUnits(regions)
               /\ ((at + offset) % AddressSpan) % align = 0
<1>1. /\ regions[i].start \in Nat /\ regions[i].size \in Nat
      /\ End(regions[i]) <= AddressSpan
      /\ regions \in ListType(space)
  <2>1. regions \in ListType(space)
    BY ConsistentFacts DEF IInv
  <2>2. /\ regions[i].start \in Nat /\ regions[i].size \in 1..SizeMax
        /\ regions[i].start + regions[i].size <= AddressSpan
    BY RegionFacts DEF IInv
  <2> QED
    BY <2>1, <2>2, ConstantFacts DEF End
<1>2. /\ size \in Nat /\ align \in Nat \ {0} /\ offset \in Nat
      /\ AddressSpan % align = 0
  BY RequestAssumption, AlignAssumption, ConstantFacts
<1> DEFINE skip == Compensation(regions[i], align, offset)
           at   == AlignedAddress(regions[i], skip)
<1>3. /\ skip \in Nat
      /\ skip + size <= regions[i].size
      /\ at \in 0..(AddressSpan - 1)
      /\ UnitsFrom(at, size) = UnitsFrom(regions[i].start + skip, size)
      /\ ((at + offset) % AddressSpan) % align = 0
  BY <1>1, <1>2, AlignedPart, SMTT(60)
<1>4. UnitsFrom(regions[i].start + skip, size) \subseteq FreeUnits(regions)
  <2> HIDE DEF skip
  <2> QED
    BY <1>1, <1>2, <1>3, PartIsFree
<1> QED
  BY <1>2, <1>3, <1>4 DEF Units

LEMMA OffsetAlignKept ==
    ASSUME IInv, NEW align \in Aligns, NEW offset \in AlignOffsets,
           NEW size \in AllocSizes, OffsetAlign(align, offset, size)
    PROVE  Kept
<1>1. CASE NoAlignedFit(regions, align, offset, size) /\ Deny(align, offset, size)
  BY <1>1, DenyKept
<1>2. CASE \E i \in DOMAIN regions :
              /\ FirstAligned(regions, align, offset, size, i)
              /\ \/ AlignHead(i, align, offset, size)
                 \/ AlignTail(i, align, offset, size)
                 \/ AlignMiddle(i, align, offset, size)
              /\ Give(AlignedAddress(regions[i],
                                     Compensation(regions[i], align, offset)),
                      align, offset, size)
              /\ EnterApplyBuffer
              /\ UNCHANGED <<space, coming>>
  <2> PICK i \in DOMAIN regions :
         /\ FirstAligned(regions, align, offset, size, i)
         /\ \/ AlignHead(i, align, offset, size)
            \/ AlignTail(i, align, offset, size)
            \/ AlignMiddle(i, align, offset, size)
         /\ Give(AlignedAddress(regions[i],
                                Compensation(regions[i], align, offset)),
                 align, offset, size)
         /\ EnterApplyBuffer
         /\ UNCHANGED <<space, coming>>
    BY <1>2
  <2> DEFINE skip == Compensation(regions[i], align, offset)
             at   == AlignedAddress(regions[i], skip)
             U    == UnitsFrom(regions[i].start + skip, size)
  <2>1. /\ IInv /\ phase = "off" /\ fault = "none" /\ SpaceInv
        /\ Consistent(space, regions, stack, held, FreeUnits(regions))
        /\ Len(stack) \in 1..(StackSize - 1)
        /\ regions \in ListType(space)
        /\ stack \in Seq(space) /\ IsInjective(stack)
    <3>1. IInv /\ phase = "off" /\ fault = "none" /\ SpaceInv
          /\ Len(stack) \in 1..(StackSize - 1)
      BY DEF OffsetAlign, Idle, IInv, BufferInv
    <3>2. Consistent(space, regions, stack, held, FreeUnits(regions))
      BY <3>1, QuietFacts
    <3> QED
      BY <3>1, <3>2, ConsistentFacts
  <2>2. i \in 1..Len(regions)
    BY <2>1, ListTypeFacts
  <2>3. /\ skip \in Nat
        /\ size \in Nat
        /\ skip + size <= regions[i].size
        /\ at \in Units
        /\ UnitsFrom(at, size) = U
        /\ UnitsFrom(at, size) \subseteq FreeUnits(regions)
        /\ ((at + offset) % AddressSpan) % align = 0
    BY <2>2, AlignedFacts DEF FirstAligned
  <2>4. held' = held \cup U
    BY <2>3 DEF Give
  <2>5. regions[i].size \in Nat /\ regions[i].start \in Nat
    BY <2>1, <2>2, RegionFacts, ConstantFacts
  <2> SUFFICES /\ Consistent(space, regions', stack', held \cup U,
                             FreeUnits(regions) \ U)
               /\ Len(stack') \in 0..StackSize
               /\ Len(stack') = 0 => regions' # <<>>
               /\ fault' = "none"
    <3>1. FreeUnits(regions') = FreeUnits(regions) \ U
      BY ConsistentFacts
    <3> HIDE DEF at, U
    <3>2. FreeUnits(regions') = FreeUnits(regions) \ UnitsFrom(at, size)
      BY <2>3, <3>1
    <3>3. Give(at, align, offset, size)
      BY DEF at
    <3>4. ContractStep /\ answer' \in Contract!Answers
      BY <2>3, <3>2, <3>3, GrantStep
    <3> QED
      BY <2>1, <2>4, <3>4, Entered DEF Kept
  <2>6. CASE AlignHead(i, align, offset, size)
    <3>1. skip = 0 /\ U = UnitsFrom(regions[i].start, size)
      BY <2>5, <2>6 DEF AlignHead
    <3>2. size <= regions[i].size
      BY <2>3, <2>5, <3>1
    <3>3. /\ regions' = TakeHead(regions, i, size)
          /\ ReturnNode(i, Exact(regions, i, size))
      BY <2>6 DEF AlignHead
    <3>4. /\ Consistent(space, regions', stack',
                        held \cup UnitsFrom(regions[i].start, size),
                        FreeUnits(regions) \ UnitsFrom(regions[i].start, size))
          /\ Len(stack') \in Len(stack)..(Len(stack) + 1)
          /\ fault' = "none"
      <4>1. phase # "push" /\ Len(stack) \in 0..(StackSize - 1)
        BY <2>1, ConstantFacts
      <4> QED
        BY <2>1, <2>2, <2>3, <3>2, <3>3, <4>1, HeadStep
    <3> HIDE DEF skip, U
    <3>5. Consistent(space, regions', stack', held \cup U, FreeUnits(regions) \ U)
      BY <3>1, <3>4
    <3>6. Len(stack') \in 0..StackSize /\ Len(stack') # 0
      BY <2>1, <3>4, ConstantFacts
    <3> QED
      BY <3>4, <3>5, <3>6
  <2>7. CASE AlignTail(i, align, offset, size)
    <3>1. /\ skip # 0
          /\ TailSize(regions[i], skip, size) = 0
          /\ regions' = Shrink(regions, i, skip)
          /\ stack' = stack /\ fault' = fault
      BY <2>7 DEF AlignTail
    <3> HIDE DEF skip, U
    <3>2. /\ skip \in Nat \ {0} /\ skip <= regions[i].size
          /\ regions[i].size - skip = size
      BY <2>3, <2>5, <3>1 DEF TailSize
    <3>3. U = UnitsFrom(regions[i].start + skip, regions[i].size - skip)
      BY <3>2 DEF U
    <3>4. Consistent(space, regions', stack', held \cup U, FreeUnits(regions) \ U)
      BY <2>1, <2>2, <3>1, <3>2, <3>3, ShrinkConsistent
    <3> QED
      BY <2>1, <3>1, <3>4, ConstantFacts
  <2>8. CASE AlignMiddle(i, align, offset, size)
    <3> DEFINE from == regions[i].start + skip + size
               rest == TailSize(regions[i], skip, size)
               cut  == Shrink(regions, i, skip)
    <3>1. /\ skip # 0
          /\ rest # 0
          /\ InsertFrom(stack, cut, i, from, rest)
      BY <2>8 DEF AlignMiddle
    <3>2. Len(stack) \in Nat /\ Len(stack) # 0 /\ Len(stack) <= StackSize
      BY <2>1, ConstantFacts
    <3>3. /\ regions' = InsertAfter(cut, i, Last(stack), from, rest)
          /\ stack' = Front(stack)
          /\ fault' = "none"
      BY <2>1, <3>1, <3>2 DEF InsertFrom
    <3> HIDE DEF skip, U
    <3>4. skip \in Nat \ {0} /\ skip + size < regions[i].size
      BY <2>3, <2>5, <3>1 DEF TailSize
    <3>5. Consistent(space, regions', stack', held \cup U, FreeUnits(regions) \ U)
      BY <2>1, <2>2, <2>3, <3>2, <3>3, <3>4, CarveConsistent DEF U
    <3>6. Len(stack') \in 0..StackSize
      <4>1. Len(stack') = Len(stack) - 1
        BY <2>1, <3>2, <3>3, PopFacts
      <4> QED
        BY <3>2, <4>1, ConstantFacts
    <3>7. regions' # <<>>
      <4>1. /\ Last(stack) \in space /\ Last(stack) \in Range(stack)
        BY <2>1, <3>2, PopFacts
      <4>2. /\ Last(stack) \notin NodesOf(regions)
            /\ Ordered(regions) /\ DistinctNodes(regions)
        BY <2>1, <4>1, ConsistentFacts DEF Owned
      <4>3. ListOf(regions', space, NodesOf(regions) \cup {Last(stack)},
                   FreeUnits(regions) \ U)
        BY <2>1, <2>2, <2>3, <3>3, <3>4, <4>1, <4>2, CarveFacts DEF U
      <4> QED
        BY <4>3, NotEmpty
    <3> QED
      BY <3>3, <3>5, <3>6, <3>7
  <2> QED
    BY <2>6, <2>7, <2>8
<1> QED
  BY <1>1, <1>2 DEF OffsetAlign

LEMMA DeallocKept ==
    ASSUME IInv, NEW address \in Units, NEW size \in 0..MaxChunks,
           Dealloc(address, size)
    PROVE  Kept
<1>1. answer' \in Contract!Answers /\ answer' = Contract!NoAnswer
  BY ConstantFacts
  DEF Dealloc, NoAnswer, Answered,
      Contract!Answers, Contract!NoAnswer, Contract!Answered
<1>2. /\ SpaceInv /\ fault = "none" /\ phase = "off"
      /\ Consistent(space, regions, stack, held, FreeUnits(regions))
      /\ Len(stack) \in 1..(StackSize - 1)
      /\ UnitsFrom(address, size) \subseteq held
      /\ held' = held \ UnitsFrom(address, size)
      /\ UNCHANGED <<space, coming>>
  <2>1. phase = "off"
    BY DEF Dealloc, Idle
  <2>2. Consistent(space, regions, stack, held, FreeUnits(regions))
    BY <2>1, QuietFacts
  <2> QED
    BY <2>1, <2>2 DEF Dealloc, Idle, IInv, BufferInv
<1>3. CASE size = 0
  <2>1. UNCHANGED <<regions, stack, phase, fault>>
    BY <1>3 DEF Dealloc
  <2>2. held' = held
    <3>1. address \in Nat
      BY ConstantFacts DEF Units
    <3>2. UnitsFrom(address, size) = {}
      BY <1>3, <3>1 DEF UnitsFrom
    <3> QED
      BY <1>2, <3>2
  <2>3. /\ SpaceInv' /\ BufferInv' /\ ComingInv'
        /\ Consistent(space, regions, stack, held \cup coming, FreeUnits(regions))'
    BY <1>2, <2>1, <2>2 DEF IInv, SpaceInv, BufferInv, ComingInv
  <2>4. Contract!Release
    BY <1>1, <2>1, <2>2 DEF Contract!Release
  <2> QED
    BY <1>1, <2>1, <2>3, <2>4 DEF Kept, IInv, ContractStep, Contract!Next
<1>4. CASE size # 0
  <2>1. ListDealloc(stack, address, size) /\ EnterApplyBuffer
    BY <1>4 DEF Dealloc
  <2>2. address \in Nat /\ size \in Nat \ {0}
    BY <1>4, ConstantFacts DEF Units
  <2> DEFINE U == UnitsFrom(address, size)
  <2>3. /\ Consistent(space, regions', stack', held \ U,
                      FreeUnits(regions) \cup U)
        /\ Len(stack') \in (Len(stack) - 1)..(Len(stack) + 1)
        /\ Len(stack') = 0 => regions' # <<>>
        /\ fault' = "none"
    BY <1>2, <2>1, <2>2, DeallocStep
  <2>4. Len(stack') \in 0..StackSize
    BY <1>2, <2>3, ConstantFacts
  <2>5. FreeUnits(regions') = FreeUnits(regions) \cup U
    BY <2>3, ConsistentFacts
  <2>6. Contract!Release
    BY <1>1, <1>2, <2>5 DEF Contract!Release
  <2> QED
    BY <1>1, <1>2, <2>1, <2>3, <2>4, <2>6, Entered
    DEF Kept, ContractStep, Contract!Next
<1> QED
  BY <1>3, <1>4
\* The list's own operations, as seen by its client.
LEMMA Housekept ==
    ASSUME UNCHANGED <<held, answer>>,
           Consistent(space, regions', stack', held \cup coming',
                      FreeUnits(regions'))
    PROVE  ContractStep
<1>1. FreeUnits(regions') \cap held = {}
  BY ConsistentFacts DEF Owned
<1> QED
  BY <1>1 DEF ContractStep, Contract!Next, Contract!Housekeeping

LEMMA FillKept == ASSUME IInv, Fill PROVE Kept
<1>1. /\ SpaceInv /\ fault = "none" /\ phase = "fill"
      /\ Consistent(space, regions, stack, held, FreeUnits(regions))
      /\ Len(stack) = 0
      /\ regions # <<>>
      /\ regions \in ListType(space)
      /\ coming = {}
      /\ UNCHANGED <<space, held, answer>>
  <2>1. /\ phase = "fill" /\ coming = {}
        /\ Consistent(space, regions, stack, held, FreeUnits(regions))
    BY QuietFacts DEF Fill, Buffering
  <2>2. stack \in Seq(space) /\ regions \in ListType(space)
    BY <2>1, ConsistentFacts
  <2>3. Len(stack) = 0
    BY <2>2, LenProperties DEF Fill, SoftMinimum
  <2> QED
    BY <2>1, <2>2, <2>3 DEF Fill, Buffering, IInv, BufferInv
<1>2. \E i \in 1..Len(regions) : regions[i].size >= 1
  <2>1. Len(regions) \in Nat /\ Len(regions) # 0
    BY <1>1, ListTypeFacts, EmptySeq DEF ListType
  <2>2. 1 \in 1..Len(regions)
    BY <2>1
  <2>3. regions[1].size \in Nat \ {0}
    BY <1>1, <2>2, ListTypeFacts
  <2> QED
    BY <2>2, <2>3
<1>3. ~ NoFit(regions, 1)
  BY <1>1, <1>2, ListTypeFacts DEF NoFit, Fits
<1>4. PICK i \in DOMAIN regions :
         /\ FirstFit(regions, 1, i)
         /\ regions' = TakeHead(regions, i, 1)
         /\ ReturnNode(i, Exact(regions, i, 1))
         /\ coming' = coming \cup {regions[i].start}
         /\ EnterApplyBuffer
  BY <1>3 DEF Fill
<1> DEFINE a == regions[i].start
<1>5. i \in 1..Len(regions) /\ 1 <= regions[i].size
  <2>1. i \in 1..Len(regions)
    BY <1>1, ListTypeFacts
  <2>2. regions[i].size \in Nat \ {0}
    BY <1>1, <2>1, ListTypeFacts
  <2> QED
    BY <2>1, <2>2
<1>6. a \in Nat /\ a \notin held
  <2>1. a \in Nat
    BY <1>1, <1>5, RegionFacts
  <2>2. a \in FreeUnits(regions)
    BY <1>1, <1>5, SpanFacts
  <2> QED
    BY <1>1, <2>1, <2>2, ConsistentFacts DEF Owned
<1>7. /\ Consistent(space, regions', stack', held \cup UnitsFrom(a, 1),
                    FreeUnits(regions) \ UnitsFrom(a, 1))
      /\ Len(stack') \in Len(stack)..(Len(stack) + 1)
      /\ fault' = "none"
  <2>1. phase # "push" /\ Len(stack) \in 0..(StackSize - 1) /\ 1 \in Nat
    BY <1>1, ConstantFacts
  <2> QED
    BY <1>4, <1>5, <2>1, HeadStep
<1>8. /\ phase' = "push" /\ coming' = {a}
      /\ UnitsFrom(a, 1) = {a}
  BY <1>1, <1>4, <1>6 DEF EnterApplyBuffer, Resumed, UnitsFrom
<1> HIDE DEF a
<1>9. Consistent(space, regions', stack', held \cup coming', FreeUnits(regions'))
  BY <1>7, <1>8, ConsistentFacts
<1>10. BufferInv'
  <2>1. Len(stack') \in 0..1
    BY <1>1, <1>7
  <2>2. Len(stack') <= StackSize
    <3> DEFINE n == Len(stack')
    <3>1. n \in 0..1
      BY <2>1
    <3> HIDE DEF n
    <3>2. n <= StackSize
      BY <3>1, ConstantFacts
    <3> QED
      BY <3>2 DEF n
  <2> QED
    BY <1>8, <2>1, <2>2 DEF BufferInv
<1>11. ComingInv'
  BY <1>1, <1>6, <1>8 DEF ComingInv
<1>12. SpaceInv'
  BY <1>1 DEF SpaceInv
<1>13. ContractStep
  BY <1>1, <1>9, Housekept
<1> QED
  BY <1>1, <1>7, <1>8, <1>9, <1>10, <1>11, <1>12, <1>13 DEF IInv, Kept

LEMMA PushFilledKept == ASSUME IInv, PushFilled PROVE Kept
<1>1. /\ SpaceInv /\ fault = "none" /\ phase = "push" /\ phase' = "fill"
      /\ Consistent(space, regions, stack, held \cup coming, FreeUnits(regions))
      /\ Len(stack) \in 0..1
      /\ UNCHANGED <<space, regions, held, answer>>
  BY DEF PushFilled, Buffering, IInv, BufferInv
<1>2. PICK chunk \in coming : Push(stack, chunk) /\ coming' = coming \ {chunk}
  BY DEF PushFilled
<1>3. /\ held \cap coming = {}
      /\ coming = {chunk}
      /\ coming' = {}
  BY <1>2 DEF IInv, ComingInv
<1>4. (held \cup coming) \ {chunk} = held /\ held \cup coming' = held
  BY <1>3
<1>5. stack' = Append(stack, chunk) /\ fault' = "none"
  <2> DEFINE n == Len(stack)
  <2>1. n \in 0..1
    BY <1>1
  <2> HIDE DEF n
  <2>2. n # StackSize
    BY <2>1, ConstantFacts
  <2> QED
    BY <1>1, <1>2, <2>2 DEF Push, n
<1>6. /\ Consistent(space, regions', stack', held \cup coming', FreeUnits(regions'))
  <2>1. Consistent(space, regions, Append(stack, chunk),
                   (held \cup coming) \ {chunk}, FreeUnits(regions))
    BY <1>1, PushConsistent
  <2> QED
    BY <1>1, <1>4, <1>5, <2>1
<1>7. Len(stack') # 0 /\ Len(stack') <= StackSize
  <2>1. stack \in Seq(space) /\ chunk \in space
    BY <1>1, ConsistentFacts DEF Owned
  <2>2. Len(stack') = Len(stack) + 1
    BY <1>5, <2>1, AppendProperties
  <2> DEFINE n == Len(stack)
  <2>3. n \in 0..1
    BY <1>1
  <2> HIDE DEF n
  <2>4. n + 1 # 0 /\ n + 1 <= StackSize
    BY <2>3, ConstantFacts
  <2> QED
    BY <2>2, <2>4 DEF n
<1>8. BufferInv'
  BY <1>1, <1>7 DEF BufferInv
<1>9. ComingInv' /\ SpaceInv'
  BY <1>1, <1>3 DEF ComingInv, SpaceInv
<1>10. ContractStep
  BY <1>1, <1>6, Housekept
<1> QED
  BY <1>1, <1>5, <1>6, <1>8, <1>9, <1>10 DEF IInv, Kept

LEMMA FilledKept == ASSUME IInv, Filled PROVE Kept
<1>1. Len(stack) \in Nat
  BY ConsistentFacts, LenProperties DEF IInv
<1>2. Len(stack) # 0
  BY <1>1 DEF Filled, SoftMinimum
<1>3. BufferInv'
  BY <1>2 DEF IInv, BufferInv, Filled
<1>4. /\ SpaceInv' /\ ComingInv'
      /\ Consistent(space, regions, stack, held \cup coming, FreeUnits(regions))'
  BY DEF IInv, Filled, Buffering, SpaceInv, ComingInv
<1>5. ContractStep
  BY DEF Filled, ContractStep, Contract!vars
<1> QED
  BY <1>3, <1>4, <1>5 DEF IInv, Filled, Kept

LEMMA DrainKept == ASSUME IInv, Drain PROVE Kept
<1> DEFINE s   == Front(stack)
           top == Last(stack)
           h   == held \cup {top}
<1>1. /\ SpaceInv /\ fault = "none" /\ phase = "drain"
      /\ Consistent(space, regions, stack, held, FreeUnits(regions))
      /\ stack \in Seq(space) /\ IsInjective(stack)
      /\ space \subseteq Nat
      /\ ListDealloc(s, top, 1)
      /\ coming = {} /\ phase' = "drain"
      /\ UNCHANGED <<space, coming, held, answer>>
  <2>1. /\ phase = "drain" /\ coming = {}
        /\ Consistent(space, regions, stack, held, FreeUnits(regions))
    BY QuietFacts DEF Drain, Buffering
  <2> QED
    BY <2>1, ConsistentFacts, SpaceFacts
    DEF Drain, Buffering, IInv, EnterApplyBuffer, Resumed
<1>2. Len(stack) = StackSize
  <2>1. Len(stack) \in Nat /\ Len(stack) <= StackSize
    BY <1>1, LenProperties DEF IInv, BufferInv
  <2>2. Len(stack) > StackSize - 1
    BY DEF Drain, SoftMaximum
  <2> QED
    BY <2>1, <2>2, ConstantFacts
<1>3. Len(stack) # 0
  BY <1>2, ConstantFacts
<1>4. /\ Consistent(space, regions, s, h, FreeUnits(regions))
      /\ top \notin held
  BY <1>1, <1>3, PopConsistent
<1>5. Len(s) = StackSize - 1 /\ top \in space
  BY <1>1, <1>2, <1>3, PopFacts
<1> HIDE DEF s, top
<1>6. Len(s) \in 1..(StackSize - 1)
  BY <1>5, ConstantFacts
<1>7. UnitsFrom(top, 1) = {top} /\ top \in Nat
  BY <1>1, <1>5 DEF UnitsFrom
<1>8. h \ UnitsFrom(top, 1) = held /\ UnitsFrom(top, 1) \subseteq h
  BY <1>4, <1>7
<1> HIDE DEF h
<1>9. /\ Consistent(space, regions', stack', h \ UnitsFrom(top, 1),
                    FreeUnits(regions) \cup UnitsFrom(top, 1))
      /\ Len(stack') \in (Len(s) - 1)..(Len(s) + 1)
      /\ fault' = "none"
  <2>1. 1 \in Nat \ {0}
    OBVIOUS
  <2> QED
    BY <1>1, <1>4, <1>6, <1>7, <1>8, <2>1, DeallocStep
<1>10. BufferInv'
  <2>1. Len(stack') <= StackSize /\ Len(stack') # 0
    BY <1>5, <1>9, ConstantFacts
  <2> QED
    BY <1>1, <2>1 DEF BufferInv
<1>11. Consistent(space, regions', stack', held \cup coming', FreeUnits(regions'))
  <2>1. held \cup coming' = held
    BY <1>1
  <2> QED
    BY <1>8, <1>9, <2>1, ConsistentFacts
<1>12. SpaceInv' /\ ComingInv'
  BY <1>1 DEF SpaceInv, ComingInv
<1>13. ContractStep
  BY <1>1, <1>11, Housekept
<1> QED
  BY <1>1, <1>9, <1>10, <1>11, <1>12, <1>13 DEF IInv, Kept

LEMMA DrainedKept == ASSUME IInv, Drained PROVE Kept
<1>1. Len(stack) \in Nat /\ Len(stack) # 0
  BY ConsistentFacts, LenProperties DEF IInv, BufferInv, Drained, Buffering
<1>2. Len(stack) <= StackSize - 1
  BY DEF Drained, SoftMaximum
<1>3. BufferInv'
  BY <1>1, <1>2, ConstantFacts DEF BufferInv, Drained
<1>4. /\ SpaceInv' /\ ComingInv'
      /\ Consistent(space, regions, stack, held \cup coming, FreeUnits(regions))'
  BY DEF IInv, Drained, Buffering, SpaceInv, ComingInv
<1>5. ContractStep
  BY DEF Drained, ContractStep, Contract!vars
<1> QED
  BY <1>3, <1>4, <1>5 DEF IInv, Drained, Kept

LEMMA StutterKept == ASSUME IInv, UNCHANGED vars PROVE Kept
<1>1. /\ SpaceInv' /\ BufferInv' /\ ComingInv'
      /\ Consistent(space, regions, stack, held \cup coming, FreeUnits(regions))'
  BY DEF IInv, SpaceInv, BufferInv, ComingInv, vars
<1>2. ContractStep
  BY DEF ContractStep, Contract!vars, vars
<1> QED
  BY <1>1, <1>2 DEF IInv, Kept, vars

LEMMA NextKept == ASSUME IInv, [Next]_vars PROVE Kept
<1>1. ASSUME NEW size \in AllocSizes, Alloc(size) PROVE Kept
  BY <1>1, AllocKept
<1>2. ASSUME NEW align \in Aligns, NEW offset \in AlignOffsets,
             NEW size \in AllocSizes, OffsetAlign(align, offset, size)
      PROVE  Kept
  BY <1>2, OffsetAlignKept
<1>3. ASSUME NEW address \in Units, NEW size \in 0..MaxChunks,
             Dealloc(address, size)
      PROVE  Kept
  BY <1>3, DeallocKept
<1>4. CASE Fill
  BY <1>4, FillKept
<1>5. CASE PushFilled
  BY <1>5, PushFilledKept
<1>6. CASE Filled
  BY <1>6, FilledKept
<1>7. CASE Drain
  BY <1>7, DrainKept
<1>8. CASE Drained
  BY <1>8, DrainedKept
<1>9. CASE UNCHANGED vars
  BY <1>9, StutterKept
<1> QED
  BY <1>1, <1>2, <1>3, <1>4, <1>5, <1>6, <1>7, <1>8, <1>9 DEF Next

\* The inductive invariant holds in every reachable state.
THEOREM Invariance == Spec => []IInv
<1>1. Init => IInv
  BY InitInvariant
<1>2. IInv /\ [Next]_vars => IInv'
  BY NextKept DEF Kept
<1> QED
  BY <1>1, <1>2, PTL DEF Spec

\* No assertion of PlacedFreeList fails, whatever the capacity of its stack
\* (3 or more), the space it is placed over, and the client's requests.
THEOREM NoFaultTheorem == Spec => []NoFault
<1>1. IInv => NoFault
  BY DEF IInv, NoFault
<1> QED
  BY <1>1, Invariance, PTL

\* ApplyBuffer always leaves a chunk in the stack and room for one more, and
\* never runs inside itself.
THEOREM BufferReadyTheorem == Spec => []BufferReady
<1>1. IInv => BufferReady
  BY DEF IInv, BufferInv, ComingInv, BufferReady, Idle, SoftMinimum, SoftMaximum
<1> QED
  BY <1>1, Invariance, PTL

\* The list stays sorted, with its regions disjoint.
THEOREM RegionsOrderedTheorem == Spec => []RegionsOrdered
<1>1. IInv => RegionsOrdered
  BY ConsistentFacts DEF IInv, RegionsOrdered
<1> QED
  BY <1>1, Invariance, PTL

\* No chunk is leaked and none is used twice.
THEOREM OneOwnerTheorem == Spec => []OneOwner
<1>1. IInv => OneOwner
  <2> SUFFICES ASSUME IInv PROVE OneOwner
    OBVIOUS
  <2>1. /\ DistinctNodes(regions) /\ IsInjective(stack)
        /\ Owned(space, held \cup coming, FreeUnits(regions), NodesOf(regions),
                 Range(stack))
    BY ConsistentFacts DEF IInv
  <2>2. held \cap coming = {} /\ (Idle => coming = {})
    BY DEF IInv, ComingInv, Idle
  <2> QED
    BY <2>1, <2>2 DEF OneOwner, Owned, Buffered
<1> QED
  BY <1>1, Invariance, PTL

\* Every variable keeps its type.
THEOREM TypeTheorem == Spec => []TypeOK
<1>1. IInv => TypeOK
  <2> SUFFICES ASSUME IInv PROVE TypeOK
    OBVIOUS
  <2>1. /\ SpaceInv
        /\ Consistent(space, regions, stack, held \cup coming, FreeUnits(regions))
        /\ regions \in ListType(space)
        /\ stack \in Seq(space)
        /\ held \subseteq space /\ coming \subseteq space
        /\ space \subseteq Units
    BY ConsistentFacts, SpaceFacts DEF IInv, Owned
  <2>2. regions \in Seq(RegionType(space, space))
    <3>1. ASSUME NEW j \in 1..Len(regions)
          PROVE  regions[j] \in RegionType(space, space)
      <4>1. regions[j] \in [node : space, start : Nat, size : Nat \ {0}]
        BY <2>1, ListTypeFacts
      <4>2. regions[j].start \in space /\ regions[j].size \in 1..SizeMax
        BY <2>1, RegionFacts
      <4> QED
        BY <4>1, <4>2 DEF RegionType
    <3> QED
      BY <2>1, <3>1, SeqByElements DEF ListType
  <2> QED
    BY <2>1, <2>2 DEF IInv, TypeOK
<1> QED
  BY <1>1, Invariance, PTL

\* PlacedFreeList implements the contract of an OffsetAligner: an answer names
\* free chunks only, at an address that is aligned as asked, and what the list
\* does to its own space, from the stack it refills out of itself to the
\* structures it frees into itself, takes nothing from its client.
THEOREM ContractTheorem == Spec => PlacedFreeListContract
<1>1. Init => Contract!Init
  BY DEF Init, Contract!Init, NoAnswer, Answered,
         Contract!NoAnswer, Contract!Answered
<1>2. IInv /\ [Next]_vars => [Contract!Next]_(Contract!vars)
  BY NextKept DEF Kept, ContractStep
<1> QED
  BY Invariance, <1>1, <1>2, PTL DEF Spec, PlacedFreeListContract, Contract!Spec
===============================================================================
