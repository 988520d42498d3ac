------------------------- MODULE XMLDocumentProofs -------------------------
(***************************************************************************)
(* Proofs about the parser: whatever it is fed, it leaves no node behind,  *)
(* accepts what is well formed, refuses nothing else, and builds the tree  *)
(* that the text describes.                                                *)
(*                                                                         *)
(* The elements that hang nowhere while it reads are those on its stack,   *)
(* which is what the proofs of the tree need to know of a parser in the    *)
(* middle of its work.  What they say of the pointers and of the counts is *)
(* of any heap, and is used here for the calls the parser makes.           *)
(***************************************************************************)
EXTENDS XMLTreeProofs, XMLDocument

\* The heap h while the elements of s wait for their end tags; sure is whether
\* the counts of untracked nodes can be trusted.
Reading(h, s, sure) ==
  /\ TreeInv(h) /\ Tallied(h, sure)
  /\ s \in Seq(Element) /\ Distinct(s)
  /\ Strays(h) = Items(s)

\* A new node besides, that hangs nowhere either and has nothing below it.
Fresh(g, s, x, sure) ==
  /\ TreeInv(g) /\ Tallied(g, sure)
  /\ s \in Seq(Element) /\ Distinct(s)
  /\ x \in Node /\ x \notin Items(s)
  /\ Strays(g) = Items(s) \union {x}
  /\ \A m \in Node : g.parent[m] # x

\* Where the next node goes.
Above(s) == IF s = <<>> THEN Doc ELSE Last(s)

(* A heap whose counts are right is no worse when less is claimed of them.  *)
LEMMA Unsure ==
  ASSUME NEW h, NEW sure, Tallied(h, sure)
  PROVE  Tallied(h, FALSE)
BY Zenon DEF Tallied, TrackedIf

(* What Identify makes: a new node, an element without attributes.         *)
LEMMA IdentifyMakes ==
  ASSUME NEW h, NEW s, NEW sure, Reading(h, s, sure), NEW p \in {"element", "leaf"}, CanAllocate(h, p)
  PROVE  /\ Fresh(NewNode(h, p), s, NewAddress(h, p), sure)
         /\ p = "element" => /\ NewAddress(h, p) \in Element
                             /\ NewNode(h, p).attr[NewAddress(h, p)] = <<>>
<1> DEFINE g == NewNode(h, p)
           x == NewAddress(h, p)
<1>1. TreeInv(h) /\ Tallied(h, sure) /\ s \in Seq(Element) /\ Distinct(s) /\ Strays(h) = Items(s)
  BY DEF Reading
<1>2. /\ TreeInv(g)
      /\ x \in Alive(g) \ Alive(h)
      /\ SamePointers(g, h)
      /\ PoolOf(x) = p
      /\ g.attr = h.attr
  BY <1>1, NewNodeKeeps
<1>3. Tallied(g, sure) /\ Strays(g) = Strays(h) \union {x}
  BY <1>1, NewNodeCounts
<1> HIDE DEF g, x
<1>4. x \in Node /\ x \notin Items(s)
  BY <1>1, <1>2 DEF Alive, Strays
<1>5. ASSUME NEW m \in Node PROVE g.parent[m] # x
  <2>1. m \in Parent /\ g.parent[m] = h.parent[m] /\ x # Null /\ x # Doc
    BY <1>2, <1>4, HeapAssumption DEF SamePointers, Parent
  <2> QED
    BY <1>1, <1>2, <2>1 DEF TreeInv, Sound, Housed
<1>6. ASSUME p = "element" PROVE x \in Element /\ g.attr[x] = <<>>
  <2>1. x \in Element
    BY <1>2, <1>6 DEF PoolOf
  <2> QED
    BY <1>1, <1>2, <2>1 DEF Tallied, Books
<1>7. Fresh(g, s, x, sure)
  BY <1>1, <1>2, <1>3, <1>4, <1>5 DEF Fresh
<1> QED
  BY <1>6, <1>7 DEF g, x

(* Nothing hangs below it, so that it may be hung on the level being read. *)
LEMMA FreshHangable ==
  ASSUME NEW g, NEW s, NEW x, NEW sure, Fresh(g, s, x, sure)
  PROVE  MayBeHung(g, Above(s), x)
<1> DEFINE p == Above(s)
<1>1. /\ s \in Seq(Element)
      /\ x \in Node /\ x \notin Items(s)
      /\ Strays(g) = Items(s) \union {x}
      /\ \A m \in Node : g.parent[m] # x
  BY DEF Fresh
<1>2. p = Doc \/ p \in Items(s)
  BY <1>1 DEF Above, Items, Last
<1>3. p \in Parent /\ p \in Alive(g) \union {Doc} /\ p # x /\ x \in Alive(g)
  BY <1>1, <1>2, HeapAssumption DEF Strays, Alive, Parent
<1> HIDE DEF p
<1>4. IsBelow({}, g, x)
  BY <1>1 DEF IsBelow
<1>5. MayBeHung(g, p, x)
  BY <1>3, <1>4 DEF MayBeHung
<1> QED
  BY <1>5 DEF p

(* It is used in one of three ways: hung at once,                          *)
LEMMA FreshHung ==
  ASSUME NEW g, NEW s, NEW x, NEW sure, Fresh(g, s, x, sure)
  PROVE  Reading(InsertEndChild(g, Above(s), x), s, sure)
<1> DEFINE p == Above(s)
           k == InsertEndChild(g, p, x)
<1>1. /\ TreeInv(g) /\ Tallied(g, sure)
      /\ s \in Seq(Element) /\ Distinct(s)
      /\ x \in Node /\ x \notin Items(s)
      /\ Strays(g) = Items(s) \union {x}
  BY DEF Fresh
<1>2. MayBeHung(g, p, x)
  BY FreshHangable
<1> HIDE DEF p
<1>3. TreeInv(k)
  BY <1>1, <1>2, InsertEndKeeps
<1>4. Tallied(k, sure) /\ Strays(k) = Strays(g) \ {x}
  BY <1>1, <1>2, InsertsCount
<1> HIDE DEF k
<1>5. Strays(k) = Items(s)
  BY <1>1, <1>4
<1> QED
  BY <1>1, <1>3, <1>4, <1>5 DEF Reading, p, k

(* put on the stack,                                                       *)
LEMMA FreshPushed ==
  ASSUME NEW g, NEW s, NEW x \in Element, NEW sure, Fresh(g, s, x, sure)
  PROVE  Reading(g, Append(s, x), sure)
<1>1. \A y \in Element : y \in Node
  BY DEF Node
<1>2. s \in Seq(Node) /\ s \in Seq(Element)
  BY <1>1 DEF Fresh
<1>3. Distinct(Append(s, x)) /\ Items(Append(s, x)) = Items(s) \union {x}
  BY <1>2, BehindAll DEF Fresh
<1>4. Append(s, x) \in Seq(Element)
  BY <1>2
<1> QED
  BY <1>3, <1>4 DEF Fresh, Reading

(* or deleted again, tracked before it is or not.                          *)
LEMMA FreshClosed ==
  ASSUME NEW g, NEW s, NEW x, NEW sure, Fresh(g, s, x, sure)
  PROVE  Reading(DeleteNode(Track(g, x), x), s, sure)
<1>1. /\ TreeInv(g) /\ Tallied(g, sure)
      /\ s \in Seq(Element) /\ Distinct(s)
      /\ x \in Node /\ x \notin Items(s)
      /\ Strays(g) = Items(s) \union {x}
  BY DEF Fresh
<1>2. x \in Alive(g) /\ g.parent[x] = Null
  BY <1>1 DEF Strays
<1>3. DeleteNode(Track(g, x), x) = DocDeleteNode(g, x)
  BY <1>2 DEF DocDeleteNode
<1> DEFINE k == DocDeleteNode(g, x)
<1>4. TreeInv(k)
  BY <1>1, <1>2, DocDeleteNodeKeeps DEF Deleted
<1>5. Tallied(k, sure) /\ Strays(k) = Strays(g) \ {x}
  BY <1>1, <1>2, DeleteNodeCounts
<1> HIDE DEF k
<1>6. Strays(k) = Items(s)
  BY <1>1, <1>5
<1> QED
  BY <1>1, <1>3, <1>4, <1>5, <1>6 DEF Reading, k

(* A node that hangs nowhere is deleted with all that hangs below it, and the *)
(* count of the untracked ones, where it was never tracked, is wrong from then *)
(* on (MemPoolT: Free decreases the current count alone).                  *)
LEMMA StrayDeleted ==
  ASSUME NEW h, TreeInv(h), NEW sure, Tallied(h, sure), NEW n \in Strays(h)
  PROVE  /\ TreeInv(DeleteNode(h, n))
         /\ Tallied(DeleteNode(h, n), FALSE)
         /\ Strays(DeleteNode(h, n)) = Strays(h) \ {n}
<1> DEFINE b == Below(h, n)
           s == Append(b, n)
<1>1. n \in Alive(h) /\ n \in Node /\ n \in Parent /\ h.parent[n] = Null
  BY DEF Strays, Alive, Parent
<1>2. Sound(h) /\ \A m \in Parent : m # n /\ h.parent[m] = Null => h.next[m] = Null
  BY DEF TreeInv, LooseEnds
<1>3. TreeInv(DeleteNode(h, n))
  BY <1>1, <1>2, DeleteNodeKeeps
<1>4. DeleteNode(h, n) = DestroyAll(h, s)
  BY DEF DeleteNode, PostOrder
<1>5. /\ b \in Seq(Node) /\ Distinct(b) /\ n \notin Items(b) /\ Items(b) \subseteq Alive(h)
      /\ \A m \in Node : m \in Items(b) <=> h.parent[m] \in Items(b) \union {n}
  BY <1>1, <1>2, BelowAlive
<1> HIDE DEF b
<1>6. s \in Seq(Node) /\ Distinct(s) /\ Items(s) = Items(b) \union {n}
  BY <1>1, <1>5, BehindAll
<1>7. \A m \in Items(b) : h.parent[m] # Null
  BY <1>1, <1>5, HeapAssumption DEF Alive, Parent
<1>8. Strays(h) \ Items(s) = Strays(h) \ {n}
  BY <1>6, <1>7 DEF Strays
<1> HIDE DEF s
<1>9. Items(s) \subseteq Alive(h)
  BY <1>1, <1>5, <1>6
<1>10. Books(h) /\ TrackedIf(FALSE, h, Strays(h) \ Items(s))
  BY Zenon DEF Tallied, TrackedIf
<1>11. Tallied(DestroyAll(h, s), FALSE) /\ Strays(DestroyAll(h, s)) = Strays(h) \ Items(s)
  BY <1>2, <1>6, <1>9, <1>10, PrunedCounts, Zenon
<1> QED
  BY <1>3, <1>4, <1>8, <1>11

LEMMA FreshDiscarded ==
  ASSUME NEW g, NEW s, NEW x, NEW sure, Fresh(g, s, x, sure)
  PROVE  Reading(DeleteNode(g, x), s, FALSE)
<1> DEFINE k == DeleteNode(g, x)
<1>1. /\ TreeInv(g) /\ Tallied(g, sure)
      /\ s \in Seq(Element) /\ Distinct(s) /\ x \notin Items(s)
      /\ Strays(g) = Items(s) \union {x}
  BY DEF Fresh
<1>2. x \in Strays(g)
  BY <1>1
<1>3. TreeInv(k) /\ Tallied(k, FALSE) /\ Strays(k) = Strays(g) \ {x}
  BY <1>1, <1>2, StrayDeleted, Zenon
<1> HIDE DEF k
<1>4. Strays(k) = Items(s)
  BY <1>1, <1>3
<1> QED
  BY <1>1, <1>3, <1>4, Zenon DEF Reading, k

(* The list without its last. *)
LEMMA FrontLast ==
  ASSUME NEW S, NEW s \in Seq(S), s # <<>>
  PROVE  /\ Front(s) \in Seq(S) /\ Len(Front(s)) = Len(s) - 1
         /\ Last(s) = s[Len(s)] /\ Last(s) \in S
         /\ \A i \in 1 .. Len(s) - 1 : Front(s)[i] = s[i]
<1>1. Len(s) \in Nat /\ Len(s) # 0
  BY EmptySeq
<1> DEFINE n == Len(s) - 1
           r == SubSeq(s, 1, n)
<1>2. n \in Int /\ 1 \in Int /\ \A i \in 1 .. n : i \in 1 .. Len(s) /\ s[i] \in S
  BY <1>1
<1>3. n \in Nat /\ Len(s) \in 1 .. Len(s)
  BY <1>1
<1> HIDE DEF n
<1>4. r \in Seq(S) /\ Len(r) = (IF 1 <= n THEN n - 1 + 1 ELSE 0) /\ \A i \in 1 .. n - 1 + 1 : r[i] = s[1 + i - 1]
  BY <1>2, SubSeqProperties
<1> HIDE DEF r
<1>5. Len(r) = n /\ \A i \in 1 .. n : r[i] = s[i]
  BY <1>3, <1>4
<1>6. Front(s) = r /\ Last(s) = s[Len(s)]
  BY DEF Front, Last, r, n
<1>7. s[Len(s)] \in S
  BY <1>3
<1> QED
  BY <1>4, <1>5, <1>6, <1>7 DEF n

LEMMA FrontItems ==
  ASSUME NEW S, NEW s \in Seq(S), s # <<>>, Distinct(s)
  PROVE  /\ Distinct(Front(s))
         /\ Last(s) \notin Items(Front(s))
         /\ Items(s) = Items(Front(s)) \union {Last(s)}
<1> DEFINE r == Front(s)
           n == Len(s)
<1>1. r \in Seq(S) /\ Len(r) = n - 1 /\ Last(s) = s[n] /\ \A i \in 1 .. n - 1 : r[i] = s[i]
  BY FrontLast
<1>2. n \in Nat /\ n # 0
  BY EmptySeq
<1> HIDE DEF r
<1>3. n \in 1 .. n /\ \A i : i \in 1 .. n <=> i \in 1 .. n - 1 \/ i = n
  BY <1>2
<1>4. \A i \in 1 .. n - 1 : i \in 1 .. n /\ i # n
  BY <1>2
<1>5. \A i, j \in 1 .. n : s[i] = s[j] => i = j
  BY DEF Distinct
<1> HIDE DEF n
<1>6. Distinct(r)
  BY <1>1, <1>4, <1>5 DEF Distinct
<1>7. Last(s) \notin Items(r)
  BY <1>1, <1>3, <1>4, <1>5 DEF Items
<1>8. Items(s) = {s[i] : i \in 1 .. n}
  BY DEF Items, n
<1>9. Items(s) = Items(r) \union {Last(s)}
  BY <1>1, <1>3, <1>8 DEF Items
<1> QED
  BY <1>6, <1>7, <1>9 DEF r

(* The element on top of the stack may be hung on the level above.         *)
LEMMA LastHangable ==
  ASSUME NEW h, NEW s, NEW sure, Reading(h, s, sure), s # <<>>
  PROVE  MayBeHung(h, Above(Front(s)), Last(s))
<1> DEFINE r == Front(s)
           n == Last(s)
           p == Above(r)
           S == Items(Below(h, n))
<1>1. TreeInv(h) /\ s \in Seq(Element) /\ Distinct(s) /\ Strays(h) = Items(s)
  BY DEF Reading
<1>2. r \in Seq(Element) /\ n \in Element
  BY <1>1, FrontLast
<1>3. Distinct(r) /\ n \notin Items(r) /\ Items(s) = Items(r) \union {n}
  BY <1>1, FrontItems
<1> HIDE DEF r, n
<1>4. p = Doc \/ p \in Items(r)
  BY <1>2 DEF Above, Items, Last
<1> HIDE DEF p
<1>5. /\ n \in Node /\ n \in Parent /\ n \in Alive(h) /\ p \in Parent /\ p \in Alive(h) \union {Doc} /\ p # n
      /\ p \notin Node \/ h.parent[p] = Null
  BY <1>1, <1>2, <1>3, <1>4, HeapAssumption DEF Strays, Alive, Parent, Node
<1>6. /\ Below(h, n) \in Seq(Node) /\ n \notin S
      /\ \A m \in Node : m \in S <=> h.parent[m] \in S \union {n}
  BY <1>1, <1>5, BelowAlive DEF TreeInv
<1>7. S \subseteq Node
  BY <1>6 DEF Items
<1> HIDE DEF S
<1>8. p \notin S
  BY <1>5, <1>6, <1>7, HeapAssumption
<1>9. MayBeHung(h, p, n)
  BY <1>5, <1>6, <1>7, <1>8 DEF MayBeHung, IsBelow
<1> QED
  BY <1>9 DEF p, r, n

(* An end tag hangs the element it closes on the level above.              *)
LEMMA HungAbove ==
  ASSUME NEW h, NEW s, NEW sure, Reading(h, s, sure), s # <<>>
  PROVE  Reading(InsertEndChild(h, Above(Front(s)), Last(s)), Front(s), sure)
<1> DEFINE r == Front(s)
           n == Last(s)
           p == Above(r)
           k == InsertEndChild(h, p, n)
<1>1. TreeInv(h) /\ Tallied(h, sure) /\ s \in Seq(Element) /\ Distinct(s) /\ Strays(h) = Items(s)
  BY DEF Reading
<1>2. r \in Seq(Element)
  BY <1>1, FrontLast
<1>3. Distinct(r) /\ n \notin Items(r) /\ Items(s) = Items(r) \union {n}
  BY <1>1, FrontItems
<1>4. MayBeHung(h, p, n)
  BY LastHangable
<1> HIDE DEF r, n, p
<1>5. TreeInv(k)
  BY <1>1, <1>4, InsertEndKeeps
<1>6. Tallied(k, sure) /\ Strays(k) = Strays(h) \ {n}
  BY <1>1, <1>4, InsertsCount
<1> HIDE DEF k
<1>7. Strays(k) = Items(r)
  BY <1>1, <1>3, <1>6
<1> QED
  BY <1>1, <1>2, <1>3, <1>5, <1>6, <1>7 DEF Reading, k, p, r, n

\* The attributes that are taken: those before the first that repeats another.
Taken(attrs) ==
  LET again == {i \in DOMAIN attrs : \E j \in 1 .. i-1 : attrs[j] = attrs[i]}
  IN IF again = {} THEN attrs ELSE SubSeq(attrs, 1, Min(again) - 1)

LEMMA TakenDistinct ==
  ASSUME NEW S, NEW attrs \in Seq(S)
  PROVE  Taken(attrs) \in Seq(S) /\ Distinct(Taken(attrs))
<1> DEFINE again == {i \in DOMAIN attrs : \E j \in 1 .. i-1 : attrs[j] = attrs[i]}
           n == Len(attrs)
<1>1. n \in Nat /\ DOMAIN attrs = 1 .. n /\ \A i \in 1 .. n : attrs[i] \in S
  OBVIOUS
<1>2. \A i \in 1 .. n : i \in again <=> \E j \in 1 .. i-1 : attrs[j] = attrs[i]
  BY <1>1
<1>3. again \in SUBSET Nat /\ \A i \in again : i \in 1 .. n
  BY <1>1
<1>4. Taken(attrs) = IF again = {} THEN attrs ELSE SubSeq(attrs, 1, Min(again) - 1)
  BY DEF Taken
<1> HIDE DEF again, n
<1>5. ASSUME NEW m \in 0 .. n, \A i \in 1 .. m : i \notin again,
             NEW t \in Seq(S), Len(t) = m, \A i \in 1 .. m : t[i] = attrs[i]
      PROVE  Distinct(t)
  <2> SUFFICES ASSUME NEW i \in 1 .. m, NEW j \in 1 .. m, t[i] = t[j], i < j PROVE FALSE
    <3>1. \A i, j \in 1 .. m : i < j \/ j < i \/ i = j
      BY <1>1
    <3> QED
      BY <1>5, <3>1 DEF Distinct
  <2>1. j \in 1 .. n /\ i \in 1 .. j-1 /\ attrs[i] = attrs[j]
    BY <1>1, <1>5
  <2> QED
    BY <1>2, <1>5, <2>1
<1>6. CASE again = {}
  <2>1. Len(attrs) = n /\ n \in 0 .. n
    BY <1>1 DEF n
  <2> QED
    BY <1>4, <1>5, <1>6, <2>1
<1>7. CASE again # {}
  <2> DEFINE m == Min(again) - 1
             t == SubSeq(attrs, 1, m)
  <2>1. PICK k \in again : \A l \in again : k <= l
    BY <1>3, <1>7, LeastOfNat
  <2>2. Min(again) \in again /\ \A l \in again : Min(again) <= l
    BY <2>1 DEF Min
  <2>3. Min(again) \in 1 .. n
    BY <1>3, <2>2
  <2>4. m \in 0 .. n /\ m \in Int /\ 1 \in Int /\ \A i \in 1 .. m : i \in 1 .. n /\ ~(Min(again) <= i)
    BY <1>1, <2>3
  <2>5. \A i \in 1 .. m : i \notin again /\ attrs[i] \in S
    BY <1>1, <2>2, <2>4
  <2>6. Taken(attrs) = t
    BY <1>4, <1>7
  <2> HIDE DEF m
  <2>7. t \in Seq(S) /\ Len(t) = (IF 1 <= m THEN m - 1 + 1 ELSE 0) /\ \A i \in 1 .. m - 1 + 1 : t[i] = attrs[1 + i - 1]
    BY <2>4, <2>5, SubSeqProperties
  <2> HIDE DEF t
  <2>8. Len(t) = m /\ \A i \in 1 .. m : t[i] = attrs[i]
    BY <2>4, <2>7
  <2>9. Distinct(t)
    BY <1>5, <2>4, <2>5, <2>7, <2>8
  <2> QED
    BY <2>6, <2>7, <2>9
<1> QED
  BY <1>6, <1>7

\* Of all elements, e alone has got a list of attributes, s.
GivenList(k, g, e, s) == \A x \in Element : k.attr[x] = IF x = e THEN s ELSE g.attr[x]

(* Reading attributes gives the new element a list of its own, in which none *)
(* is named twice, and moves nothing.                                      *)
LEMMA AttributesRead ==
  ASSUME NEW g, NEW s, NEW e \in Element, NEW sure, Fresh(g, s, e, sure), g.attr[e] = <<>>,
         NEW attrs \in Seq(Name)
  PROVE  LET k == ParseAttributes(g, e, attrs)
         IN /\ Fresh(k, s, e, sure) /\ Unmoved(k, g)
            /\ GivenList(k, g, e, Taken(attrs))
<1> DEFINE good == Taken(attrs)
           d == g.pool["attribute"].current + Len(good)
           k == ParseAttributes(g, e, attrs)
<1>1. TreeInv(g) /\ Tallied(g, sure) /\ e \in Alive(g) /\ g \in Heap
  BY DEF Fresh, Strays, TreeInv, Sound
<1>2. good \in Seq(Name) /\ Distinct(good)
  BY TakenDistinct
<1>3. k = [g EXCEPT !.attr[e] = @ \o good, !.pool["attribute"].current = @ + Len(good)]
  BY DEF ParseAttributes, Taken
<1> HIDE DEF good
<1>4. g.attr[e] \o good = good
  BY <1>2
<1>5. k = WithAttributes(g, e, good, d)
  BY <1>3, <1>4 DEF WithAttributes
<1>6. g.pool["attribute"].current \in Int
  BY FS_CardinalityType DEF Fresh, Tallied, Books
<1>7. d \in Int /\ d = g.pool["attribute"].current - Len(g.attr[e]) + Len(good)
  <2>1. Len(good) \in Nat /\ Len(g.attr[e]) = 0
    BY <1>2
  <2> QED
    BY <1>6, <2>1
<1> HIDE DEF d, k
<1>8. TreeInv(k) /\ SamePointers(k, g) /\ Unmoved(k, g) /\ k.attr = [g.attr EXCEPT ![e] = good]
  BY <1>1, <1>2, <1>5, <1>7, NewAttributes DEF Unmoved
<1>9. Tallied(k, sure) /\ Strays(k) = Strays(g)
  BY <1>1, <1>2, <1>5, <1>7, RelistedCounts
<1>10. Fresh(k, s, e, sure)
  BY <1>8, <1>9 DEF Fresh, SamePointers
<1>11. GivenList(k, g, e, good)
  BY <1>1, <1>8 DEF Heap, GivenList
<1> QED
  BY <1>8, <1>10, <1>11 DEF k, good

-----------------------------------------------------------------------------
(* The way back after an error. *)

\* g tells the heaps up to the k-th deletion.
Abandoning(g, h, s, k) ==
  \A i \in 0 .. k : g[i] = IF i = 0 THEN h ELSE DeleteNode(g[i - 1], s[Len(s) - i + 1])

WayBack(g, h, s) ==
  g = [i \in 0 .. Len(s) |-> IF i = 0 THEN h ELSE DeleteNode(g[i - 1], s[Len(s) - i + 1])]

(* There is a sequence of heaps that tells the way back through every level. *)
LEMMA SomeAbandoning ==
  ASSUME NEW h, NEW s \in Seq(Element)
  PROVE  \E f : WayBack(f, h, s)
<1> DEFINE n == Len(s)
           wrong == {k \in 0 .. n : ~ \E g : Abandoning(g, h, s, k)}
<1>1. n \in Nat
  OBVIOUS
<1> HIDE DEF n
<1>2. wrong = {}
  <2> SUFFICES ASSUME wrong # {} PROVE FALSE
    OBVIOUS
  <2>1. wrong \in SUBSET Nat
    OBVIOUS
  <2>2. PICK k \in wrong : \A l \in wrong : k <= l
    BY <2>1, LeastOfNat
  <2>3. k \in 0 .. n /\ ~ \E g : Abandoning(g, h, s, k)
    OBVIOUS
  <2>4. CASE k = 0
    <3> DEFINE g == [i \in {0} |-> h]
    <3>1. g[0] = h
      OBVIOUS
    <3> HIDE DEF g
    <3>2. Abandoning(g, h, s, 0)
      BY <3>1 DEF Abandoning
    <3> QED
      BY <2>3, <2>4, <3>2
  <2>5. CASE k # 0
    <3>1. k - 1 \in 0 .. n /\ ~(k <= k - 1)
      BY <1>1, <2>3, <2>5
    <3>2. k - 1 \notin wrong
      <4> HIDE DEF wrong
      <4> QED
        BY <2>2, <3>1
    <3>3. PICK g : Abandoning(g, h, s, k - 1)
      BY <3>1, <3>2
    <3> DEFINE x == DeleteNode(g[k - 1], s[Len(s) - k + 1])
               f == [i \in 0 .. k |-> IF i = k THEN x ELSE g[i]]
    <3> HIDE DEF x
    <3>4. f[k] = x /\ \A i \in 0 .. k - 1 : f[i] = g[i]
      BY <1>1, <2>3
    <3> HIDE DEF f
    <3>5. ASSUME NEW i \in 0 .. k
          PROVE  f[i] = IF i = 0 THEN h ELSE DeleteNode(f[i - 1], s[Len(s) - i + 1])
      <4>1. CASE i = k
        <5>1. f[k - 1] = g[k - 1]
          BY <1>1, <2>3, <2>5, <3>4
        <5> QED
          BY <2>5, <3>4, <4>1, <5>1 DEF x
      <4>2. CASE i # k
        <5>1. i \in 0 .. k - 1 /\ (i # 0 => i - 1 \in 0 .. k - 1)
          BY <1>1, <2>3, <4>2
        <5>2. f[i] = g[i] /\ (i # 0 => f[i - 1] = g[i - 1])
          BY <3>4, <5>1
        <5> QED
          BY <3>3, <5>1, <5>2 DEF Abandoning
      <4> QED
        BY <4>1, <4>2
    <3>6. Abandoning(f, h, s, k)
      BY <3>5 DEF Abandoning
    <3> QED
      BY <2>3, <3>6
  <2> QED
    BY <2>4, <2>5
<1>3. PICK g : Abandoning(g, h, s, n)
  <2>1. n \in 0 .. n
    BY <1>1
  <2> QED
    BY <1>2, <2>1
<1> DEFINE f == [i \in 0 .. n |-> g[i]]
<1>4. ASSUME NEW i \in 0 .. n
      PROVE  f[i] = IF i = 0 THEN h ELSE DeleteNode(f[i - 1], s[Len(s) - i + 1])
  <2>1. i # 0 => i - 1 \in 0 .. n
    BY <1>1
  <2>2. f[i] = g[i] /\ (i # 0 => f[i - 1] = g[i - 1])
    BY <2>1
  <2> HIDE DEF f
  <2> QED
    BY <1>3, <2>2 DEF Abandoning
<1>5. f = [i \in 0 .. n |-> f[i]]
  OBVIOUS
<1> HIDE DEF f
<1>6. f = [i \in 0 .. n |-> IF i = 0 THEN h ELSE DeleteNode(f[i - 1], s[Len(s) - i + 1])]
  BY <1>4, <1>5
<1> QED
  BY <1>6 DEF WayBack, n

(* On the way back every element on the stack is deleted, each while the ones *)
(* before it still hang nowhere: nothing is left that does.                *)
LEMMA Abandoned ==
  ASSUME NEW h, NEW s, Reading(h, s, FALSE)
  PROVE  Reading(Abandon(h, s), <<>>, FALSE)
<1> DEFINE n == Len(s)
           f == CHOOSE g : WayBack(g, h, s)
           left_of(k) == {s[i] : i \in 1 .. n - k}
           fine(k) == TreeInv(f[k]) /\ Tallied(f[k], FALSE) /\ Strays(f[k]) = left_of(k)
           wrong == {k \in 0 .. n : ~fine(k)}
<1>0. s \in Seq(Element) /\ Distinct(s) /\ TreeInv(h) /\ Tallied(h, FALSE) /\ Strays(h) = Items(s)
  BY DEF Reading
<1>1. Abandon(h, s) = f[n]
  BY DEF Abandon, WayBack
<1>2. f = [i \in 0 .. n |-> IF i = 0 THEN h ELSE DeleteNode(f[i - 1], s[n - i + 1])]
  <2>1. \E g : WayBack(g, h, s)
    BY <1>0, SomeAbandoning
  <2>2. WayBack(f, h, s)
    BY <2>1
  <2> HIDE DEF f
  <2> QED
    BY <2>2 DEF WayBack
<1> HIDE DEF f
<1>3. n \in Nat
  BY <1>0
<1>4. f[0] = h /\ \A i \in 1 .. n : f[i] = DeleteNode(f[i - 1], s[n - i + 1])
  <2> HIDE DEF n
  <2>1. 0 \in 0 .. n /\ \A i \in 1 .. n : i \in 0 .. n /\ i # 0
    BY <1>3
  <2> QED
    BY <1>2, <2>1
<1>5. left_of(0) = Items(s)
  BY <1>3 DEF Items
<1>6. \A i, j \in 1 .. n : s[i] = s[j] => i = j
  BY <1>0 DEF Distinct
<1> HIDE DEF n
<1>7. left_of(n) = {}
  BY <1>3
<1>8. wrong = {}
  <2> SUFFICES ASSUME wrong # {} PROVE FALSE
    OBVIOUS
  <2>1. wrong \in SUBSET Nat
    <3> HIDE DEF fine
    <3> QED
      BY <1>3
  <2>2. PICK k \in wrong : \A l \in wrong : k <= l
    BY <2>1, LeastOfNat
  <2>3. k \in 0 .. n /\ ~fine(k)
    OBVIOUS
  <2>4. CASE k = 0
    <3> HIDE DEF left_of
    <3> QED
      BY <1>0, <1>4, <1>5, <2>3, <2>4
  <2>5. CASE k # 0
    <3>1. k - 1 \in 0 .. n /\ ~(k <= k - 1) /\ k \in 1 .. n
      BY <1>3, <2>3, <2>5
    <3>2. k - 1 \notin wrong
      <4> HIDE DEF wrong
      <4> QED
        BY <2>2, <3>1
    <3>3. fine(k - 1)
      <4> HIDE DEF fine
      <4> QED
        BY <3>1, <3>2
    <3> DEFINE x == s[n - k + 1]
    <3>4. /\ n - k + 1 \in 1 .. n - (k - 1) /\ n - k + 1 \in 1 .. n
          /\ \A i : i \in 1 .. n - (k - 1) <=> i \in 1 .. n - k \/ i = n - k + 1
          /\ \A i \in 1 .. n - k : i \in 1 .. n /\ i # n - k + 1
      BY <1>3, <3>1
    <3>5. x \in left_of(k - 1)
      BY <3>4
    <3>6. left_of(k - 1) \ {x} = left_of(k)
      BY <1>6, <3>4
    <3> HIDE DEF x, left_of
    <3>7. /\ TreeInv(DeleteNode(f[k - 1], x))
          /\ Tallied(DeleteNode(f[k - 1], x), FALSE)
          /\ Strays(DeleteNode(f[k - 1], x)) = Strays(f[k - 1]) \ {x}
      <4>1. TreeInv(f[k - 1]) /\ Tallied(f[k - 1], FALSE) /\ x \in Strays(f[k - 1])
        BY <3>3, <3>5
      <4> HIDE DEF fine
      <4> QED
        BY <4>1, StrayDeleted, Zenon
    <3>8. f[k] = DeleteNode(f[k - 1], x)
      BY <1>4, <3>1 DEF x
    <3>9. Strays(f[k]) = left_of(k)
      BY <3>3, <3>6, <3>7, <3>8
    <3> QED
      BY <2>3, <3>7, <3>8, <3>9
  <2> QED
    BY <2>4, <2>5
<1>9. fine(n)
  <2>1. n \in 0 .. n
    BY <1>3
  <2> HIDE DEF fine
  <2> QED
    BY <1>8, <2>1
<1>10. <<>> \in Seq(Element)
  OBVIOUS
<1>11. Distinct(<<>>) /\ Items(<<>>) = {}
  BY DEF Distinct, Items
<1> HIDE DEF left_of
<1> QED
  BY <1>1, <1>7, <1>9, <1>10, <1>11, Zenon DEF Reading

-----------------------------------------------------------------------------
(* The parser. *)

Document ==
  [heap : Heap, value : [Node -> Tokens \union {Null}], stack : Seq(Element),
   error : Error, parsing : BOOLEAN]

\* A document whose stray elements are those on its stack.
Steady(d, sure) == d \in Document /\ Reading(d.heap, d.stack, sure)

\* Between two calls, and in the middle of one, no error stands but the one it
\* ended with, on the way from which the stack was emptied.
Outcome(d, sure) ==
  \/ d.error = "SUCCESS" /\ Steady(d, sure) /\ (d.parsing \/ d.stack = <<>>)
  \/ d.error # "SUCCESS" /\ Steady(d, FALSE) /\ ~d.parsing /\ d.stack = <<>>

(* What is claimed with less certainty is claimed still.                   *)
LEMMA Weaker ==
  ASSUME NEW h, NEW s, NEW a, NEW b, Reading(h, s, a), b => a
  PROVE  Reading(h, s, b)
BY Zenon DEF Reading, Tallied, TrackedIf

(* Other parts of a document. *)
LEMMA NewHeap ==
  ASSUME NEW d \in Document, NEW h \in Heap
  PROVE  LET r == [d EXCEPT !.heap = h]
         IN /\ r \in Document /\ r.heap = h /\ r.stack = d.stack
            /\ r.error = d.error /\ r.parsing = d.parsing /\ r.value = d.value
BY DEF Document

LEMMA NewStack ==
  ASSUME NEW d \in Document, NEW s \in Seq(Element)
  PROVE  LET r == [d EXCEPT !.stack = s]
         IN /\ r \in Document /\ r.heap = d.heap /\ r.stack = s
            /\ r.error = d.error /\ r.parsing = d.parsing /\ r.value = d.value
BY DEF Document

(* After an error the way back leaves no element behind.                   *)
LEMMA FailKeeps ==
  ASSUME NEW d \in Document, Reading(d.heap, d.stack, FALSE), NEW e \in Error \ {"SUCCESS"}, NEW sure
  PROVE  Outcome(Fail(d, e), sure)
<1> DEFINE h == Abandon(d.heap, d.stack)
           r == Fail(d, e)
<1>1. Reading(h, <<>>, FALSE)
  BY Abandoned
<1>2. r = [d EXCEPT !.heap = h, !.stack = <<>>, !.error = e, !.parsing = FALSE]
  BY DEF Fail
<1>3. h \in Heap /\ <<>> \in Seq(Element)
  BY <1>1 DEF Reading, TreeInv, Sound
<1> HIDE DEF h, r
<1>4. r \in Document /\ r.heap = h /\ r.stack = <<>> /\ r.error = e /\ r.parsing = FALSE
  BY <1>2, <1>3 DEF Document
<1>5. Steady(r, FALSE)
  BY <1>1, <1>4, Zenon DEF Steady
<1>6. r.error # "SUCCESS" /\ ~r.parsing /\ r.stack = <<>>
  BY <1>4
<1>7. Outcome(r, sure)
  BY <1>5, <1>6, Zenon DEF Outcome
<1> QED
  BY <1>7 DEF r

(* A new node is hung on the level being read.                             *)
LEMMA HangKeeps ==
  ASSUME NEW d \in Document, NEW n, NEW sure, Fresh(d.heap, d.stack, n, sure),
         d.error = "SUCCESS", d.parsing
  PROVE  Outcome(Hang(d, n), sure)
<1> DEFINE h == InsertEndChild(d.heap, Above(d.stack), n)
           r == Hang(d, n)
<1>1. Reading(h, d.stack, sure)
  BY FreshHung
<1>2. r = [d EXCEPT !.heap = h]
  BY DEF Hang, Level, Above
<1>3. h \in Heap
  BY <1>1 DEF Reading, TreeInv, Sound
<1> HIDE DEF h, r
<1>4. r \in Document /\ r.heap = h /\ r.stack = d.stack /\ r.error = "SUCCESS" /\ r.parsing
  BY <1>2, <1>3, NewHeap
<1>5. Steady(r, sure)
  BY <1>1, <1>4, Zenon DEF Steady
<1>6. Outcome(r, sure)
  BY <1>4, <1>5, Zenon DEF Outcome
<1> QED
  BY <1>6 DEF r

(* A new node with what was read for it.                                   *)
LEMMA IdentifyKeeps ==
  ASSUME NEW d, NEW sure, Steady(d, sure), NEW p \in {"element", "leaf"}, CanAllocate(d.heap, p),
         NEW tok \in Tokens
  PROVE  LET r == Identify(d, p, tok)
         IN /\ r \in Document
            /\ r.heap = NewNode(d.heap, p) /\ r.stack = d.stack
            /\ r.error = d.error /\ r.parsing = d.parsing
            /\ r.value = [d.value EXCEPT ![NewAddress(d.heap, p)] = tok]
            /\ Fresh(r.heap, r.stack, NewAddress(d.heap, p), sure)
<1> DEFINE h == NewNode(d.heap, p)
           x == NewAddress(d.heap, p)
           v == [d.value EXCEPT ![x] = tok]
           r == Identify(d, p, tok)
<1>1. d \in Document /\ Reading(d.heap, d.stack, sure)
  BY DEF Steady
<1>2. Fresh(h, d.stack, x, sure)
  BY <1>1, IdentifyMakes
<1>3. r = [d EXCEPT !.heap = h, !.value = v]
  BY <1>1 DEF Identify, Document
<1>4. h \in Heap /\ x \in Node
  BY <1>2 DEF Fresh, TreeInv, Sound
<1>5. v \in [Node -> Tokens \union {Null}]
  BY <1>1, <1>4 DEF Document
<1> HIDE DEF h, x, v, r
<1>6. /\ r \in Document /\ r.heap = h /\ r.stack = d.stack /\ r.value = v
      /\ r.error = d.error /\ r.parsing = d.parsing
  BY <1>1, <1>3, <1>4, <1>5 DEF Document
<1>7. Fresh(r.heap, r.stack, x, sure)
  BY <1>2, <1>6
<1> QED
  BY <1>6, <1>7 DEF r, h, v, x

(* A new node that turned out wrong is deleted, and the call fails.        *)
LEMMA RejectKeeps ==
  ASSUME NEW d \in Document, NEW n, NEW sure, Fresh(d.heap, d.stack, n, sure),
         NEW e \in Error \ {"SUCCESS"}
  PROVE  Outcome(Fail(Discard(d, n), e), sure)
<1> DEFINE h == DeleteNode(d.heap, n)
           r == Discard(d, n)
<1>1. Reading(h, d.stack, FALSE)
  BY FreshDiscarded
<1>2. r = [d EXCEPT !.heap = h]
  BY DEF Discard
<1>3. h \in Heap
  BY <1>1 DEF Reading, TreeInv, Sound
<1> HIDE DEF h, r
<1>4. r \in Document /\ r.heap = h /\ r.stack = d.stack
  BY <1>2, <1>3, NewHeap
<1>5. Reading(r.heap, r.stack, FALSE)
  BY <1>1, <1>4
<1>6. Outcome(Fail(r, e), sure)
  BY <1>4, <1>5, FailKeeps
<1> QED
  BY <1>6 DEF r

(* A text, a CDATA section, a comment, a declaration or an unknown.        *)
LEMMA TakeLeafKeeps ==
  ASSUME NEW d, NEW sure, Steady(d, sure), d.error = "SUCCESS", d.parsing,
         NEW tok \in Tokens, tok.k # "tag", CanAllocate(d.heap, "leaf"), NEW last
  PROVE  Outcome(TakeLeaf(d, tok, last), sure)
<1> DEFINE n == NewAddress(d.heap, "leaf")
           g == Identify(d, "leaf", tok)
<1>1. /\ g \in Document /\ Fresh(g.heap, g.stack, n, sure)
      /\ g.error = "SUCCESS" /\ g.parsing
  BY IdentifyKeeps
<1>2. LeafError(tok.k) \in Error \ {"SUCCESS"}
  BY InputAssumption DEF IsToken, LeafError, Error
<1>3. TakeLeaf(d, tok, last) \in {Fail(Discard(g, n), LeafError(tok.k)), Hang(g, n)}
  BY Zenon DEF TakeLeaf
<1> HIDE DEF n, g
<1>4. Outcome(Fail(Discard(g, n), LeafError(tok.k)), sure)
  BY <1>1, <1>2, RejectKeeps
<1>5. Outcome(Hang(g, n), sure)
  BY <1>1, HangKeeps
<1> QED
  BY <1>3, <1>4, <1>5, Zenon

(* An end tag: its own element is deleted, and the one it closes is hung.   *)
LEMMA CloseKeeps ==
  ASSUME NEW d \in Document, NEW e, NEW sure, Fresh(d.heap, d.stack, e, sure),
         d.error = "SUCCESS", d.parsing, NEW tok
  PROVE  Outcome(Close(d, tok, e), sure)
<1> DEFINE h == DeleteNode(Track(d.heap, e), e)
           g == [d EXCEPT !.heap = h]
           up == [g EXCEPT !.stack = Front(@)]
           matches == g.value[Level(g)].name = tok.name
<1>1. Reading(h, d.stack, sure)
  BY FreshClosed
<1>2. h \in Heap
  BY <1>1 DEF Reading, TreeInv, Sound
<1>3. /\ g.stack = <<>> => Close(d, tok, e) = [g EXCEPT !.parsing = FALSE]
      /\ g.stack # <<>> /\ matches => Close(d, tok, e) = Hang(up, Level(g))
      /\ g.stack # <<>> /\ ~matches => Close(d, tok, e) = Fail(g, "MISMATCHED_ELEMENT")
  BY Zenon DEF Close
<1> HIDE DEF h, matches
<1>4. g \in Document /\ g.heap = h /\ g.stack = d.stack /\ g.error = "SUCCESS" /\ g.parsing
  BY <1>2, NewHeap
<1> HIDE DEF g
<1>5. Reading(g.heap, g.stack, sure)
  BY <1>1, <1>4
<1>6. CASE g.stack = <<>>
  <2> DEFINE r == [g EXCEPT !.parsing = FALSE]
  <2>1. r \in Document /\ r.heap = g.heap /\ r.stack = g.stack /\ r.error = "SUCCESS"
    BY <1>4 DEF Document
  <2> HIDE DEF r
  <2>2. Steady(r, sure)
    BY <1>5, <2>1, Zenon DEF Steady
  <2>3. Outcome(r, sure)
    BY <1>6, <2>1, <2>2, Zenon DEF Outcome
  <2> QED
    BY <1>3, <1>6, <2>3 DEF r
<1>7. CASE g.stack # <<>> /\ matches
  <2> DEFINE s == Front(g.stack)
             k == InsertEndChild(g.heap, Above(s), Last(g.stack))
             r == Hang(up, Level(g))
  <2>1. Reading(k, s, sure)
    BY <1>5, <1>7, HungAbove
  <2>2. s \in Seq(Element) /\ k \in Heap
    BY <2>1 DEF Reading, TreeInv, Sound
  <2>3. up = [g EXCEPT !.stack = s]
    BY <1>4 DEF Document
  <2> HIDE DEF s, up
  <2>4. up \in Document /\ up.heap = g.heap /\ up.stack = s /\ up.error = "SUCCESS" /\ up.parsing
    BY <1>4, <2>2, <2>3, NewStack
  <2>5. Level(g) = Last(g.stack) /\ Level(up) = Above(s)
    BY <1>7, <2>4 DEF Level, Above
  <2>6. r = [up EXCEPT !.heap = k]
    BY <2>4, <2>5 DEF Hang
  <2> HIDE DEF k, r
  <2>7. r \in Document /\ r.heap = k /\ r.stack = s /\ r.error = "SUCCESS" /\ r.parsing
    BY <2>2, <2>4, <2>6, NewHeap
  <2>8. Steady(r, sure)
    BY <2>1, <2>7, Zenon DEF Steady
  <2>9. Outcome(r, sure)
    BY <2>7, <2>8, Zenon DEF Outcome
  <2> QED
    BY <1>3, <1>7, <2>9 DEF r
<1>8. CASE g.stack # <<>> /\ ~matches
  <2>1. Reading(g.heap, g.stack, FALSE)
    BY <1>5, Weaker, Zenon
  <2>2. "MISMATCHED_ELEMENT" \in Error \ {"SUCCESS"}
    BY DEF Error
  <2>3. Outcome(Fail(g, "MISMATCHED_ELEMENT"), sure)
    BY <1>4, <2>1, <2>2, FailKeeps
  <2> QED
    BY <1>3, <1>8, <2>3
<1> QED
  BY <1>6, <1>7, <1>8

(* A tag. *)
LEMMA TakeTagKeeps ==
  ASSUME NEW d, NEW sure, Steady(d, sure), d.error = "SUCCESS", d.parsing,
         NEW tok \in Tokens, tok.k = "tag", CanAllocate(d.heap, "element"), NEW last
  PROVE  Outcome(TakeTag(d, tok, last), sure)
<1> DEFINE e == NewAddress(d.heap, "element")
           i == Identify(d, "element", tok)
           h == ParseAttributes(i.heap, e, tok.attrs)
           g == [i EXCEPT !.heap = h]
           err == AttributeError(tok)
           pushed == [g EXCEPT !.stack = Append(@, e)]
<1>1. /\ i \in Document /\ i.heap = NewNode(d.heap, "element") /\ i.stack = d.stack
      /\ i.error = "SUCCESS" /\ i.parsing
      /\ Fresh(i.heap, i.stack, e, sure)
  BY IdentifyKeeps
<1>2. e \in Element /\ i.heap.attr[e] = <<>>
  BY <1>1, IdentifyMakes DEF Steady
<1>3. tok.attrs \in Seq(Name)
  BY InputAssumption DEF IsToken
<1>4. \/ err # "SUCCESS" /\ TakeTag(d, tok, last) = Fail(Discard(g, e), err)
      \/ TakeTag(d, tok, last) = Hang(g, e)
      \/ TakeTag(d, tok, last) = Close(g, tok, e)
      \/ TakeTag(d, tok, last) = Fail(Discard(g, e), "MISMATCHED_ELEMENT")
      \/ TakeTag(d, tok, last) = pushed
  BY Zenon DEF TakeTag
<1>5. err # "SUCCESS" => err \in Error \ {"SUCCESS"}
  BY DEF AttributeError, Error
<1> HIDE DEF e, i, err
<1>6. Fresh(h, i.stack, e, sure)
  BY <1>1, <1>2, <1>3, AttributesRead
<1>7. h \in Heap
  BY <1>6 DEF Fresh, TreeInv, Sound
<1> HIDE DEF h
<1>8. g \in Document /\ g.heap = h /\ g.stack = i.stack /\ g.error = "SUCCESS" /\ g.parsing
  BY <1>1, <1>7, NewHeap
<1> HIDE DEF g
<1>9. Fresh(g.heap, g.stack, e, sure)
  BY <1>6, <1>8
<1>10. CASE err # "SUCCESS" /\ TakeTag(d, tok, last) = Fail(Discard(g, e), err)
  BY <1>5, <1>8, <1>9, <1>10, RejectKeeps
<1>11. CASE TakeTag(d, tok, last) = Hang(g, e)
  BY <1>8, <1>9, <1>11, HangKeeps
<1>12. CASE TakeTag(d, tok, last) = Close(g, tok, e)
  BY <1>8, <1>9, <1>12, CloseKeeps
<1>13. CASE TakeTag(d, tok, last) = Fail(Discard(g, e), "MISMATCHED_ELEMENT")
  <2>1. "MISMATCHED_ELEMENT" \in Error \ {"SUCCESS"}
    BY DEF Error
  <2> QED
    BY <1>8, <1>9, <1>13, <2>1, RejectKeeps
<1>14. CASE TakeTag(d, tok, last) = pushed
  <2> DEFINE s == Append(g.stack, e)
  <2>1. Reading(g.heap, s, sure)
    BY <1>2, <1>9, FreshPushed
  <2>2. pushed = [g EXCEPT !.stack = s]
    BY <1>8 DEF Document
  <2>3. s \in Seq(Element)
    BY <2>1 DEF Reading
  <2> HIDE DEF s, pushed
  <2>4. /\ pushed \in Document /\ pushed.heap = g.heap /\ pushed.stack = s
        /\ pushed.error = "SUCCESS" /\ pushed.parsing
    BY <1>8, <2>2, <2>3, NewStack
  <2>5. Steady(pushed, sure)
    BY <2>1, <2>4, Zenon DEF Steady
  <2>6. Outcome(pushed, sure)
    BY <2>4, <2>5, Zenon DEF Outcome
  <2> QED
    BY <1>14, <2>6, Zenon
<1> QED
  BY <1>4, <1>10, <1>11, <1>12, <1>13, <1>14, Zenon

(* Dropping the values of what is not in use changes neither pointer nor count. *)
LEMMA Forgotten ==
  ASSUME NEW d \in Document
  PROVE  LET r == Forget(d)
         IN /\ r \in Document /\ r.heap = d.heap /\ r.stack = d.stack
            /\ r.error = d.error /\ r.parsing = d.parsing
<1> DEFINE v == [n \in Node |-> IF n \in Alive(d.heap) THEN d.value[n] ELSE Null]
<1>1. Forget(d) = [d EXCEPT !.value = v]
  BY DEF Forget
<1>2. \A n \in Node : d.value[n] \in Tokens \union {Null}
  BY DEF Document
<1>3. v \in [Node -> Tokens \union {Null}]
  BY <1>2
<1> HIDE DEF v
<1> QED
  BY <1>1, <1>3 DEF Document

(* The end of the input. *)
LEMMA AtEndKeeps ==
  ASSUME NEW d, NEW sure, Outcome(d, sure), d.parsing
  PROVE  Outcome(AtEnd(d), sure)
<1>1. d.error = "SUCCESS" /\ Steady(d, sure)
  BY Zenon DEF Outcome
<1>2. d \in Document /\ Reading(d.heap, d.stack, sure)
  BY <1>1 DEF Steady
<1>3. CASE d.stack = <<>>
  <2> DEFINE r == [d EXCEPT !.parsing = FALSE]
  <2>1. r \in Document /\ r.heap = d.heap /\ r.stack = d.stack /\ r.error = "SUCCESS"
    BY <1>1, <1>2 DEF Document
  <2>2. AtEnd(d) = r
    BY <1>3 DEF AtEnd
  <2> HIDE DEF r
  <2>3. Steady(r, sure)
    BY <1>2, <2>1, Zenon DEF Steady
  <2>4. Outcome(r, sure)
    BY <1>3, <2>1, <2>3, Zenon DEF Outcome
  <2> QED
    BY <2>2, <2>4
<1>4. CASE d.stack # <<>>
  <2>1. Reading(d.heap, d.stack, FALSE)
    BY <1>2, Weaker, Zenon
  <2>2. "PARSING" \in Error \ {"SUCCESS"}
    BY DEF Error
  <2>3. Outcome(Fail(d, "PARSING"), sure)
    BY <1>2, <2>1, <2>2, FailKeeps
  <2> QED
    BY <1>4, <2>3 DEF AtEnd
<1> QED
  BY <1>3, <1>4

(* One token, and the end behind it if it is the last.                     *)
LEMMA FeedKeeps ==
  ASSUME NEW d, NEW sure, Steady(d, sure), d.error = "SUCCESS", d.parsing,
         NEW tok \in Tokens, CanAllocate(d.heap, PoolFor(tok)), NEW last
  PROVE  Outcome(Feed(d, tok, last), sure)
<1> DEFINE g == Take(d, tok, last)
           r == IF last /\ g.parsing THEN AtEnd(g) ELSE g
<1>1. Outcome(g, sure)
  <2>1. CASE tok.k = "tag"
    <3>1. CanAllocate(d.heap, "element")
      BY <2>1 DEF PoolFor
    <3>2. g = TakeTag(d, tok, last)
      BY <2>1 DEF Take
    <3> QED
      BY <2>1, <3>1, <3>2, TakeTagKeeps
  <2>2. CASE tok.k # "tag"
    <3>1. CanAllocate(d.heap, "leaf")
      BY <2>2 DEF PoolFor
    <3>2. g = TakeLeaf(d, tok, last)
      BY <2>2 DEF Take
    <3> QED
      BY <2>2, <3>1, <3>2, TakeLeafKeeps
  <2> QED
    BY <2>1, <2>2
<1>2. Feed(d, tok, last) = Forget(r)
  BY DEF Feed
<1> HIDE DEF g
<1>3. Outcome(r, sure)
  BY <1>1, AtEndKeeps, Zenon
<1> HIDE DEF r
<1>4. r \in Document
  BY <1>3, Zenon DEF Outcome, Steady
<1> DEFINE f == Forget(r)
<1>5. /\ f \in Document /\ f.heap = r.heap /\ f.stack = r.stack
      /\ f.error = r.error /\ f.parsing = r.parsing
  BY <1>4, Forgotten
<1> HIDE DEF f
<1>6. \A b : Steady(r, b) => Steady(f, b)
  BY <1>5, Zenon DEF Steady
<1>7. Outcome(f, sure)
  BY <1>3, <1>5, <1>6, Zenon DEF Outcome
<1> QED
  BY <1>2, <1>7 DEF f

(* XMLDocument::Clear, and the pools emptied.                              *)
LEMMA ClearKeeps ==
  ASSUME NEW d, NEW sure, Steady(d, sure)
  PROVE  LET r == ClearDocument(d)
         IN Steady(r, sure) /\ r.error = "SUCCESS" /\ r.stack = d.stack /\ r.parsing = d.parsing
<1> DEFINE h == DeleteChildren(d.heap, Doc)
           g == [d EXCEPT !.heap = h, !.error = "SUCCESS"]
           r == Forget(g)
<1>1. d \in Document /\ Reading(d.heap, d.stack, sure)
  BY DEF Steady
<1>2. /\ TreeInv(d.heap) /\ Tallied(d.heap, sure) /\ Strays(d.heap) = Items(d.stack)
      /\ d.stack \in Seq(Element) /\ Distinct(d.stack)
  BY <1>1 DEF Reading
<1>3. Doc \in Parent
  BY DEF Parent
<1>4. TreeInv(h) /\ Tallied(h, sure) /\ Strays(h) = Strays(d.heap)
  BY <1>2, <1>3, DeleteChildrenKeeps, DeleteChildrenCounts
<1>5. ClearDocument(d) = r
  BY DEF ClearDocument
<1> HIDE DEF h
<1>6. Reading(h, d.stack, sure) /\ h \in Heap
  BY <1>2, <1>4 DEF Reading, TreeInv, Sound
<1>7. g \in Document /\ g.heap = h /\ g.stack = d.stack /\ g.error = "SUCCESS" /\ g.parsing = d.parsing
  BY <1>1, <1>6 DEF Document, Error
<1> HIDE DEF g
<1>8. r \in Document /\ r.heap = h /\ r.stack = d.stack /\ r.error = "SUCCESS" /\ r.parsing = d.parsing
  BY <1>7, Forgotten
<1> HIDE DEF r
<1>9. Steady(r, sure)
  BY <1>6, <1>8, Zenon DEF Steady
<1> QED
  BY <1>5, <1>8, <1>9

LEMMA EmptyReading == Reading(EmptyHeap, <<>>, TRUE)
<1>1. Strays(EmptyHeap) = {}
  BY NothingYet DEF Strays
<1>2. <<>> \in Seq(Element) /\ Distinct(<<>>) /\ Items(<<>>) = {}
  BY DEF Distinct, Items
<1>3. TreeInv(EmptyHeap) /\ Tallied(EmptyHeap, TRUE)
  BY TreeInit, CountedInit, Zenon DEF Booked
<1> QED
  BY <1>1, <1>2, <1>3, Zenon DEF Reading

LEMMA ClearPoolsKeeps ==
  ASSUME NEW d \in Document, d.stack = <<>>
  PROVE  LET r == ClearPools(d)
         IN Steady(r, TRUE) /\ r.error = d.error /\ r.stack = <<>> /\ r.parsing = d.parsing
<1> DEFINE g == [d EXCEPT !.heap = EmptyHeap]
           r == Forget(g)
<1>1. EmptyHeap \in Heap
  BY TreeInit DEF TreeInv, Sound
<1>2. g \in Document /\ g.heap = EmptyHeap /\ g.stack = <<>> /\ g.error = d.error /\ g.parsing = d.parsing
  BY <1>1, NewHeap
<1>3. ClearPools(d) = r
  BY DEF ClearPools
<1> HIDE DEF g
<1>4. r \in Document /\ r.heap = EmptyHeap /\ r.stack = <<>> /\ r.error = d.error /\ r.parsing = d.parsing
  BY <1>2, Forgotten
<1> HIDE DEF r
<1>5. Steady(r, TRUE)
  BY <1>4, EmptyReading, Zenon DEF Steady
<1> QED
  BY <1>3, <1>4, <1>5

-----------------------------------------------------------------------------
(* What the text says, token by token. *)

\* How a token changes the depth.
Step(tok) == IF Opens(tok) THEN 1 ELSE IF Closes(tok) THEN -1 ELSE 0

(* One item more is counted or not. *)
LEMMA OneItemMore ==
  ASSUME NEW i \in Nat, NEW A \in SUBSET (1 .. i), NEW B, NEW c \in BOOLEAN,
         B = IF c THEN A \union {i + 1} ELSE A
  PROVE  /\ Cardinality(A) \in Nat
         /\ Cardinality(B) = Cardinality(A) + IF c THEN 1 ELSE 0
<1>1. IsFiniteSet(1 .. i)
  BY FS_Interval
<1>2. IsFiniteSet(A)
  BY <1>1, FS_Subset
<1>3. Cardinality(A) \in Nat
  BY <1>2, FS_CardinalityType
<1>4. i + 1 \notin A
  OBVIOUS
<1>5. Cardinality(A \union {i + 1}) = Cardinality(A) + 1
  BY <1>2, <1>4, FS_AddElement
<1>6. CASE c
  BY <1>3, <1>5, <1>6
<1>7. CASE ~c
  BY <1>3, <1>7
<1> QED
  BY <1>6, <1>7

(* The depth after none of the tokens, and after one more. *)
LEMMA DepthNil == \A toks : Depth(toks, 0) = 0
<1>1. \A toks : {j \in 1 .. 0 : Opens(toks[j])} = {} /\ {j \in 1 .. 0 : Closes(toks[j])} = {}
  OBVIOUS
<1> QED
  BY <1>1, FS_EmptySet DEF Depth

LEMMA DepthNext ==
  ASSUME NEW toks, NEW i \in Nat
  PROVE  Depth(toks, i) \in Int /\ Depth(toks, i + 1) = Depth(toks, i) + Step(toks[i + 1])
<1> DEFINE O(n) == {j \in 1 .. n : Opens(toks[j])}
           C(n) == {j \in 1 .. n : Closes(toks[j])}
           o == Opens(toks[i + 1])
           c == Closes(toks[i + 1])
<1>1. \A j : j \in 1 .. i + 1 <=> j \in 1 .. i \/ j = i + 1
  OBVIOUS
<1>2. O(i) \in SUBSET (1 .. i) /\ C(i) \in SUBSET (1 .. i)
  OBVIOUS
<1>3. /\ O(i + 1) = IF o THEN O(i) \union {i + 1} ELSE O(i)
      /\ C(i + 1) = IF c THEN C(i) \union {i + 1} ELSE C(i)
  BY <1>1
<1>4. o \in BOOLEAN /\ c \in BOOLEAN /\ ~(o /\ c)
  BY DEF Opens, Closes
<1>5. /\ Depth(toks, i) = Cardinality(O(i)) - Cardinality(C(i))
      /\ Depth(toks, i + 1) = Cardinality(O(i + 1)) - Cardinality(C(i + 1))
  BY DEF Depth
<1>6. Step(toks[i + 1]) = IF o THEN 1 ELSE IF c THEN -1 ELSE 0
  BY DEF Step
<1> HIDE DEF O, C, o, c
<1>7. /\ Cardinality(O(i)) \in Nat
      /\ Cardinality(O(i + 1)) = Cardinality(O(i)) + IF o THEN 1 ELSE 0
  BY <1>2, <1>3, <1>4, OneItemMore
<1>8. /\ Cardinality(C(i)) \in Nat
      /\ Cardinality(C(i + 1)) = Cardinality(C(i)) + IF c THEN 1 ELSE 0
  BY <1>2, <1>3, <1>4, OneItemMore
<1> QED
  BY <1>4, <1>5, <1>6, <1>7, <1>8

\* u is a text and one token more.
Longer(u, toks, tok) ==
  /\ u \in Seq(Tokens) /\ Len(u) = Len(toks) + 1
  /\ u[Len(toks) + 1] = tok /\ \A i \in 1 .. Len(toks) : u[i] = toks[i]

(* Depths do not change when the text grows. *)
LEMMA Deeper ==
  ASSUME NEW toks \in Seq(Tokens), NEW tok \in Tokens, NEW u, Longer(u, toks, tok)
  PROVE  /\ \A i \in 0 .. Len(toks) : Depth(toks, i) \in Int /\ Depth(u, i) = Depth(toks, i)
         /\ Depth(u, Len(toks) + 1) = Depth(toks, Len(toks)) + Step(tok)
<1> DEFINE m == Len(toks)
<1>1. m \in Nat
  OBVIOUS
<1> HIDE DEF m
<1>2. u[m + 1] = tok /\ \A i \in 1 .. m : u[i] = toks[i]
  BY DEF Longer, m
<1>3. ASSUME NEW i \in 0 .. m PROVE Depth(toks, i) \in Int /\ Depth(u, i) = Depth(toks, i)
  <2>1. \A j \in 1 .. i : u[j] = toks[j]
    BY <1>1, <1>2
  <2>2. {j \in 1 .. i : Opens(u[j])} = {j \in 1 .. i : Opens(toks[j])}
    BY <2>1
  <2>3. {j \in 1 .. i : Closes(u[j])} = {j \in 1 .. i : Closes(toks[j])}
    BY <2>1
  <2>4. Depth(u, i) = Depth(toks, i)
    BY <2>2, <2>3 DEF Depth
  <2>5. Depth(toks, i) \in Int
    BY <1>1, DepthNext
  <2> QED
    BY <2>4, <2>5
<1>4. Depth(u, m + 1) = Depth(u, m) + Step(u[m + 1])
  BY <1>1, DepthNext
<1> QED
  BY <1>1, <1>2, <1>3, <1>4 DEF m

\* What Faultless asks of the i-th token.
Right(toks, i) ==
  /\ WholeToken(toks[i])
  /\ Closes(toks[i]) =>
       \E j \in 1 .. i-1 : LastOpened(toks, i-1, Depth(toks, i), j) /\ toks[j].name = toks[i].name
  /\ toks[i].k = "decl" => \A j \in 1 .. i-1 : Depth(toks, j) > 0

(* A text without a fault stays so if the next token has none. *)
LEMMA StillFaultless ==
  ASSUME NEW toks \in Seq(Tokens), NEW tok \in Tokens, NEW u, Longer(u, toks, tok)
  PROVE  Faultless(u) <=> Faultless(toks) /\ Right(u, Len(toks) + 1)
<1> DEFINE m == Len(toks)
<1>1. m \in Nat /\ DOMAIN toks = 1 .. m /\ DOMAIN u = 1 .. m + 1
  BY DEF Longer
<1>2. \A i \in 1 .. m : u[i] = toks[i]
  BY DEF Longer
<1>3. \A i \in 0 .. m : Depth(u, i) = Depth(toks, i)
  BY Deeper
<1>4. (Faultless(u) <=> \A i \in 1 .. m + 1 : Right(u, i)) /\ (Faultless(toks) <=> \A i \in 1 .. m : Right(toks, i))
  BY <1>1 DEF Faultless, Right
<1> HIDE DEF m
<1>5. ASSUME NEW i \in 1 .. m PROVE Right(u, i) <=> Right(toks, i)
  <2>1. /\ u[i] = toks[i] /\ Depth(u, i) = Depth(toks, i)
        /\ \A k \in 1 .. i-1 : u[k] = toks[k] /\ Depth(u, k-1) = Depth(toks, k-1) /\ Depth(u, k) = Depth(toks, k)
    BY <1>1, <1>2, <1>3
  <2>2. {k \in 1 .. i-1 : Opens(u[k]) /\ Depth(u, k-1) = Depth(u, i)} =
        {k \in 1 .. i-1 : Opens(toks[k]) /\ Depth(toks, k-1) = Depth(toks, i)}
    BY <2>1
  <2>3. \A j : LastOpened(u, i-1, Depth(u, i), j) <=> LastOpened(toks, i-1, Depth(toks, i), j)
    BY <2>2 DEF LastOpened
  <2> QED
    BY <2>1, <2>3 DEF Right
<1>6. \A i : i \in 1 .. m + 1 <=> i \in 1 .. m \/ i = m + 1
  BY <1>1
<1> QED
  BY <1>4, <1>5, <1>6 DEF m

LEMMA AppendLonger ==
  ASSUME NEW toks \in Seq(Tokens), NEW tok \in Tokens
  PROVE  Longer(Append(toks, tok), toks, tok)
BY DEF Longer

(* An end tag with nothing to close is left out, with what is behind it; as  *)
(* long as there is none, all of the text is considered.                   *)
LEMMA AllConsidered ==
  ASSUME NEW toks \in Seq(Tokens), \A j \in 1 .. Len(toks) : Depth(toks, j) >= 0
  PROVE  Considered(toks) = toks
<1>1. DOMAIN toks = 1 .. Len(toks)
  OBVIOUS
<1>2. \A j \in 1 .. Len(toks) : Depth(toks, j) \in Int
  BY DepthNext
<1>3. {i \in DOMAIN toks : Depth(toks, i) < 0 /\ WholeToken(toks[i])} = {}
  BY <1>1, <1>2
<1> QED
  BY <1>3 DEF Considered

LEMMA LastConsidered ==
  ASSUME NEW toks \in Seq(Tokens), NEW tok \in Tokens, NEW u, Longer(u, toks, tok),
         \A j \in 1 .. Len(toks) : Depth(toks, j) >= 0
  PROVE  Considered(u) = IF Depth(u, Len(toks) + 1) < 0 /\ WholeToken(tok) THEN toks ELSE u
<1> DEFINE m == Len(toks)
           stray == {i \in DOMAIN u : Depth(u, i) < 0 /\ WholeToken(u[i])}
           bad == Depth(u, m + 1) < 0 /\ WholeToken(tok)
<1>1. m \in Nat /\ DOMAIN toks = 1 .. m /\ DOMAIN u = 1 .. m + 1 /\ u[m + 1] = tok
  BY DEF Longer
<1>2. \A i \in 1 .. m : u[i] = toks[i] /\ ~(Depth(u, i) < 0)
  BY <1>1, Deeper DEF Longer
<1>3. \A i : i \in 1 .. m + 1 <=> i \in 1 .. m \/ i = m + 1
  BY <1>1
<1>4. stray = IF bad THEN {m + 1} ELSE {}
  BY <1>1, <1>2, <1>3
<1>5. Considered(u) = IF stray = {} THEN u ELSE SubSeq(u, 1, Min(stray) - 1)
  BY DEF Considered
<1> HIDE DEF stray
<1>6. ASSUME bad PROVE Considered(u) = toks
  <2>1. stray = {m + 1}
    BY <1>4, <1>6
  <2>2. Min(stray) \in stray
    BY <1>1, <2>1 DEF Min
  <2>3. Min(stray) - 1 = m /\ stray # {}
    BY <1>1, <2>1, <2>2
  <2>4. Considered(u) = SubSeq(u, 1, m)
    BY <1>5, <2>3, Zenon
  <2>5. SubSeq(u, 1, m) = toks
    <3> DEFINE r == SubSeq(u, 1, m)
    <3>1. m \in Int /\ 1 \in Int /\ \A i \in 1 .. m : u[i] \in Tokens
      BY <1>1, <1>2
    <3>2. /\ r \in Seq(Tokens) /\ Len(r) = (IF 1 <= m THEN m - 1 + 1 ELSE 0)
          /\ \A i \in 1 .. m - 1 + 1 : r[i] = u[1 + i - 1]
      BY <3>1, SubSeqProperties
    <3> HIDE DEF r
    <3>3. Len(r) = m /\ \A i \in 1 .. m : r[i] = toks[i]
      BY <1>1, <1>2, <3>2
    <3>4. r = toks
      BY <1>1, <3>2, <3>3
    <3> QED
      BY <3>4 DEF r
  <2> QED
    BY <2>4, <2>5
<1>7. ASSUME ~bad PROVE Considered(u) = u
  BY <1>4, <1>5, <1>7
<1> QED
  BY <1>6, <1>7

-----------------------------------------------------------------------------
(* The parser and the text.                                                *)

\* In the middle of a text in which nothing is wrong so far: the stack s holds
\* for each level the element that was opened last there, v what each was made
\* from, and something hangs below the document (f is its first child) as soon
\* as something was complete.
Abreast(v, s, f, toks) ==
  /\ toks \in Seq(Tokens)
  /\ Faultless(toks)
  /\ \A j \in 1 .. Len(toks) : Depth(toks, j) >= 0
  /\ Depth(toks, Len(toks)) = Len(s)
  /\ \A l \in 1 .. Len(s) : \E i \in 1 .. Len(toks) : LastOpened(toks, Len(toks), l - 1, i) /\ v[s[l]] = toks[i]
  /\ f # Null <=> \E j \in 1 .. Len(toks) : Depth(toks, j) = 0

\* What w holds for t, as far as it goes, v holds for s.
SameValues(w, t, v, s) == \A l \in 1 .. Len(t) : w[t[l]] = v[s[l]]

\* Something hangs below the document if it did, or as this goes to level 0.
Hangs(g, f, n) == g # Null <=> f # Null \/ n = 0

\* The outcome of a text is the one it deserves.
Deserved(toks, error, last) ==
  LET c == Considered(toks)
  IN /\ error = "SUCCESS" => WellFormed(c)
     /\ error # "SUCCESS" => ~Faultless(c) \/ (last /\ (Depth(c, Len(c)) # 0 \/ Last(toks).k = "text"))

(* Nothing has been read yet. *)
LEMMA AbreastAtStart ==
  ASSUME NEW v
  PROVE  Abreast(v, <<>>, Null, <<>>)
<1>1. <<>> \in Seq(Tokens) /\ Len(<<>>) = 0 /\ DOMAIN <<>> = {}
  OBVIOUS
<1>2. Faultless(<<>>)
  BY <1>1 DEF Faultless
<1>3. Depth(<<>>, 0) = 0
  BY DepthNil
<1> QED
  BY <1>1, <1>2, <1>3 DEF Abreast

(* What was opened last on a level still is, unless the next token opens on it. *)
LEMMA StillOpened ==
  ASSUME NEW toks \in Seq(Tokens), NEW tok \in Tokens, NEW u, Longer(u, toks, tok),
         NEW d, NEW i \in 1 .. Len(toks), LastOpened(toks, Len(toks), d, i),
         ~Opens(tok) \/ Depth(toks, Len(toks)) # d
  PROVE  LastOpened(u, Len(u), d, i) /\ u[i] = toks[i]
<1> DEFINE m == Len(toks)
<1>1. m \in Nat /\ Len(u) = m + 1 /\ u[m + 1] = tok /\ m + 1 - 1 = m
  BY DEF Longer
<1>2. \A k \in 1 .. m : u[k] = toks[k] /\ Depth(u, k-1) = Depth(toks, k-1)
  BY <1>1, Deeper DEF Longer
<1>3. Depth(u, m) = Depth(toks, m)
  BY <1>1, Deeper
<1>4. \A k : k \in 1 .. m + 1 <=> k \in 1 .. m \/ k = m + 1
  BY <1>1
<1>5. {k \in 1 .. m + 1 : Opens(u[k]) /\ Depth(u, k-1) = d} =
      {k \in 1 .. m : Opens(toks[k]) /\ Depth(toks, k-1) = d}
  BY <1>1, <1>2, <1>3, <1>4
<1> QED
  BY <1>1, <1>2, <1>5 DEF LastOpened

(* A token that neither opens nor closes leaves the parser on its level, with *)
(* something more below the document if that is the level.                 *)
LEMMA AbreastOfLeaf ==
  ASSUME NEW v, NEW s, Len(s) \in Nat, NEW f, NEW toks, Abreast(v, s, f, toks),
         NEW tok \in Tokens, NEW u, Longer(u, toks, tok), Right(u, Len(toks) + 1), Step(tok) = 0,
         NEW w, SameValues(w, s, v, s), NEW g, Hangs(g, f, Len(s))
  PROVE  Abreast(w, s, g, u)
<1> DEFINE m == Len(toks)
<1>1. toks \in Seq(Tokens) /\ m \in Nat /\ u \in Seq(Tokens) /\ Len(u) = m + 1
  BY DEF Abreast, Longer
<1>2. Faultless(u)
  BY <1>1, StillFaultless DEF Abreast
<1>3. Depth(u, m + 1) = Len(s) /\ \A j \in 1 .. m : Depth(u, j) = Depth(toks, j) /\ Depth(u, j) >= 0
  BY <1>1, Deeper DEF Abreast
<1>4. \A j : j \in 1 .. m + 1 <=> j \in 1 .. m \/ j = m + 1
  BY <1>1
<1>5. ~Opens(tok)
  BY DEF Step
<1>6. ASSUME NEW l \in 1 .. Len(s)
      PROVE  \E i \in 1 .. m + 1 : LastOpened(u, m + 1, l - 1, i) /\ w[s[l]] = u[i]
  <2>1. PICK i \in 1 .. m : LastOpened(toks, m, l - 1, i) /\ v[s[l]] = toks[i]
    BY DEF Abreast
  <2>2. LastOpened(u, m + 1, l - 1, i) /\ u[i] = toks[i]
    BY <1>1, <1>5, <2>1, StillOpened
  <2>3. w[s[l]] = v[s[l]]
    BY DEF SameValues
  <2> QED
    BY <1>4, <2>1, <2>2, <2>3
<1>7. f # Null <=> \E j \in 1 .. m : Depth(toks, j) = 0
  BY DEF Abreast
<1>8. g # Null <=> \E j \in 1 .. m + 1 : Depth(u, j) = 0
  BY <1>3, <1>4, <1>7 DEF Hangs
<1>9. \A j \in 1 .. m + 1 : Depth(u, j) >= 0
  BY <1>3, <1>4
<1> HIDE DEF m
<1> QED
  BY <1>1, <1>2, <1>3, <1>6, <1>8, <1>9 DEF Abreast

(* A begin tag takes it one level down. *)
LEMMA AbreastOfOpening ==
  ASSUME NEW v, NEW s, Len(s) \in Nat, NEW f, NEW toks, Abreast(v, s, f, toks),
         NEW tok \in Tokens, NEW u, Longer(u, toks, tok), Right(u, Len(toks) + 1), Opens(tok),
         NEW w, NEW t, Len(t) = Len(s) + 1, \A l \in 1 .. Len(s) : w[t[l]] = v[s[l]], w[t[Len(s) + 1]] = tok
  PROVE  Abreast(w, t, f, u)
<1> DEFINE m == Len(toks)
           n == Len(s)
<1>1. toks \in Seq(Tokens) /\ m \in Nat /\ u \in Seq(Tokens) /\ Len(u) = m + 1 /\ u[m + 1] = tok
  BY DEF Abreast, Longer
<1>2. Faultless(u)
  BY <1>1, StillFaultless DEF Abreast
<1>3. /\ Depth(toks, m) = n /\ Depth(u, m) = n /\ Depth(u, m + 1) = n + 1
      /\ \A j \in 0 .. m : Depth(u, j) = Depth(toks, j) /\ Depth(u, j) \in Int
  BY <1>1, Deeper DEF Abreast, Step
<1>4. \A j : j \in 1 .. m + 1 <=> j \in 1 .. m \/ j = m + 1
  BY <1>1
<1>5. ASSUME NEW l \in 1 .. n
      PROVE  \E i \in 1 .. m + 1 : LastOpened(u, m + 1, l - 1, i) /\ w[t[l]] = u[i]
  <2>1. PICK i \in 1 .. m : LastOpened(toks, m, l - 1, i) /\ v[s[l]] = toks[i]
    BY DEF Abreast
  <2>2. Depth(toks, m) # l - 1
    BY <1>3
  <2>3. LastOpened(u, m + 1, l - 1, i) /\ u[i] = toks[i]
    BY <1>1, <2>1, <2>2, StillOpened
  <2> QED
    BY <1>4, <2>1, <2>3
<1>6. LastOpened(u, m + 1, n, m + 1)
  <2>1. m + 1 \in 1 .. m + 1 /\ m + 1 - 1 = m /\ \A k \in 1 .. m + 1 : k <= m + 1
    BY <1>1
  <2> QED
    BY <1>1, <1>3, <2>1 DEF LastOpened
<1>7. ASSUME NEW l \in 1 .. n + 1
      PROVE  \E i \in 1 .. m + 1 : LastOpened(u, m + 1, l - 1, i) /\ w[t[l]] = u[i]
  <2>1. l \in 1 .. n \/ (l = n + 1 /\ l - 1 = n)
    OBVIOUS
  <2> QED
    BY <1>1, <1>4, <1>5, <1>6, <2>1
<1>8. f # Null <=> \E j \in 1 .. m : Depth(toks, j) = 0
  BY DEF Abreast
<1>9. (\A j \in 1 .. m : Depth(u, j) >= 0) /\ n >= 0
  BY <1>3 DEF Abreast
<1>10. /\ \A j \in 1 .. m + 1 : Depth(u, j) >= 0
       /\ f # Null <=> \E j \in 1 .. m + 1 : Depth(u, j) = 0
  BY <1>3, <1>4, <1>8, <1>9
<1> HIDE DEF m, n
<1> QED
  BY <1>1, <1>2, <1>3, <1>7, <1>10 DEF Abreast, n

(* An end tag takes it one level up, if it names the element on top.       *)
LEMMA RightlyClosed ==
  ASSUME NEW v, NEW s, Len(s) \in Nat, Len(s) # 0, NEW f, NEW toks, Abreast(v, s, f, toks),
         NEW tok \in Tokens, NEW u, Longer(u, toks, tok), Closes(tok)
  PROVE  Right(u, Len(toks) + 1) <=> WholeToken(tok) /\ v[s[Len(s)]].name = tok.name
<1> DEFINE m == Len(toks)
           n == Len(s)
<1>1. toks \in Seq(Tokens) /\ m \in Nat /\ u[m + 1] = tok /\ m + 1 - 1 = m /\ n \in 1 .. n
  BY DEF Abreast, Longer
<1>2. tok.k # "decl" /\ ~Opens(tok)
  BY DEF Closes, Opens
<1>3. /\ Depth(toks, m) = n /\ Depth(u, m + 1) = n - 1
      /\ \A j \in 0 .. m : Depth(u, j) = Depth(toks, j)
  BY <1>1, <1>2, Deeper DEF Abreast, Step
<1>4. PICK i \in 1 .. m : LastOpened(toks, m, n - 1, i) /\ v[s[n]] = toks[i]
  BY <1>1 DEF Abreast
<1>5. \A k \in 1 .. m : u[k] = toks[k] /\ Depth(u, k-1) = Depth(toks, k-1)
  BY <1>1, <1>3 DEF Longer
<1>6. \A j : LastOpened(u, m, n - 1, j) <=> LastOpened(toks, m, n - 1, j)
  <2>1. {k \in 1 .. m : Opens(u[k]) /\ Depth(u, k-1) = n - 1} =
        {k \in 1 .. m : Opens(toks[k]) /\ Depth(toks, k-1) = n - 1}
    BY <1>5
  <2> QED
    BY <2>1 DEF LastOpened
<1>7. \A j \in 1 .. m : LastOpened(u, m, n - 1, j) <=> j = i
  <2>1. ASSUME NEW j \in 1 .. m, LastOpened(toks, m, n - 1, j) PROVE j = i
    <3>1. j <= i /\ i <= j
      BY <1>4, <2>1 DEF LastOpened
    <3> QED
      BY <1>1, <3>1
  <2> QED
    BY <1>4, <1>6, <2>1
<1> HIDE DEF m, n
<1>8. Right(u, m + 1) <=>
        WholeToken(tok) /\ \E j \in 1 .. m : LastOpened(u, m, n - 1, j) /\ u[j].name = tok.name
  BY <1>1, <1>2, <1>3 DEF Right
<1>9. (\E j \in 1 .. m : LastOpened(u, m, n - 1, j) /\ u[j].name = tok.name) <=> u[i].name = tok.name
  BY <1>7
<1>10. u[i] = v[s[n]]
  BY <1>4, <1>5
<1> QED
  BY <1>8, <1>9, <1>10 DEF m, n

LEMMA AbreastOfClosing ==
  ASSUME NEW v, NEW s, Len(s) \in Nat, NEW f, NEW toks, Abreast(v, s, f, toks),
         NEW tok \in Tokens, NEW u, Longer(u, toks, tok), Right(u, Len(toks) + 1), Closes(tok),
         NEW w, NEW t, Len(t) \in Nat, Len(s) = Len(t) + 1, SameValues(w, t, v, s),
         NEW g, Hangs(g, f, Len(t))
  PROVE  Abreast(w, t, g, u)
<1> DEFINE m == Len(toks)
           n == Len(t)
<1>1. toks \in Seq(Tokens) /\ m \in Nat /\ u \in Seq(Tokens) /\ Len(u) = m + 1
  BY DEF Abreast, Longer
<1>2. Faultless(u)
  BY <1>1, StillFaultless DEF Abreast
<1>3. ~Opens(tok) /\ Step(tok) = -1
  BY DEF Step, Opens, Closes
<1>4. Depth(u, m + 1) = n /\ \A j \in 1 .. m : Depth(u, j) = Depth(toks, j) /\ Depth(u, j) >= 0
  BY <1>1, <1>3, Deeper DEF Abreast
<1>5. \A j : j \in 1 .. m + 1 <=> j \in 1 .. m \/ j = m + 1
  BY <1>1
<1>6. ASSUME NEW l \in 1 .. n
      PROVE  \E i \in 1 .. m + 1 : LastOpened(u, m + 1, l - 1, i) /\ w[t[l]] = u[i]
  <2>1. l \in 1 .. Len(s)
    OBVIOUS
  <2>2. PICK i \in 1 .. m : LastOpened(toks, m, l - 1, i) /\ v[s[l]] = toks[i]
    BY <2>1 DEF Abreast
  <2>3. LastOpened(u, m + 1, l - 1, i) /\ u[i] = toks[i]
    BY <1>1, <1>3, <2>2, StillOpened
  <2>4. w[t[l]] = v[s[l]]
    BY DEF SameValues
  <2> QED
    BY <1>5, <2>2, <2>3, <2>4
<1>7. f # Null <=> \E j \in 1 .. m : Depth(toks, j) = 0
  BY DEF Abreast
<1>8. g # Null <=> \E j \in 1 .. m + 1 : Depth(u, j) = 0
  BY <1>4, <1>5, <1>7 DEF Hangs
<1>9. \A j \in 1 .. m + 1 : Depth(u, j) >= 0
  BY <1>4, <1>5
<1> HIDE DEF m
<1> QED
  BY <1>1, <1>2, <1>4, <1>6, <1>8, <1>9 DEF Abreast

-----------------------------------------------------------------------------
(* The outcome. *)

(* At the end of a text without a fault: an error if an element is open.   *)
LEMMA DeservedAtEnd ==
  ASSUME NEW v, NEW s, Len(s) \in Nat, NEW f, NEW toks, Abreast(v, s, f, toks),
         NEW e, e = "SUCCESS" <=> Len(s) = 0
  PROVE  Deserved(toks, e, TRUE)
<1>1. Considered(toks) = toks
  BY AllConsidered DEF Abreast
<1>2. Faultless(toks) /\ Depth(toks, Len(toks)) = Len(s)
  BY DEF Abreast
<1> QED
  BY <1>1, <1>2 DEF Deserved, WellFormed

(* An end tag with nothing to close ends the text, and rightly.            *)
LEMMA DeservedByStray ==
  ASSUME NEW v, NEW s, Len(s) = 0, NEW f, NEW toks, Abreast(v, s, f, toks),
         NEW tok \in Tokens, NEW u, Longer(u, toks, tok), Closes(tok), WholeToken(tok), NEW last
  PROVE  Deserved(u, "SUCCESS", last)
<1>1. toks \in Seq(Tokens) /\ Faultless(toks) /\ Depth(toks, Len(toks)) = 0
      /\ \A j \in 1 .. Len(toks) : Depth(toks, j) >= 0
  BY DEF Abreast
<1>2. Step(tok) = -1
  BY DEF Step, Opens, Closes
<1>3. Depth(u, Len(toks) + 1) = -1
  BY <1>1, <1>2, Deeper
<1>4. Considered(u) = toks
  BY <1>1, <1>3, LastConsidered
<1> QED
  BY <1>1, <1>4 DEF Deserved, WellFormed

(* Any other token that makes the text a wrong one is an error, and so is a  *)
(* last token that leaves an element open or is a text.                    *)
LEMMA DeservedError ==
  ASSUME NEW v, NEW s, Len(s) \in Nat, NEW f, NEW toks, Abreast(v, s, f, toks),
         NEW tok \in Tokens, NEW u, Longer(u, toks, tok),
         ~WholeToken(tok) \/ Len(s) + Step(tok) >= 0, NEW last,
         ~Right(u, Len(toks) + 1) \/ (last /\ (Len(s) + Step(tok) # 0 \/ tok.k = "text")),
         NEW e, e # "SUCCESS"
  PROVE  Deserved(u, e, last)
<1> DEFINE m == Len(toks)
<1>1. toks \in Seq(Tokens) /\ m \in Nat /\ Depth(toks, m) = Len(s) /\ Len(u) = m + 1 /\ u[m + 1] = tok
      /\ \A j \in 1 .. m : Depth(toks, j) >= 0
  BY DEF Abreast, Longer
<1>2. Depth(u, m + 1) = Len(s) + Step(tok)
  BY <1>1, Deeper
<1>3. Step(tok) \in Int
  BY DEF Step
<1>4. Considered(u) = u
  BY <1>1, <1>2, <1>3, LastConsidered
<1>5. Faultless(u) => Right(u, m + 1)
  BY <1>1, StillFaultless
<1>6. Last(u) = tok
  BY <1>1 DEF Last
<1> QED
  BY <1>1, <1>2, <1>4, <1>5, <1>6 DEF Deserved

-----------------------------------------------------------------------------
(* What the parser makes of a token is what it deserves. *)

Judged(d, toks, last) ==
  IF d.parsing THEN Abreast(d.value, d.stack, d.heap.first[Doc], toks) ELSE Deserved(toks, d.error, last)

(* A node that is hung below the document is its first child if it had none. *)
LEMMA HungFirst ==
  ASSUME NEW g, TreeInv(g), NEW x \in Node, g.parent[x] = Null, NEW p \in Parent
  PROVE  InsertEndChild(g, p, x).first[Doc] # Null <=> g.first[Doc] # Null \/ p = Doc
<1>1. PICK kids : Laid(g, kids)
  BY DEF TreeInv, Sound
<1>2. g \in Heap /\ Doc \in Parent
  BY DEF TreeInv, Sound, Parent
<1> DEFINE s == kids[Doc]
<1>3. s \in Seq(Node) /\ g.first[Doc] = ItemAt(s, 1) /\ g.last[Doc] = ItemAt(s, Len(s))
  BY <1>1, <1>2 DEF Laid, Chain
<1> HIDE DEF s
<1>4. g.first[Doc] = Null <=> g.last[Doc] = Null
  <2>1. Len(s) \in Nat /\ \A i \in 1 .. Len(s) : s[i] # Null
    BY <1>3, HeapAssumption
  <2> QED
    BY <1>3, <2>1 DEF ItemAt
<1> DEFINE t == Track(g, x)
           k == InsertEndChild(g, p, x)
<1>5. t.first = g.first /\ t.last = g.last
  BY <1>2 DEF Track, Heap
<1>6. k.first = [t.first EXCEPT ![p] = IF t.last[p] = Null THEN x ELSE @]
  BY <1>2, HeapAssumption DEF InsertEndChild, InsertChildPreamble, Track, Heap
<1> HIDE DEF t, k
<1>7. g.first \in [Parent -> Node \union {Null}] /\ x # Null
  BY <1>2, HeapAssumption DEF Heap
<1>8. k.first[Doc] = IF p = Doc /\ g.last[Doc] = Null THEN x ELSE g.first[Doc]
  BY <1>2, <1>5, <1>6, <1>7
<1> QED
  BY <1>4, <1>7, <1>8 DEF k

(* The first child of the document is not touched where a stray is deleted. *)
LEMMA DeletedFirst ==
  ASSUME NEW g, TreeInv(g), NEW x \in Strays(g)
  PROVE  DeleteNode(Track(g, x), x).first[Doc] = g.first[Doc]
<1>1. PICK kids : Laid(g, kids)
  BY DEF TreeInv, Sound
<1>2. x \in Alive(g) /\ x \in Node /\ x \in Parent /\ g.parent[x] = Null /\ Doc \in Parent /\ Doc # Null
  BY HeapAssumption DEF Strays, Alive, Parent
<1> DEFINE r == DocDeleteNode(g, x)
           gone == Items(Below(g, x)) \union {x}
           left_of == Cleared(Sans(kids, x), gone)
<1>3. r = DeleteNode(Track(g, x), x)
  BY <1>2 DEF DocDeleteNode
<1>4. Deleted(r, g, x)
  BY <1>2, DocDeleteNodeKeeps
<1> HIDE DEF r
<1>5. Laid(r, left_of)
  BY <1>1, <1>4 DEF Deleted
<1>6. Below(g, x) \in Seq(Node)
  BY <1>1, <1>2, BelowFacts DEF TreeInv, Sound
<1>7. Doc \notin gone
  BY <1>2, <1>6, HeapAssumption DEF Items
<1> HIDE DEF gone
<1>8. left_of[Doc] = RemoveFirst(kids[Doc], x)
  BY <1>2, <1>7 DEF Cleared, Sans
<1>9. RemoveFirst(kids[Doc], x) = kids[Doc]
  BY <1>1, <1>2, NotThere
<1> HIDE DEF left_of
<1>10. r.first[Doc] = ItemAt(left_of[Doc], 1) /\ g.first[Doc] = ItemAt(kids[Doc], 1)
  BY <1>1, <1>2, <1>5 DEF Laid, Chain
<1> QED
  BY <1>3, <1>8, <1>9, <1>10

(* An error is the error it is. *)
LEMMA FailsWith ==
  ASSUME NEW d \in Document, NEW e
  PROVE  Fail(d, e).error = e /\ Fail(d, e).parsing = FALSE
BY DEF Fail, Document

LEMMA ErrorJudged ==
  ASSUME NEW d \in Document, NEW e, NEW toks, NEW last, Deserved(toks, e, last)
  PROVE  Judged(Fail(d, e), toks, last)
BY FailsWith DEF Judged

(* The values of what is on the stack are not touched by a new one.         *)
LEMMA StackValues ==
  ASSUME NEW v, NEW S, v \in [Node -> S], NEW s \in Seq(Element), NEW x \in Node, x \notin Items(s), NEW tok
  PROVE  SameValues([v EXCEPT ![x] = tok], s, v, s)
<1>1. \A l \in 1 .. Len(s) : s[l] \in Items(s) /\ s[l] \in Node
  BY DEF Items, Node
<1> QED
  BY <1>1 DEF SameValues

LEMMA AboveIs ==
  ASSUME NEW s \in Seq(Element)
  PROVE  Above(s) \in Parent /\ (Above(s) = Doc <=> Len(s) = 0) /\ Len(s) \in Nat
<1>1. CASE s = <<>>
  BY <1>1 DEF Above, Parent
<1>2. CASE s # <<>>
  <2>1. Last(s) \in Element /\ Len(s) # 0
    BY <1>2, FrontLast, EmptySeq
  <2> QED
    BY <1>2, <2>1, HeapAssumption DEF Above, Parent, Node
<1> QED
  BY <1>1, <1>2

(* A new node is hung on the level being read. *)
LEMMA HangJudged ==
  ASSUME NEW d \in Document, NEW n, NEW sure, Fresh(d.heap, d.stack, n, sure), d.parsing,
         NEW v, SameValues(d.value, d.stack, v, d.stack),
         NEW toks, Abreast(v, d.stack, d.heap.first[Doc], toks),
         NEW tok \in Tokens, NEW u, Longer(u, toks, tok), Right(u, Len(toks) + 1), Step(tok) = 0, NEW last
  PROVE  Judged(Hang(d, n), u, last)
<1> DEFINE s == d.stack
           k == InsertEndChild(d.heap, Above(s), n)
           r == Hang(d, n)
<1>1. /\ TreeInv(d.heap) /\ s \in Seq(Element) /\ n \in Node /\ d.heap.parent[n] = Null
      /\ Reading(k, s, sure)
  BY FreshHung DEF Fresh, Strays
<1>2. k \in Heap
  BY <1>1 DEF Reading, TreeInv, Sound
<1>3. r = [d EXCEPT !.heap = k]
  BY DEF Hang, Level, Above
<1>4. Above(s) \in Parent /\ (Above(s) = Doc <=> Len(s) = 0) /\ Len(s) \in Nat
  BY <1>1, AboveIs
<1> HIDE DEF s
<1>5. Hangs(k.first[Doc], d.heap.first[Doc], Len(s))
  BY <1>1, <1>4, HungFirst DEF Hangs
<1> HIDE DEF k, r
<1>6. r.heap = k /\ r.stack = s /\ r.value = d.value /\ r.parsing
  BY <1>2, <1>3, NewHeap DEF s
<1>7. Abreast(d.value, s, k.first[Doc], u)
  BY <1>4, <1>5, AbreastOfLeaf DEF s
<1> QED
  BY <1>6, <1>7 DEF Judged, r

(* A text, a CDATA section, a comment, a declaration or an unknown.        *)
LEMMA LeafJudged ==
  ASSUME NEW d, NEW sure, Steady(d, sure), d.error = "SUCCESS", d.parsing,
         NEW tok \in Tokens, tok.k # "tag", CanAllocate(d.heap, "leaf"), NEW last \in BOOLEAN,
         NEW toks, Abreast(d.value, d.stack, d.heap.first[Doc], toks), NEW u, Longer(u, toks, tok)
  PROVE  Judged(TakeLeaf(d, tok, last), u, last)
<1> DEFINE n == NewAddress(d.heap, "leaf")
           g == Identify(d, "leaf", tok)
           f == d.heap.first[Doc]
           m == Len(toks)
           unfinished == IF tok.k = "text" THEN last ELSE tok.cut
           misplaced == tok.k = "decl" /\ f # Null
<1>1. /\ g \in Document /\ g.heap = NewNode(d.heap, "leaf") /\ g.stack = d.stack /\ g.error = "SUCCESS" /\ g.parsing
      /\ g.value = [d.value EXCEPT ![n] = tok]
      /\ Fresh(g.heap, g.stack, n, sure)
  BY IdentifyKeeps
<1>2. d \in Document /\ TreeInv(d.heap) /\ d.stack \in Seq(Element) /\ Len(d.stack) \in Nat
  BY DEF Steady, Reading
<1>3. g.heap.first[Doc] = f
  BY <1>1, <1>2, NewNodeKeeps DEF SamePointers
<1>4. LeafError(tok.k) # "SUCCESS"
  BY InputAssumption DEF IsToken, LeafError
<1>5. TakeLeaf(d, tok, last) = IF unfinished \/ misplaced THEN Fail(Discard(g, n), LeafError(tok.k)) ELSE Hang(g, n)
  BY Zenon DEF TakeLeaf
<1>6. SameValues(g.value, d.stack, d.value, d.stack)
  <2> HIDE DEF n, g
  <2>1. n \in Node /\ n \notin Items(d.stack)
    BY <1>1 DEF Fresh
  <2>2. d.value \in [Node -> Tokens \union {Null}] /\ d.stack \in Seq(Element)
    BY <1>2 DEF Document
  <2>3. SameValues([d.value EXCEPT ![n] = tok], d.stack, d.value, d.stack)
    BY <2>1, <2>2, StackValues
  <2> QED
    BY <1>1, <2>3
<1>7. Step(tok) = 0 /\ ~Closes(tok)
  BY DEF Step, Opens, Closes
<1>8. toks \in Seq(Tokens) /\ m \in Nat /\ u[m + 1] = tok
  BY DEF Abreast, Longer
<1>9. Right(u, m + 1) <=> (tok.k = "text" \/ ~tok.cut) /\ ~misplaced
  <2>1. \A j \in 1 .. m : Depth(u, j) = Depth(toks, j) /\ Depth(toks, j) \in Int /\ Depth(toks, j) >= 0
    BY <1>8, Deeper DEF Abreast
  <2>2. f # Null <=> \E j \in 1 .. m : Depth(toks, j) = 0
    BY DEF Abreast
  <2>3. f # Null <=> ~ \A j \in 1 .. m : Depth(u, j) > 0
    BY <2>1, <2>2
  <2>4. m + 1 - 1 = m /\ (WholeToken(tok) <=> tok.k = "text" \/ ~tok.cut)
    BY <1>8 DEF WholeToken
  <2> HIDE DEF f, m
  <2> QED
    BY <1>7, <1>8, <2>3, <2>4 DEF Right
<1> HIDE DEF n, g
<1>10. CASE unfinished \/ misplaced
  <2>1. ~Right(u, m + 1) \/ (last /\ tok.k = "text")
    BY <1>9, <1>10
  <2>2. Len(d.stack) + Step(tok) >= 0
    BY <1>2, <1>7
  <2>3. Deserved(u, LeafError(tok.k), last)
    BY <1>2, <1>4, <2>1, <2>2, DeservedError
  <2>4. Discard(g, n) \in Document
    <3>1. Reading(DeleteNode(g.heap, n), g.stack, FALSE)
      BY <1>1, FreshDiscarded
    <3> QED
      BY <1>1, <3>1, NewHeap DEF Discard, Reading, TreeInv, Sound
  <2> QED
    BY <1>5, <1>10, <2>3, <2>4, ErrorJudged
<1>11. CASE ~(unfinished \/ misplaced)
  <2>1. Right(u, m + 1)
    BY <1>9, <1>11
  <2>2. Abreast(d.value, g.stack, g.heap.first[Doc], toks)
    BY <1>1, <1>3
  <2>3. SameValues(g.value, g.stack, d.value, g.stack)
    BY <1>1, <1>6
  <2>4. Judged(Hang(g, n), u, last)
    BY <1>1, <1>7, <2>1, <2>2, <2>3, HangJudged
  <2> QED
    BY <1>5, <1>11, <2>4
<1> QED
  BY <1>10, <1>11

(* An end tag. *)
LEMMA CloseJudged ==
  ASSUME NEW d \in Document, NEW e, NEW sure, Fresh(d.heap, d.stack, e, sure), d.error = "SUCCESS", d.parsing,
         NEW v, SameValues(d.value, d.stack, v, d.stack),
         NEW toks, Abreast(v, d.stack, d.heap.first[Doc], toks),
         NEW tok \in Tokens, NEW u, Longer(u, toks, tok), WholeToken(tok), Closes(tok), NEW last
  PROVE  Judged(Close(d, tok, e), u, last)
<1> DEFINE h == DeleteNode(Track(d.heap, e), e)
           g == [d EXCEPT !.heap = h]
           up == [g EXCEPT !.stack = Front(@)]
           s == d.stack
           f == d.heap.first[Doc]
           matches == g.value[Level(g)].name = tok.name
<1>1. /\ TreeInv(d.heap) /\ e \in Strays(d.heap) /\ s \in Seq(Element) /\ Len(s) \in Nat
      /\ Abreast(v, s, f, toks)
  BY DEF Fresh
<1>12. \A l \in 1 .. Len(s) : d.value[s[l]] = v[s[l]]
  BY DEF SameValues
<1>2. Reading(h, s, sure)
  BY FreshClosed
<1>3. h \in Heap
  BY <1>2 DEF Reading, TreeInv, Sound
<1>4. /\ g.stack = <<>> => Close(d, tok, e) = [g EXCEPT !.parsing = FALSE]
      /\ g.stack # <<>> /\ matches => Close(d, tok, e) = Hang(up, Level(g))
      /\ g.stack # <<>> /\ ~matches => Close(d, tok, e) = Fail(g, "MISMATCHED_ELEMENT")
  BY Zenon DEF Close
<1>5. h.first[Doc] = f
  BY <1>1, DeletedFirst
<1> HIDE DEF h, matches, f
<1>6. g \in Document /\ g.heap = h /\ g.stack = s /\ g.error = "SUCCESS" /\ g.parsing /\ g.value = d.value
  BY <1>3, NewHeap
<1> HIDE DEF g, s
<1>7. Step(tok) = -1 /\ toks \in Seq(Tokens)
  BY DEF Step, Opens, Closes, Abreast
<1>8. CASE s = <<>>
  <2> DEFINE r == [g EXCEPT !.parsing = FALSE]
  <2>1. r.parsing = FALSE /\ r.error = "SUCCESS"
    BY <1>6 DEF Document
  <2> HIDE DEF r
  <2>2. Len(s) = 0
    BY <1>8
  <2>3. Deserved(u, "SUCCESS", last)
    BY <1>1, <2>2, DeservedByStray
  <2>4. Judged(r, u, last)
    BY <2>1, <2>3 DEF Judged
  <2> QED
    BY <1>4, <1>6, <1>8, <2>4 DEF r
<1>9. ASSUME s # <<>>
      PROVE  /\ Len(s) # 0 /\ Level(g) = s[Len(s)]
             /\ Right(u, Len(toks) + 1) <=> matches
  <2>1. Len(s) # 0 /\ Last(s) = s[Len(s)] /\ Len(s) \in 1 .. Len(s)
    <3>1. s \in Seq(Element) /\ s # <<>>
      BY <1>1, <1>9
    <3>2. Len(s) \in Nat \ {0}
      BY <3>1, EmptySeq
    <3> QED
      BY <3>2 DEF Last
  <2>2. Level(g) = s[Len(s)]
    BY <1>6, <1>9, <2>1 DEF Level
  <2>3. g.value[Level(g)] = v[s[Len(s)]]
    BY <1>6, <1>12, <2>1, <2>2
  <2>4. Right(u, Len(toks) + 1) <=> v[s[Len(s)]].name = tok.name
    BY <1>1, <2>1, RightlyClosed
  <2> QED
    BY <2>1, <2>2, <2>3, <2>4 DEF matches
<1>10. CASE s # <<>> /\ matches
  <2> DEFINE t == Front(s)
             n == Last(s)
             k == InsertEndChild(h, Above(t), n)
             r == Hang(up, Level(g))
  <2>1. /\ t \in Seq(Element) /\ Len(t) = Len(s) - 1 /\ n = s[Len(s)] /\ n \in Element
        /\ \A i \in 1 .. Len(s) - 1 : t[i] = s[i]
    BY <1>1, <1>10, FrontLast
  <2>2. Reading(k, t, sure)
    BY <1>2, <1>10, HungAbove
  <2>3. k \in Heap
    BY <2>2 DEF Reading, TreeInv, Sound
  <2>4. n \in Items(s)
    BY <1>1, <1>9, <1>10, <2>1 DEF Items
  <2>5. TreeInv(h) /\ n \in Node /\ h.parent[n] = Null
    BY <1>2, <2>4 DEF Reading, Strays, Alive
  <2>6. Above(t) \in Parent /\ (Above(t) = Doc <=> Len(t) = 0) /\ Len(t) \in Nat
    BY <2>1, AboveIs
  <2> HIDE DEF t, n
  <2>7. k.first[Doc] # Null <=> h.first[Doc] # Null \/ Len(t) = 0
    BY <2>5, <2>6, HungFirst
  <2>8. up = [g EXCEPT !.stack = t]
    BY <1>6 DEF Document, t
  <2> HIDE DEF up
  <2>9. up \in Document /\ up.heap = h /\ up.stack = t /\ up.error = "SUCCESS" /\ up.parsing /\ up.value = d.value
    BY <1>6, <2>1, <2>8, NewStack
  <2>10. r = [up EXCEPT !.heap = k]
    BY <1>9, <1>10, <2>1, <2>9 DEF Hang, Level, Above
  <2> HIDE DEF k, r
  <2>11. r.heap = k /\ r.stack = t /\ r.parsing /\ r.value = d.value
    BY <2>3, <2>9, <2>10, NewHeap
  <2>12. Right(u, Len(toks) + 1) /\ Len(s) = Len(t) + 1
    BY <1>1, <1>9, <1>10, <2>1
  <2>13. ASSUME NEW l \in 1 .. Len(t) PROVE d.value[t[l]] = v[s[l]]
    <3>1. l \in 1 .. Len(s) - 1 /\ l \in 1 .. Len(s)
      BY <1>1, <2>1
    <3>2. t[l] = s[l] /\ d.value[s[l]] = v[s[l]]
      BY <1>12, <2>1, <3>1
    <3> QED
      BY <3>2
  <2>14. Abreast(d.value, t, k.first[Doc], u)
    <3>1. Hangs(k.first[Doc], f, Len(t))
      BY <1>5, <2>7 DEF Hangs
    <3>2. SameValues(d.value, t, v, s)
      BY <2>13 DEF SameValues
    <3> QED
      BY <1>1, <2>6, <2>12, <3>1, <3>2, AbreastOfClosing, Zenon
  <2>15. Judged(r, u, last)
    BY <2>11, <2>14 DEF Judged
  <2> QED
    BY <1>4, <1>6, <1>10, <2>15 DEF r
<1>11. CASE s # <<>> /\ ~matches
  <2>1. ~Right(u, Len(toks) + 1) /\ Len(s) + Step(tok) >= 0
    BY <1>1, <1>7, <1>9, <1>11
  <2>2. Deserved(u, "MISMATCHED_ELEMENT", last)
    BY <1>1, <2>1, DeservedError
  <2> QED
    BY <1>4, <1>6, <1>11, <2>2, ErrorJudged
<1> QED
  BY <1>8, <1>10, <1>11

(* A tag. *)
LEMMA TagJudged ==
  ASSUME NEW d, NEW sure, Steady(d, sure), d.error = "SUCCESS", d.parsing,
         NEW tok \in Tokens, tok.k = "tag", CanAllocate(d.heap, "element"), NEW last \in BOOLEAN,
         NEW toks, Abreast(d.value, d.stack, d.heap.first[Doc], toks), NEW u, Longer(u, toks, tok)
  PROVE  Judged(TakeTag(d, tok, last), u, last)
<1> DEFINE e == NewAddress(d.heap, "element")
           i == Identify(d, "element", tok)
           h == ParseAttributes(i.heap, e, tok.attrs)
           g == [i EXCEPT !.heap = h]
           err == AttributeError(tok)
           typ == ClosingType(tok)
           pushed == [g EXCEPT !.stack = Append(@, e)]
           s == d.stack
           f == d.heap.first[Doc]
           v == d.value
           m == Len(toks)
<1>1. /\ i \in Document /\ i.heap = NewNode(d.heap, "element") /\ i.stack = s
      /\ i.error = "SUCCESS" /\ i.parsing /\ i.value = [v EXCEPT ![e] = tok]
      /\ Fresh(i.heap, i.stack, e, sure)
  BY IdentifyKeeps
<1>2. /\ e \in Element /\ i.heap.attr[e] = <<>> /\ TreeInv(d.heap)
      /\ s \in Seq(Element) /\ Len(s) \in Nat /\ v \in [Node -> Tokens \union {Null}]
  BY <1>1, IdentifyMakes DEF Steady, Reading, Document
<1>3. tok.attrs \in Seq(Name) /\ tok.slash \in BOOLEAN /\ tok.end \in {"gt", "sealed", "cut"}
  BY InputAssumption DEF IsToken
<1>4. /\ err # "SUCCESS" => TakeTag(d, tok, last) = Fail(Discard(g, e), err)
      /\ err = "SUCCESS" /\ typ = "CLOSED" => TakeTag(d, tok, last) = Hang(g, e)
      /\ err = "SUCCESS" /\ typ = "CLOSING" => TakeTag(d, tok, last) = Close(g, tok, e)
      /\ err = "SUCCESS" /\ typ # "CLOSED" /\ typ # "CLOSING" =>
           TakeTag(d, tok, last) = IF last THEN Fail(Discard(g, e), "MISMATCHED_ELEMENT") ELSE pushed
  BY Zenon DEF TakeTag
<1>5. i.heap.first[Doc] = f
  BY <1>1, <1>2, NewNodeKeeps DEF SamePointers
<1>6. (err = "SUCCESS" <=> WholeToken(tok)) /\ ~(tok.k = "decl")
  BY <1>3, Zenon DEF AttributeError, WholeToken
<1>7. /\ typ = "CLOSED" <=> tok.end = "sealed"
      /\ typ = "CLOSING" <=> Closes(tok)
      /\ tok.end # "cut" => (typ # "CLOSED" /\ typ # "CLOSING" <=> Opens(tok))
  BY <1>3 DEF ClosingType, Opens, Closes
<1>8. WholeToken(tok) => tok.end # "cut"
  BY Zenon DEF WholeToken
<1>9. Abreast(v, s, f, toks) /\ u[m + 1] = tok
  BY DEF Longer
<1>10. h.first = i.heap.first
  BY <1>2, <1>1 DEF ParseAttributes, Fresh, TreeInv, Sound, Heap
<1> HIDE DEF e, i, err, typ, s, f, v
<1>11. Fresh(h, s, e, sure)
  BY <1>1, <1>2, <1>3, AttributesRead
<1>12. h \in Heap /\ h.first[Doc] = f /\ e \in Node /\ e \notin Items(s)
  BY <1>5, <1>10, <1>11 DEF Fresh, TreeInv, Sound
<1> HIDE DEF h
<1>13. g \in Document /\ g.heap = h /\ g.stack = s /\ g.error = "SUCCESS" /\ g.parsing /\ g.value = i.value
  BY <1>1, <1>12, NewHeap
<1> HIDE DEF g
<1>14. Fresh(g.heap, g.stack, e, sure) /\ g.heap.first[Doc] = f
  BY <1>11, <1>12, <1>13
<1>15. SameValues(g.value, s, v, s) /\ g.value[e] = tok
  <2>1. SameValues([v EXCEPT ![e] = tok], s, v, s)
    BY <1>2, <1>12, StackValues
  <2> QED
    BY <1>1, <1>2, <1>12, <1>13, <2>1
<1>16. Discard(g, e) \in Document
  <2>1. Reading(DeleteNode(g.heap, e), g.stack, FALSE)
    BY <1>14, FreshDiscarded
  <2> QED
    BY <1>13, <2>1, NewHeap DEF Discard, Reading, TreeInv, Sound
<1>17. ~Closes(tok) => (Right(u, m + 1) <=> WholeToken(tok))
  BY <1>6, <1>9 DEF Right
<1>18. CASE err # "SUCCESS"
  <2>1. ~WholeToken(tok) /\ ~Right(u, m + 1)
    BY <1>6, <1>9, <1>18 DEF Right
  <2>2. Deserved(u, err, last)
    BY <1>2, <1>9, <1>18, <2>1, DeservedError
  <2> QED
    BY <1>4, <1>16, <1>18, <2>2, ErrorJudged
<1>19. CASE err = "SUCCESS" /\ typ = "CLOSED"
  <2>1. ~Opens(tok) /\ ~Closes(tok) /\ Step(tok) = 0
    BY <1>7, <1>19 DEF Opens, Closes, Step
  <2>2. Right(u, m + 1)
    BY <1>6, <1>17, <1>19, <2>1
  <2>3. Abreast(v, g.stack, g.heap.first[Doc], toks) /\ SameValues(g.value, g.stack, v, g.stack)
    BY <1>9, <1>13, <1>14, <1>15
  <2>4. Judged(Hang(g, e), u, last)
    BY <1>13, <1>14, <2>1, <2>2, <2>3, HangJudged
  <2> QED
    BY <1>4, <1>19, <2>4
<1>20. CASE err = "SUCCESS" /\ typ = "CLOSING"
  <2>1. WholeToken(tok) /\ Closes(tok)
    BY <1>6, <1>7, <1>20
  <2>2. Abreast(v, g.stack, g.heap.first[Doc], toks) /\ SameValues(g.value, g.stack, v, g.stack)
    BY <1>9, <1>13, <1>14, <1>15
  <2>3. Judged(Close(g, tok, e), u, last)
    BY <1>13, <1>14, <2>1, <2>2, CloseJudged
  <2> QED
    BY <1>4, <1>20, <2>3
<1>21. CASE err = "SUCCESS" /\ typ # "CLOSED" /\ typ # "CLOSING"
  <2>1. Opens(tok) /\ ~Closes(tok) /\ WholeToken(tok)
    BY <1>6, <1>7, <1>8, <1>21
  <2>2. Step(tok) = 1 /\ Right(u, m + 1)
    BY <1>17, <2>1 DEF Step
  <2>3. CASE last
    <3>1. /\ ~WholeToken(tok) \/ Len(s) + Step(tok) >= 0
          /\ ~Right(u, m + 1) \/ (last /\ (Len(s) + Step(tok) # 0 \/ tok.k = "text"))
          /\ "MISMATCHED_ELEMENT" # "SUCCESS"
      BY <1>2, <2>2, <2>3
    <3>2. Deserved(u, "MISMATCHED_ELEMENT", last)
      BY <1>2, <1>9, <3>1, DeservedError
    <3>3. Judged(Fail(Discard(g, e), "MISMATCHED_ELEMENT"), u, last)
      BY <1>16, <3>2, ErrorJudged
    <3> QED
      BY <1>4, <1>21, <2>3, <3>3
  <2>4. CASE ~last
    <3> DEFINE t == Append(s, e)
               w == g.value
    <3>1. t \in Seq(Element) /\ Len(t) = Len(s) + 1 /\ t[Len(s) + 1] = e /\ \A l \in 1 .. Len(s) : t[l] = s[l]
      BY <1>2
    <3>2. pushed = [g EXCEPT !.stack = t]
      BY <1>13 DEF Document
    <3> HIDE DEF t, pushed
    <3>3. pushed.heap = h /\ pushed.stack = t /\ pushed.parsing /\ pushed.value = w
      BY <1>13, <3>1, <3>2, NewStack
    <3>4. SameValues(w, s, v, s) /\ w[t[Len(s) + 1]] = tok
      BY <1>15, <3>1
    <3>5. \A l \in 1 .. Len(s) : w[t[l]] = v[s[l]]
      BY <3>1, <3>4 DEF SameValues
    <3> HIDE DEF w
    <3>6. Abreast(w, t, f, u)
      BY <1>2, <1>9, <2>1, <2>2, <3>1, <3>4, <3>5, AbreastOfOpening
    <3>7. Judged(pushed, u, last)
      BY <1>12, <3>3, <3>6 DEF Judged
    <3> QED
      BY <1>4, <1>21, <2>4, <3>7
  <2> QED
    BY <2>3, <2>4
<1> QED
  BY <1>18, <1>19, <1>20, <1>21

(* Whatever it is. *)
LEMMA FeedJudged ==
  ASSUME NEW d, NEW sure, Steady(d, sure), d.error = "SUCCESS", d.parsing,
         NEW tok \in Tokens, CanAllocate(d.heap, PoolFor(tok)), NEW last \in BOOLEAN,
         NEW toks, Abreast(d.value, d.stack, d.heap.first[Doc], toks), NEW u, Longer(u, toks, tok)
  PROVE  Judged(Feed(d, tok, last), u, last) /\ (last => ~Feed(d, tok, last).parsing)
<1> DEFINE g == Take(d, tok, last)
           r == IF last /\ g.parsing THEN AtEnd(g) ELSE g
           z == Forget(r)
<1>1. Outcome(g, sure) /\ Judged(g, u, last)
  <2>1. CASE tok.k = "tag"
    <3>1. CanAllocate(d.heap, "element")
      BY <2>1 DEF PoolFor
    <3>2. g = TakeTag(d, tok, last)
      BY <2>1 DEF Take
    <3> QED
      BY <2>1, <3>1, <3>2, TakeTagKeeps, TagJudged
  <2>2. CASE tok.k # "tag"
    <3>1. CanAllocate(d.heap, "leaf")
      BY <2>2 DEF PoolFor
    <3>2. g = TakeLeaf(d, tok, last)
      BY <2>2 DEF Take
    <3> QED
      BY <2>2, <3>1, <3>2, TakeLeafKeeps, LeafJudged
  <2> QED
    BY <2>1, <2>2
<1>2. Feed(d, tok, last) = z
  BY DEF Feed
<1> HIDE DEF g
<1>3. Outcome(r, sure)
  BY <1>1, AtEndKeeps, Zenon
<1>4. Judged(r, u, last) /\ (last => ~r.parsing)
  <2>1. CASE ~(last /\ g.parsing)
    BY <1>1, <2>1
  <2>2. CASE last /\ g.parsing
    <3>1. g \in Document /\ g.stack \in Seq(Element) /\ g.error = "SUCCESS" /\ Len(g.stack) \in Nat
      BY <1>1, <2>2 DEF Outcome, Steady, Reading
    <3>2. Abreast(g.value, g.stack, g.heap.first[Doc], u)
      BY <1>1, <2>2 DEF Judged
    <3>3. r.parsing = FALSE /\ (r.error = "SUCCESS" <=> Len(g.stack) = 0)
      <4>1. CASE g.stack = <<>>
        BY <2>2, <3>1, <4>1 DEF AtEnd, Document
      <4>2. CASE g.stack # <<>>
        <5>1. Len(g.stack) # 0
          BY <3>1, <4>2, EmptySeq
        <5>2. r = Fail(g, "PARSING")
          BY <2>2, <4>2 DEF AtEnd
        <5> QED
          BY <3>1, <5>1, <5>2, FailsWith
      <4> QED
        BY <4>1, <4>2
    <3>4. Deserved(u, r.error, TRUE)
      BY <3>1, <3>2, <3>3, DeservedAtEnd
    <3> QED
      BY <2>2, <3>3, <3>4 DEF Judged
  <2> QED
    BY <2>1, <2>2
<1> HIDE DEF r
<1>5. r \in Document
  BY <1>3, Zenon DEF Outcome, Steady
<1>6. /\ z.heap = r.heap /\ z.stack = r.stack /\ z.error = r.error /\ z.parsing = r.parsing
      /\ z.value = [n \in Node |-> IF n \in Alive(r.heap) THEN r.value[n] ELSE Null]
  BY <1>5, Forgotten DEF Forget, Document
<1> HIDE DEF z
<1>7. CASE r.parsing
  <2> DEFINE s == r.stack
             v == r.value
             w == z.value
  <2>1. s \in Seq(Element) /\ Strays(r.heap) = Items(s)
    BY <1>3, <1>7 DEF Outcome, Steady, Reading
  <2>2. Abreast(v, s, r.heap.first[Doc], u)
    BY <1>4, <1>7 DEF Judged
  <2>3. SameValues(w, s, v, s)
    <3>1. \A l \in 1 .. Len(s) : s[l] \in Items(s) /\ s[l] \in Node
      BY <2>1 DEF Items, Node
    <3>2. \A l \in 1 .. Len(s) : s[l] \in Alive(r.heap)
      BY <2>1, <3>1 DEF Strays
    <3> HIDE DEF s, v
    <3> QED
      BY <1>6, <3>1, <3>2 DEF SameValues, v
  <2> HIDE DEF s, v, w
  <2>4. Abreast(w, s, r.heap.first[Doc], u)
    BY <2>2, <2>3 DEF Abreast, SameValues
  <2>5. Judged(z, u, last)
    BY <1>6, <1>7, <2>4 DEF Judged, s, w
  <2> QED
    BY <1>2, <1>4, <1>6, <2>5
<1>8. CASE ~r.parsing
  <2>1. Judged(z, u, last)
    BY <1>4, <1>6, <1>8 DEF Judged
  <2> QED
    BY <1>2, <1>6, <1>8, <2>1
<1> QED
  BY <1>7, <1>8

-----------------------------------------------------------------------------
(* The document that is loaded again and again. *)

\* The counts of untracked nodes are exact until a malformed file is loaded.
DocInv ==
  /\ Steady(doc, ~lost)
  /\ doc.parsing => doc.error = "SUCCESS"
  /\ doc.parsing \/ doc.stack = <<>>
  /\ read \in Seq(Tokens)
  /\ whole \in BOOLEAN /\ lost \in BOOLEAN
  /\ left \in 0 .. MaxTokens

LEMMA DocStarts == InitDoc => DocInv
<1> SUFFICES ASSUME InitDoc PROVE DocInv
  OBVIOUS
<1> DEFINE v == [n \in Node |-> Null]
<1>1. EmptyHeap \in Heap /\ <<>> \in Seq(Element) /\ <<>> \in Seq(Tokens)
  BY TreeInit DEF TreeInv, Sound
<1>2. v \in [Node -> Tokens \union {Null}]
  OBVIOUS
<1>3. doc = [heap |-> EmptyHeap, value |-> v, stack |-> <<>>, error |-> "SUCCESS", parsing |-> FALSE]
  BY DEF InitDoc, EmptyDocument
<1> HIDE DEF v
<1>4. doc \in Document /\ doc.heap = EmptyHeap /\ doc.stack = <<>> /\ doc.error = "SUCCESS" /\ ~doc.parsing
  BY <1>1, <1>2, <1>3 DEF Document, Error
<1>5. Steady(doc, TRUE)
  BY <1>4, EmptyReading, Zenon DEF Steady
<1>6. lost = FALSE /\ read = <<>> /\ whole = FALSE /\ left = MaxTokens
  BY DEF InitDoc
<1>7. Steady(doc, ~lost)
  BY <1>5, <1>6, Zenon DEF Steady, Reading, Tallied, TrackedIf
<1>8. left \in 0 .. MaxTokens
  BY <1>6, InputAssumption
<1> QED
  BY <1>1, <1>4, <1>6, <1>7, <1>8 DEF DocInv

\* c is empty, and may be given any error.
IsCleared(c) ==
  /\ c \in Document /\ c.error = "SUCCESS" /\ c.parsing = FALSE
  /\ \A e \in Error, b \in BOOLEAN :
       LET r == [c EXCEPT !.error = e, !.parsing = b]
       IN Steady(r, ~lost) /\ r.error = e /\ r.parsing = b /\ r.stack = <<>>

(* What LoadFile and Parse do before they read. *)
LEMMA ClearedFor ==
  ASSUME DocInv, ~doc.parsing, NEW c, c = ClearDocument(doc)
  PROVE  IsCleared(c)
<1>1. Steady(doc, ~lost) /\ doc.stack = <<>> /\ doc.parsing = FALSE
  BY DEF DocInv, Steady, Document
<1>2. Steady(c, ~lost) /\ c.stack = <<>> /\ c.error = "SUCCESS" /\ c.parsing = FALSE
  BY <1>1, ClearKeeps, Zenon
<1>3. c \in Document
  BY <1>2 DEF Steady
<1>4. ASSUME NEW e \in Error, NEW b \in BOOLEAN
      PROVE  LET r == [c EXCEPT !.error = e, !.parsing = b]
             IN Steady(r, ~lost) /\ r.error = e /\ r.parsing = b /\ r.stack = <<>>
  <2> DEFINE r == [c EXCEPT !.error = e, !.parsing = b]
  <2>1. r \in Document /\ r.heap = c.heap /\ r.stack = c.stack /\ r.error = e /\ r.parsing = b
    BY <1>3 DEF Document
  <2> HIDE DEF r
  <2>2. Steady(r, ~lost)
    BY <1>2, <2>1, Zenon DEF Steady
  <2> QED
    BY <1>2, <2>1, <2>2 DEF r
<1> QED
  BY <1>2, <1>3, <1>4 DEF IsCleared

(* Reading a token. *)
LEMMA ReadKeeps ==
  ASSUME DocInv, NEW tok \in Tokens, NEW last \in BOOLEAN, Read(tok, last)
  PROVE  DocInv'
<1> DEFINE g == Feed(doc, tok, last)
<1>1. Steady(doc, ~lost) /\ doc.error = "SUCCESS" /\ doc.parsing /\ CanAllocate(doc.heap, PoolFor(tok))
  BY DEF DocInv, Read
<1>2. Outcome(g, ~lost)
  BY <1>1, FeedKeeps, Zenon
<1>3. PICK source \in {"file", "string"} :
        /\ doc' = Returned(g, source)
        /\ lost' = IF doc'.error = "SUCCESS" THEN lost ELSE source = "file"
  BY DEF Read
<1> HIDE DEF g
<1>4. /\ Steady(doc', ~lost') /\ lost' \in BOOLEAN
      /\ doc'.parsing => doc'.error = "SUCCESS"
      /\ doc'.parsing \/ doc'.stack = <<>>
  <2>1. CASE g.error = "SUCCESS"
    <3>1. doc' = g
      BY <1>3, <2>1, Zenon DEF Returned
    <3>2. Steady(g, ~lost) /\ (g.parsing \/ g.stack = <<>>)
      BY <1>2, <2>1, Zenon DEF Outcome
    <3>3. lost' = lost
      BY <1>3, <2>1, <3>1
    <3>4. Steady(doc', ~lost')
      BY <3>1, <3>2, <3>3, Zenon
    <3> QED
      BY <2>1, <3>1, <3>2, <3>3, <3>4 DEF DocInv
  <2>2. CASE g.error # "SUCCESS"
    <3>1. Steady(g, FALSE) /\ ~g.parsing /\ g.stack = <<>> /\ g \in Document
      BY <1>2, <2>2, Zenon DEF Outcome, Steady
    <3>2. CASE source = "file"
      <4>1. doc' = g
        BY <1>3, <3>2, Zenon DEF Returned
      <4>2. lost' = TRUE
        BY <1>3, <2>2, <3>2, <4>1
      <4>3. Steady(doc', ~lost')
        BY <3>1, <4>1, <4>2, Weaker, Zenon DEF Steady
      <4> QED
        BY <2>2, <3>1, <4>1, <4>2, <4>3
    <3>3. CASE source = "string"
      <4> DEFINE r == ClearPools(g)
      <4>1. doc' = r
        BY <1>3, <2>2, <3>3, Zenon DEF Returned
      <4>2. Steady(r, TRUE) /\ r.error = g.error /\ r.stack = <<>> /\ r.parsing = g.parsing
        BY <3>1, ClearPoolsKeeps
      <4> HIDE DEF r
      <4>3. lost' = FALSE
        BY <1>3, <2>2, <3>3, <4>1, <4>2
      <4>4. Steady(doc', ~lost')
        BY <4>1, <4>2, <4>3, Weaker, Zenon DEF Steady
      <4> QED
        BY <2>2, <3>1, <4>1, <4>2, <4>3, <4>4
    <3> QED
      BY <3>2, <3>3
  <2> QED
    BY <2>1, <2>2
<1>5. read' \in Seq(Tokens) /\ whole' \in BOOLEAN
  BY DEF DocInv, Read
<1>6. left' \in 0 .. MaxTokens
  BY InputAssumption DEF DocInv, Read
<1> QED
  BY <1>4, <1>5, <1>6 DEF DocInv

LEMMA DocStep == DocInv /\ [NextDoc]_docVars => DocInv'
<1> SUFFICES ASSUME DocInv, [NextDoc]_docVars PROVE DocInv'
  OBVIOUS
<1> DEFINE c == ClearDocument(doc)
<1>1. c = ClearDocument(doc)
  OBVIOUS
<1> HIDE DEF c
<1>2. <<>> \in Seq(Tokens)
  OBVIOUS
<1>3. ASSUME ~doc.parsing PROVE IsCleared(c)
  BY <1>1, <1>3, ClearedFor, Zenon
<1>4. CASE LoadMissing \/ LoadEmpty
  <2>1. PICK e \in Error : e # "SUCCESS" /\ doc' = [c EXCEPT !.error = e]
    BY <1>1, <1>4 DEF LoadMissing, LoadEmpty, Error
  <2>2. ~doc.parsing /\ read' = <<>> /\ whole' = FALSE /\ left' = left /\ lost' = lost
    BY <1>4 DEF LoadMissing, LoadEmpty
  <2>3. doc' = [c EXCEPT !.error = e, !.parsing = FALSE]
    BY <1>3, <2>1, <2>2 DEF Document, IsCleared
  <2>4. Steady(doc', ~lost) /\ doc'.parsing = FALSE /\ doc'.stack = <<>>
    BY <1>3, <2>2, <2>3, Zenon DEF IsCleared
  <2>5. Steady(doc', ~lost')
    BY <2>2, <2>4, Zenon
  <2> QED
    BY <1>2, <2>2, <2>4, <2>5 DEF DocInv
<1>5. CASE Load
  <2>1. /\ ~doc.parsing /\ doc' = [c EXCEPT !.parsing = TRUE]
        /\ read' = <<>> /\ whole' = FALSE /\ lost' = lost
        /\ left' = IF left < MaxTokens THEN Min({left, MaxAgain}) ELSE left
    BY <1>1, <1>5 DEF Load
  <2>2. doc' = [c EXCEPT !.error = "SUCCESS", !.parsing = TRUE]
    BY <1>3, <2>1 DEF Document, IsCleared
  <2>3. "SUCCESS" \in Error
    BY DEF Error
  <2>4. Steady(doc', ~lost) /\ doc'.error = "SUCCESS" /\ doc'.parsing = TRUE
    BY <1>3, <2>1, <2>2, <2>3, Zenon DEF IsCleared
  <2>5. Steady(doc', ~lost')
    BY <2>1, <2>4, Zenon
  <2>6. left' \in 0 .. MaxTokens
    <3>1. left \in 0 .. MaxTokens /\ MaxTokens \in Nat /\ MaxAgain \in Nat
      BY InputAssumption DEF DocInv
    <3>2. Min({left, MaxAgain}) = IF left <= MaxAgain THEN left ELSE MaxAgain
      BY <3>1 DEF Min
    <3> QED
      BY <2>1, <3>1, <3>2
  <2> QED
    BY <1>2, <2>1, <2>4, <2>5, <2>6 DEF DocInv
<1>6. CASE \E tok \in Tokens, last \in BOOLEAN : Read(tok, last)
  BY <1>6, ReadKeeps
<1>7. CASE UNCHANGED docVars
  BY <1>7 DEF docVars, DocInv
<1> QED
  BY <1>4, <1>5, <1>6, <1>7 DEF NextDoc

(* What is in a document, and what is on its way, has its type: an element is *)
(* on the stack once, and the stack is empty between two calls (tinyxml2.cpp: *)
(* XMLDocument::Parse, XMLNode::ParseDeep).                                *)
THEOREM DocumentTypes == DocSpec => []DocTypeOK
<1>1. DocInv => DocTypeOK
  <2> SUFFICES ASSUME DocInv PROVE DocTypeOK
    OBVIOUS
  <2>1. doc \in Document /\ Reading(doc.heap, doc.stack, ~lost)
    BY DEF DocInv, Steady
  <2>2. doc.heap \in Heap /\ doc.stack \in Seq(Element) /\ doc.error \in Error /\ doc.parsing \in BOOLEAN
    BY <2>1 DEF Document
  <2>3. doc.heap.parent \in [Parent -> Parent \union {Null}]
    BY <2>2 DEF Heap
  <2>4. IsInjective(doc.stack)
    BY <2>1, <2>2 DEF Reading, Distinct, IsInjective
  <2> QED
    BY <2>2, <2>3, <2>4 DEF DocInv, DocTypeOK
<1> QED
  BY <1>1, DocStarts, DocStep, PTL DEF DocSpec

(* As many as are on the stack hang nowhere. *)
LEMMA AsManyItems ==
  ASSUME NEW s \in Seq(Element), Distinct(s), IsFiniteSet(Items(s))
  PROVE  Cardinality(Items(s)) = Len(s)
<1> DEFINE n == Len(s)
           f == [i \in 1 .. n |-> s[i]]
<1>1. n \in Nat
  OBVIOUS
<1>2. f \in Bijection(1 .. n, Items(s))
  BY DEF Items, Distinct, Bijection, Injection, Surjection, IsInjective
<1> HIDE DEF f
<1>3. ExistsBijection(1 .. n, Items(s))
  BY <1>2 DEF ExistsBijection
<1> HIDE DEF n
<1>4. Cardinality(Items(s)) = n
  BY <1>1, <1>3, FS_CountingElements
<1> QED
  BY <1>4 DEF n

(* Whatever is read, from a file or a string, well formed or not, every node *)
(* and attribute in use is in the tree or below an element on the stack, and  *)
(* is counted; an error, on the way back through every level, leaves nothing  *)
(* behind but the counts of untracked nodes, and these only where LoadFile    *)
(* does not empty the pools (XMLNode::ParseDeep, XMLDocument::Clear,          *)
(* tinyxml2.cpp:951-1036, 1872-1879).                                      *)
THEOREM ParserLeaksNothing == DocSpec => []NothingLeaks
<1>1. DocInv => NothingLeaks
  <2> SUFFICES ASSUME DocInv PROVE NothingLeaks
    OBVIOUS
  <2> DEFINE h == doc.heap
             s == doc.stack
  <2>1. /\ TreeInv(h) /\ Tallied(h, ~lost)
        /\ s \in Seq(Element) /\ Distinct(s) /\ Strays(h) = Items(s)
    BY Zenon DEF DocInv, Steady, Reading
  <2> HIDE DEF h, s
  <2>2. LinksAgree(h)
    BY <2>1, TreeLinked
  <2>3. /\ ItemsCounted(h)
        /\ ~lost => \A p \in {"element", "leaf"} : h.pool[p].untracked = Cardinality(Orphans(h, p))
    BY <2>1, TallyAccounts, Zenon
  <2>4. ToSet(s) = Items(s)
    BY <2>1 DEF ToSet, Items
  <2>5. \A x \in Items(s) : x \in Element
    BY <2>1 DEF Items
  <2>6. Orphans(h, "element") = Items(s)
    BY <2>1, <2>5 DEF Orphans, Strays, PoolOf
  <2>7. Orphans(h, "leaf") = {}
    BY <2>1, <2>5 DEF Orphans, Strays, PoolOf
  <2>8. IsFiniteSet(Items(s))
    <3>1. Strays(h) \subseteq Alive(h) /\ IsFiniteSet(Alive(h))
      BY <2>1 DEF Strays, Tallied, Books
    <3> QED
      BY <2>1, <3>1, FS_Subset
  <2>9. Cardinality(Items(s)) = Len(s) /\ Cardinality({}) = 0
    BY <2>1, <2>8, AsManyItems, FS_EmptySet
  <2>10. ~lost => h.pool["element"].untracked = Len(s) /\ h.pool["leaf"].untracked = 0
    BY <2>3, <2>6, <2>7, <2>9
  <2> QED
    BY <2>2, <2>3, <2>4, <2>6, <2>7, <2>10 DEF NothingLeaks, h, s
<1> QED
  BY <1>1, DocStarts, DocStep, PTL DEF DocSpec

-----------------------------------------------------------------------------
(* What is accepted and what is refused. *)

TextInv == DocInv /\ (doc.parsing \/ read # <<>> => Judged(doc, read, whole))

(* Clear leaves nothing below the document.                                *)
LEMMA ClearedFirst ==
  ASSUME NEW h, TreeInv(h)
  PROVE  DeleteChildren(h, Doc).first[Doc] = Null
<1>1. PICK kids : Laid(h, kids)
  BY DEF TreeInv, Sound
<1>2. Doc \in Parent
  BY DEF Parent
<1> DEFINE r == DeleteChildren(h, Doc)
           left_of == Cleared(kids, Items(Below(h, Doc)) \union {Doc})
<1>3. Laid(r, left_of)
  BY <1>1, <1>2, DeleteChildrenKeeps
<1>4. left_of[Doc] = <<>>
  BY <1>2 DEF Cleared
<1> HIDE DEF r, left_of
<1>5. r.first[Doc] = ItemAt(<<>>, 1)
  BY <1>2, <1>3, <1>4 DEF Laid, Chain
<1> QED
  BY <1>5 DEF ItemAt, r

LEMMA TextStarts == InitDoc => TextInv
BY DocStarts DEF TextInv, InitDoc, EmptyDocument

(* Before the first token. *)
LEMMA LoadJudged ==
  ASSUME DocInv, Load
  PROVE  Judged(doc', read', whole')
<1> DEFINE h == DeleteChildren(doc.heap, Doc)
           b == [doc EXCEPT !.heap = h, !.error = "SUCCESS"]
           c == Forget(b)
<1>1. doc \in Document /\ TreeInv(doc.heap) /\ doc.stack = <<>> /\ ~doc.parsing
  BY DEF DocInv, Steady, Reading, Load
<1>2. h.first[Doc] = Null /\ h \in Heap
  BY <1>1, ClearedFirst, DeleteChildrenKeeps DEF Parent, TreeInv, Sound
<1>3. doc' = [c EXCEPT !.parsing = TRUE] /\ read' = <<>>
  BY DEF Load, ClearDocument
<1> HIDE DEF h
<1>4. b \in Document /\ b.heap = h /\ b.stack = <<>>
  BY <1>1, <1>2 DEF Document, Error
<1> HIDE DEF b
<1>5. c \in Document /\ c.heap = h /\ c.stack = <<>>
  BY <1>4, Forgotten
<1> HIDE DEF c
<1>6. doc'.parsing /\ doc'.heap = h /\ doc'.stack = <<>>
  BY <1>3, <1>5 DEF Document
<1>7. Abreast(doc'.value, <<>>, Null, <<>>)
  BY AbreastAtStart
<1> QED
  BY <1>2, <1>3, <1>6, <1>7 DEF Judged

(* After each of them. *)
LEMMA ReadJudged ==
  ASSUME TextInv, NEW tok \in Tokens, NEW last \in BOOLEAN, Read(tok, last)
  PROVE  Judged(doc', read', whole')
<1> DEFINE g == Feed(doc, tok, last)
<1>1. Steady(doc, ~lost) /\ doc.error = "SUCCESS" /\ doc.parsing /\ CanAllocate(doc.heap, PoolFor(tok))
  BY DEF TextInv, DocInv, Read
<1>2. Abreast(doc.value, doc.stack, doc.heap.first[Doc], read) /\ read \in Seq(Tokens)
  BY <1>1 DEF TextInv, DocInv, Judged
<1>3. Longer(Append(read, tok), read, tok)
  BY <1>2, AppendLonger
<1>4. Judged(g, Append(read, tok), last)
  BY <1>1, <1>2, <1>3, FeedJudged, Zenon
<1>5. Outcome(g, ~lost)
  BY <1>1, FeedKeeps, Zenon
<1>6. read' = Append(read, tok) /\ whole' = last
  BY DEF Read
<1>7. PICK source \in {"file", "string"} : doc' = Returned(g, source)
  BY DEF Read
<1> HIDE DEF g
<1>8. CASE doc' = g
  BY <1>4, <1>6, <1>8
<1>9. CASE g.error # "SUCCESS" /\ doc' = ClearPools(g)
  <2>1. g \in Document /\ ~g.parsing /\ g.stack = <<>>
    BY <1>5, <1>9, Zenon DEF Outcome, Steady
  <2>2. doc'.error = g.error /\ doc'.parsing = g.parsing
    BY <1>9, <2>1, ClearPoolsKeeps
  <2>3. Deserved(Append(read, tok), g.error, last)
    BY <1>4, <2>1 DEF Judged
  <2> QED
    BY <1>6, <2>1, <2>2, <2>3 DEF Judged
<1> QED
  BY <1>7, <1>8, <1>9, Zenon DEF Returned

LEMMA TextStep == TextInv /\ [NextDoc]_docVars => TextInv'
<1> SUFFICES ASSUME TextInv, [NextDoc]_docVars PROVE TextInv'
  OBVIOUS
<1>1. DocInv /\ DocInv'
  BY DocStep DEF TextInv
<1>2. CASE LoadMissing \/ LoadEmpty
  <2> DEFINE c == ClearDocument(doc)
  <2>1. IsCleared(c)
    BY <1>1, <1>2, ClearedFor DEF LoadMissing, LoadEmpty
  <2>2. read' = <<>> /\ \E e \in Error : doc' = [c EXCEPT !.error = e]
    BY <1>2 DEF LoadMissing, LoadEmpty, Error
  <2> HIDE DEF c
  <2>3. ~doc'.parsing
    <3>1. c \in Document /\ c.parsing = FALSE
      BY <2>1, Zenon DEF IsCleared
    <3> QED
      BY <2>2, <3>1 DEF Document
  <2> QED
    BY <1>1, <2>2, <2>3 DEF TextInv
<1>3. CASE Load
  BY <1>1, <1>3, LoadJudged DEF TextInv
<1>4. CASE \E tok \in Tokens, last \in BOOLEAN : Read(tok, last)
  BY <1>1, <1>4, ReadJudged DEF TextInv
<1>5. CASE UNCHANGED docVars
  BY <1>1, <1>5 DEF docVars, TextInv
<1> QED
  BY <1>2, <1>3, <1>4, <1>5 DEF NextDoc

(* Between two calls a text that was read is judged.                       *)
LEMMA TextJudged == TextInv /\ Parsed => Deserved(read, doc.error, whole)
BY DEF TextInv, Parsed, Judged

(* What the parser accepts is well formed, up to an end tag that closes      *)
(* nothing: however deep the recursion, each end tag has closed the element *)
(* opened last on its level (XMLNode::ParseDeep, tinyxml2.cpp:951-1036).    *)
THEOREM AcceptsWellFormed == DocSpec => []AcceptedIfWellFormed
<1>1. TextInv => AcceptedIfWellFormed
  BY TextJudged DEF AcceptedIfWellFormed, Deserved, Parsed
<1> QED
  BY <1>1, TextStarts, TextStep, PTL DEF DocSpec

(* And it refuses nothing else: for each error there is a fault in what was *)
(* read, or the input ends with an element open or after a text (the same   *)
(* lines, and XMLDocument::Parse, which reads to the end of the buffer).    *)
THEOREM RefusesTheFaulty == DocSpec => []RefusedForCause
<1>1. TextInv => RefusedForCause
  BY TextJudged DEF RefusedForCause, Deserved, Parsed
<1> QED
  BY <1>1, TextStarts, TextStep, PTL DEF DocSpec

-----------------------------------------------------------------------------
(* Lists put one behind the other.                                         *)

\* f tells what FlattenSeq makes of the first i of the lists s.
Joined(f, s, i) == f[i] = IF i = 1 THEN s[i] ELSE f[i - 1] \o s[i]

Joins(f, s) == f = [i \in 1 .. Len(s) |-> IF i = 1 THEN s[i] ELSE f[i - 1] \o s[i]]

(* There is such a function. *)
LEMMA SomeJoins ==
  ASSUME NEW S, NEW s \in Seq(S)
  PROVE  \E f : Joins(f, s)
<1> DEFINE n == Len(s)
           wrong == {k \in 0 .. n : ~ \E g : \A i \in 1 .. k : Joined(g, s, i)}
<1>1. n \in Nat
  OBVIOUS
<1> HIDE DEF n
<1>2. wrong = {}
  <2> SUFFICES ASSUME wrong # {} PROVE FALSE
    OBVIOUS
  <2>1. wrong \in SUBSET Nat
    BY <1>1
  <2>2. PICK k \in wrong : \A l \in wrong : k <= l
    BY <2>1, LeastOfNat
  <2>3. k \in 0 .. n /\ ~ \E g : \A i \in 1 .. k : Joined(g, s, i)
    OBVIOUS
  <2>4. k # 0
    BY <2>3
  <2>5. k - 1 \in 0 .. n /\ ~(k <= k - 1)
    BY <1>1, <2>3, <2>4
  <2>6. k - 1 \notin wrong
    <3> HIDE DEF wrong
    <3> QED
      BY <2>2, <2>5
  <2>7. PICK g : \A i \in 1 .. k - 1 : Joined(g, s, i)
    BY <2>5, <2>6
  <2> DEFINE x == IF k = 1 THEN s[k] ELSE g[k - 1] \o s[k]
             f == [i \in 1 .. k |-> IF i = k THEN x ELSE g[i]]
  <2> HIDE DEF x
  <2>8. f[k] = x /\ \A i \in 1 .. k - 1 : f[i] = g[i]
    BY <1>1, <2>3, <2>4
  <2> HIDE DEF f
  <2>9. ASSUME NEW i \in 1 .. k PROVE Joined(f, s, i)
    <3>1. CASE i = k
      <4>1. k # 1 => f[k - 1] = g[k - 1]
        BY <1>1, <2>3, <2>4, <2>8
      <4> QED
        BY <2>8, <3>1, <4>1 DEF Joined, x
    <3>2. CASE i # k
      <4>1. i \in 1 .. k - 1 /\ (i # 1 => i - 1 \in 1 .. k - 1)
        BY <1>1, <2>3, <3>2
      <4>2. f[i] = g[i] /\ (i # 1 => f[i - 1] = g[i - 1])
        BY <2>8, <4>1
      <4>3. Joined(g, s, i)
        BY <2>7, <4>1
      <4> QED
        BY <4>2, <4>3 DEF Joined
    <3> QED
      BY <3>1, <3>2
  <2> QED
    BY <2>3, <2>9
<1>3. PICK g : \A i \in 1 .. n : Joined(g, s, i)
  <2>1. n \in 0 .. n
    BY <1>1
  <2> QED
    BY <1>2, <2>1
<1> DEFINE f == [i \in 1 .. n |-> g[i]]
<1>4. ASSUME NEW i \in 1 .. n PROVE f[i] = IF i = 1 THEN s[i] ELSE f[i - 1] \o s[i]
  <2>1. i # 1 => i - 1 \in 1 .. n
    BY <1>1
  <2>2. f[i] = g[i] /\ (i # 1 => f[i - 1] = g[i - 1])
    BY <2>1
  <2>3. Joined(g, s, i)
    BY <1>3
  <2> HIDE DEF f
  <2> QED
    BY <2>2, <2>3 DEF Joined
<1>5. f = [i \in 1 .. n |-> f[i]]
  OBVIOUS
<1> HIDE DEF f
<1>6. f = [i \in 1 .. n |-> IF i = 1 THEN s[i] ELSE f[i - 1] \o s[i]]
  BY <1>4, <1>5
<1> QED
  BY <1>6 DEF Joins, n

BeginsWith(t, s) == Len(s) <= Len(t) /\ \A i \in 1 .. Len(s) : t[i] = s[i]

(* What it makes of lists over S is a list over S, and depends on those      *)
(* before alone.                                                           *)
LEMMA JoinsTyped ==
  ASSUME NEW S, NEW s \in Seq(Seq(S)), NEW f, Joins(f, s)
  PROVE  \A i \in 1 .. Len(s) : f[i] \in Seq(S) /\ Joined(f, s, i)
<1> DEFINE n == Len(s)
           wrong == {i \in 1 .. n : f[i] \notin Seq(S)}
<1>1. n \in Nat /\ \A i \in 1 .. n : s[i] \in Seq(S)
  OBVIOUS
<1>2. f = [i \in 1 .. n |-> IF i = 1 THEN s[i] ELSE f[i - 1] \o s[i]]
  BY DEF Joins
<1> HIDE DEF n
<1>3. \A i \in 1 .. n : f[i] = IF i = 1 THEN s[i] ELSE f[i - 1] \o s[i]
  BY <1>2
<1>4. wrong = {}
  <2> SUFFICES ASSUME wrong # {} PROVE FALSE
    OBVIOUS
  <2>1. wrong \in SUBSET Nat
    BY <1>1
  <2>2. PICK k \in wrong : \A l \in wrong : k <= l
    BY <2>1, LeastOfNat
  <2>3. k \in 1 .. n /\ f[k] \notin Seq(S)
    OBVIOUS
  <2>4. k # 1
    BY <1>1, <1>3, <2>3
  <2>5. k - 1 \in 1 .. n /\ ~(k <= k - 1)
    BY <1>1, <2>3, <2>4
  <2>6. f[k - 1] \in Seq(S)
    <3>1. k - 1 \notin wrong
      <4> HIDE DEF wrong
      <4> QED
        BY <2>2, <2>5
    <3> QED
      BY <2>5, <3>1
  <2>7. f[k] = f[k - 1] \o s[k] /\ s[k] \in Seq(S)
    BY <1>1, <1>3, <2>3, <2>4
  <2> QED
    BY <2>3, <2>6, <2>7, ConcatProperties
<1> QED
  BY <1>3, <1>4 DEF Joined, n

(* Where two lists begin alike, what it makes of their beginnings is one.   *)
LEMMA JoinsAgree ==
  ASSUME NEW S, NEW s \in Seq(Seq(S)), NEW f, Joins(f, s),
         NEW t \in Seq(Seq(S)), NEW g, Joins(g, t), BeginsWith(t, s)
  PROVE  \A i \in 1 .. Len(s) : g[i] = f[i]
<1> DEFINE n == Len(s)
           wrong == {i \in 1 .. n : g[i] # f[i]}
<1>1. n \in Nat /\ \A i \in 1 .. n : i \in 1 .. Len(t)
  BY DEF BeginsWith
<1>2. \A i \in 1 .. n : Joined(f, s, i) /\ Joined(g, t, i)
  BY <1>1, JoinsTyped
<1> HIDE DEF n
<1>3. wrong = {}
  <2> SUFFICES ASSUME wrong # {} PROVE FALSE
    OBVIOUS
  <2>1. wrong \in SUBSET Nat
    BY <1>1
  <2>2. PICK k \in wrong : \A l \in wrong : k <= l
    BY <2>1, LeastOfNat
  <2>3. k \in 1 .. n /\ g[k] # f[k] /\ t[k] = s[k]
    BY DEF BeginsWith, n
  <2>4. Joined(f, s, k) /\ Joined(g, t, k)
    BY <1>2, <2>3
  <2>5. k # 1
    BY <2>3, <2>4 DEF Joined
  <2>6. k - 1 \in 1 .. n /\ ~(k <= k - 1)
    BY <1>1, <2>3, <2>5
  <2>7. g[k - 1] = f[k - 1]
    <3>1. k - 1 \notin wrong
      <4> HIDE DEF wrong
      <4> QED
        BY <2>2, <2>6
    <3> QED
      BY <2>6, <3>1
  <2> QED
    BY <2>3, <2>4, <2>5, <2>7 DEF Joined
<1> QED
  BY <1>3 DEF n

(* None, and one more. *)
LEMMA FlatIs ==
  ASSUME NEW S, NEW s \in Seq(S), Len(s) # 0
  PROVE  \E f : Joins(f, s) /\ FlattenSeq(s) = f[Len(s)]
<1> DEFINE f == CHOOSE g : g = [i \in 1 .. Len(s) |-> IF i = 1 THEN s[i] ELSE g[i - 1] \o s[i]]
<1>1. FlattenSeq(s) = f[Len(s)]
  BY DEF FlattenSeq
<1>2. Joins(f, s)
  BY SomeJoins DEF Joins
<1> QED
  BY <1>1, <1>2

LEMMA FlatNil == FlattenSeq(<<>>) = <<>>
BY DEF FlattenSeq

(* With one list more, that list is put behind the rest. *)
LEMMA FlatNext ==
  ASSUME NEW S, NEW s \in Seq(Seq(S)), NEW x \in Seq(S)
  PROVE  /\ FlattenSeq(s) \in Seq(S)
         /\ FlattenSeq(Append(s, x)) = FlattenSeq(s) \o x
<1> DEFINE t == Append(s, x)
           n == Len(s)
<1>1. t \in Seq(Seq(S)) /\ Len(t) = n + 1 /\ n \in Nat /\ t[n + 1] = x /\ \A i \in 1 .. n : t[i] = s[i]
  OBVIOUS
<1>2. n + 1 \in 1 .. Len(t) /\ n + 1 # 0 /\ n <= Len(t) /\ n + 1 - 1 = n
  BY <1>1
<1> HIDE DEF t
<1>3. PICK g : Joins(g, t) /\ FlattenSeq(t) = g[n + 1]
  BY <1>1, <1>2, FlatIs
<1>4. Joined(g, t, n + 1)
  BY <1>1, <1>2, <1>3, JoinsTyped
<1>5. CASE n = 0
  <2>1. s = <<>>
    BY <1>5
  <2>2. FlattenSeq(s) = <<>>
    BY <2>1, FlatNil
  <2>3. <<>> \o x = x
    OBVIOUS
  <2>4. FlattenSeq(t) = x
    BY <1>1, <1>3, <1>4, <1>5 DEF Joined
  <2> QED
    BY <2>2, <2>3, <2>4 DEF t
<1>6. CASE n # 0
  <2>1. n \in 1 .. n
    BY <1>1, <1>6
  <2>2. PICK f : Joins(f, s) /\ FlattenSeq(s) = f[n]
    BY <1>6, FlatIs
  <2>3. f[n] \in Seq(S)
    BY <2>1, <2>2, JoinsTyped
  <2>4. \A i \in 1 .. n : g[i] = f[i]
    <3>1. BeginsWith(t, s)
      BY <1>1, <1>2 DEF BeginsWith
    <3>2. Joins(f, s) /\ Joins(g, t) /\ t \in Seq(Seq(S))
      BY <1>1, <1>3, <2>2
    <3> QED
      BY <3>1, <3>2, JoinsAgree
  <2>5. g[n + 1] = g[n] \o t[n + 1]
    BY <1>1, <1>2, <1>4, <1>6 DEF Joined
  <2> QED
    BY <1>1, <1>3, <2>1, <2>2, <2>3, <2>4, <2>5 DEF t
<1> QED
  BY <1>5, <1>6

-----------------------------------------------------------------------------
(* What the tokens say and what the nodes say.                             *)

Enters(tok) == [k |-> "enter", name |-> tok.name, attrs |-> tok.attrs]
Exits(tok) == [k |-> "exit", name |-> tok.name]

Call == Tokens \union {Enters(tok) : tok \in Tokens} \union {Exits(tok) : tok \in Tokens}

(* The meaning of a text grows with it. *)
LEMMA MeantCalls ==
  ASSUME NEW tok \in Tokens
  PROVE  /\ Meant(tok) \in Seq(Call)
         /\ Opens(tok) => Meant(tok) = <<Enters(tok)>>
         /\ Closes(tok) => Meant(tok) = <<Exits(tok)>>
         /\ tok.k = "tag" /\ ~Opens(tok) /\ ~Closes(tok) => Meant(tok) = <<Enters(tok), Exits(tok)>>
         /\ tok.k # "tag" => Meant(tok) = <<tok>>
<1> DEFINE a == Enters(tok)
           z == Exits(tok)
<1>1. tok \in Call /\ a \in Call /\ z \in Call
  BY DEF Call
<1>2. ~(Opens(tok) /\ Closes(tok)) /\ (Opens(tok) => tok.k = "tag") /\ (Closes(tok) => tok.k = "tag")
  BY DEF Opens, Closes
<1>3. Meant(tok) = CASE tok.k # "tag" -> <<tok>>
                     [] Opens(tok) -> <<a>>
                     [] Closes(tok) -> <<z>>
                     [] OTHER -> <<a, z>>
  BY DEF Meant, Enters, Exits
<1> HIDE DEF a, z
<1>4. /\ Opens(tok) => Meant(tok) = <<a>>
      /\ Closes(tok) => Meant(tok) = <<z>>
      /\ tok.k = "tag" /\ ~Opens(tok) /\ ~Closes(tok) => Meant(tok) = <<a, z>>
      /\ tok.k # "tag" => Meant(tok) = <<tok>>
  BY <1>2, <1>3
<1>5. Meant(tok) \in {<<tok>>, <<a>>, <<z>>, <<a, z>>}
  BY <1>4
<1>6. <<tok>> \in Seq(Call) /\ <<a>> \in Seq(Call) /\ <<z>> \in Seq(Call) /\ <<a, z>> \in Seq(Call)
  BY <1>1
<1> QED
  BY <1>4, <1>5, <1>6 DEF a, z

LEMMA MeaningNil == Meaning(<<>>) = <<>>
<1>1. [i \in DOMAIN <<>> |-> Meant(<<>>[i])] = <<>>
  OBVIOUS
<1> QED
  BY <1>1, FlatNil DEF Meaning

(* The next token puts its calls behind those before. *)
LEMMA MeaningNext ==
  ASSUME NEW toks \in Seq(Tokens), NEW tok \in Tokens, NEW u, Longer(u, toks, tok)
  PROVE  /\ Meaning(toks) \in Seq(Call)
         /\ Meaning(u) = Meaning(toks) \o Meant(tok)
<1> DEFINE m == Len(toks)
           s == [i \in 1 .. m |-> Meant(toks[i])]
           t == [i \in 1 .. m + 1 |-> Meant(u[i])]
           x == Meant(tok)
<1>1. /\ m \in Nat /\ DOMAIN toks = 1 .. m /\ DOMAIN u = 1 .. m + 1
      /\ u[m + 1] = tok /\ \A i \in 1 .. m : u[i] = toks[i] /\ toks[i] \in Tokens
  BY DEF Longer
<1>2. Meaning(toks) = FlattenSeq(s) /\ Meaning(u) = FlattenSeq(t)
  BY <1>1 DEF Meaning
<1>3. \A i \in 1 .. m : Meant(toks[i]) \in Seq(Call)
  BY <1>1, MeantCalls
<1>4. x \in Seq(Call)
  BY MeantCalls
<1> HIDE DEF m
<1>5. s \in Seq(Seq(Call)) /\ Len(s) = m /\ \A i \in 1 .. m : s[i] = Meant(toks[i])
  BY <1>1, <1>3
<1>6. Len(t) = m + 1 /\ t[m + 1] = x /\ (\A i \in 1 .. m : t[i] = s[i]) /\ t = [i \in 1 .. m + 1 |-> t[i]]
  BY <1>1, <1>5
<1> HIDE DEF s, t, x
<1>7. t = Append(s, x)
  <2> DEFINE r == Append(s, x)
  <2>1. Len(r) = m + 1 /\ r[m + 1] = x /\ (\A i \in 1 .. m : r[i] = s[i]) /\ r = [i \in 1 .. m + 1 |-> r[i]]
    <3>1. m = Len(s) /\ s \in Seq(Seq(Call)) /\ x \in Seq(Call)
      BY <1>4, <1>5
    <3>2. r \in Seq(Seq(Call)) /\ Len(r) = Len(s) + 1 /\ r[Len(s) + 1] = x /\ \A i \in 1 .. Len(s) : r[i] = s[i]
      BY <3>1, AppendProperties
    <3> HIDE DEF r
    <3>3. DOMAIN r = 1 .. Len(r) /\ r = [i \in DOMAIN r |-> r[i]]
      BY <3>2
    <3> QED
      BY <3>1, <3>2, <3>3
  <2> HIDE DEF r
  <2>2. \A i \in 1 .. m + 1 : t[i] = r[i]
    <3>1. \A i \in 1 .. m + 1 : i \in 1 .. m \/ i = m + 1
      BY <1>1
    <3> QED
      BY <1>6, <2>1, <3>1
  <2> QED
    BY <1>6, <2>1, <2>2 DEF r
<1> QED
  BY <1>2, <1>4, <1>5, <1>7, FlatNext DEF x

\* The calls for a node, where g tells those for what hangs below it.
Enter(h, v, n) == [k |-> "enter", name |-> v[n].name, attrs |-> h.attr[n]]
Exit(v, n) == [k |-> "exit", name |-> v[n].name]

Told(g, h, v, n) == IF n \in Leaf THEN <<v[n]>> ELSE <<Enter(h, v, n)>> \o g[n] \o <<Exit(v, n)>>

ToldOf(g, h, v, s) == [i \in 1 .. Len(s) |-> Told(g, h, v, s[i])]

Sayable(h, v, n) == IF n \in Leaf THEN v[n] \in Call ELSE Enter(h, v, n) \in Call /\ Exit(v, n) \in Call

InUse(h) == Alive(h) \union {Doc}

Tells(g, h, v) ==
  \A n \in InUse(h) :
    /\ g[n] \in Seq(Call)
    /\ g[n] = FlattenSeq(ToldOf(g, h, v, KidsOf(h)[n]))
    /\ n # Doc => Sayable(h, v, n)

\* The node n is the same in both.
Alike(k, w, h, v, n) == w[n] = v[n] /\ (n \in Element => k.attr[n] = h.attr[n])

(* Such a node is told alike, if what is below it is. *)
LEMMA ToldAlike ==
  ASSUME NEW k, NEW w, NEW h, NEW v, NEW n \in Node, Alike(k, w, h, v, n)
  PROVE  /\ Sayable(k, w, n) <=> Sayable(h, v, n)
         /\ \A f, g : f[n] = g[n] => Told(f, k, w, n) = Told(g, h, v, n)
         /\ n \in Element => Enter(k, w, n) = Enter(h, v, n)
<1>1. n \in Leaf \/ n \in Element
  BY DEF Node
<1>2. w[n] = v[n] /\ (n \in Element => k.attr[n] = h.attr[n])
  BY DEF Alike
<1>3. Exit(w, n) = Exit(v, n)
  BY <1>2 DEF Exit
<1>4. n \in Element => Enter(k, w, n) = Enter(h, v, n)
  BY <1>2 DEF Enter
<1>5. (n \notin Leaf) => n \in Element
  BY <1>1
<1> QED
  BY <1>2, <1>3, <1>4, <1>5, Zenon DEF Sayable, Told

(* What is told of a node are calls. *)
LEMMA ToldTyped ==
  ASSUME NEW g, NEW h, NEW v, NEW n, Sayable(h, v, n), g[n] \in Seq(Call)
  PROVE  Told(g, h, v, n) \in Seq(Call)
<1>1. CASE n \in Leaf
  <2>1. v[n] \in Call
    BY <1>1, Zenon DEF Sayable
  <2>2. <<v[n]>> \in Seq(Call)
    BY <2>1
  <2> QED
    BY <1>1, <2>2 DEF Told
<1>2. CASE n \notin Leaf
  <2> DEFINE a == Enter(h, v, n)
             z == Exit(v, n)
  <2>1. a \in Call /\ z \in Call
    BY <1>2, Zenon DEF Sayable
  <2>2. Told(g, h, v, n) = <<a>> \o g[n] \o <<z>>
    BY <1>2 DEF Told
  <2> HIDE DEF a, z
  <2>3. <<a>> \in Seq(Call) /\ <<z>> \in Seq(Call)
    BY <2>1
  <2>4. <<a>> \o g[n] \in Seq(Call)
    BY <2>3, ConcatProperties
  <2>5. <<a>> \o g[n] \o <<z>> \in Seq(Call)
    BY <2>3, <2>4, ConcatProperties
  <2> QED
    BY <2>2, <2>5
<1> QED
  BY <1>1, <1>2

(* The children of what is in use are in use, and no child is without a parent. *)
LEMMA KidsInUse ==
  ASSUME NEW h, TreeInv(h), NEW n \in InUse(h)
  PROVE  /\ n \in Parent /\ KidsOf(h)[n] \in Seq(Node)
         /\ \A i \in 1 .. Len(KidsOf(h)[n]) :
              LET c == KidsOf(h)[n][i]
              IN c \in Alive(h) /\ c \in Node /\ c # Doc /\ h.parent[c] = n
<1>1. Laid(h, KidsOf(h))
  BY KidsAre
<1>2. n \in Parent
  BY DEF InUse, Alive, Parent
<1> DEFINE s == KidsOf(h)[n]
<1>3. s \in Seq(Node) /\ \A i \in 1 .. Len(s) : h.parent[s[i]] = n
  BY <1>1, <1>2 DEF Laid, Chain
<1> HIDE DEF s
<1>4. ASSUME NEW i \in 1 .. Len(s) PROVE s[i] \in Alive(h) /\ s[i] \in Node /\ s[i] # Doc
  <2>1. s[i] \in Node /\ s[i] \in Parent /\ n # Null
    BY <1>2, <1>3, HeapAssumption DEF Parent
  <2> QED
    BY <1>3, <2>1, HeapAssumption DEF TreeInv, Sound, Housed
<1> QED
  BY <1>2, <1>3, <1>4 DEF s

(* And so are lists of such nodes. *)
LEMMA ToldListAlike ==
  ASSUME NEW f, NEW k, NEW w, NEW g, NEW h, NEW v, NEW s,
         \A i \in 1 .. Len(s) : Told(f, k, w, s[i]) = Told(g, h, v, s[i])
  PROVE  ToldOf(f, k, w, s) = ToldOf(g, h, v, s)
BY DEF ToldOf

\* What changes from h and v to k and w is in the node p, if anything is.
ChangedAt(k, w, h, v, p) ==
  \A n \in InUse(k) \ {p} :
    n \in InUse(h) /\ KidsOf(k)[n] = KidsOf(h)[n] /\ (n # Doc => Alike(k, w, h, v, n))

(* Where a change is confined to a node that is no child, the others say what *)
(* they did.                                                               *)
LEMMA Retold ==
  ASSUME NEW h, NEW v, NEW g, Tells(g, h, v), NEW k, TreeInv(k), NEW w,
         NEW p \in InUse(k), p = Doc \/ k.parent[p] = Null, ChangedAt(k, w, h, v, p),
         NEW x \in Seq(Call), x = FlattenSeq(ToldOf(g, k, w, KidsOf(k)[p])), p # Doc => Sayable(k, w, p)
  PROVE  \E f : Tells(f, k, w) /\ f[p] = x /\ \A n \in InUse(k) \ {p} : f[n] = g[n]
<1> DEFINE f == [n \in Parent |-> IF n = p THEN x ELSE g[n]]
<1>1. \A n \in InUse(k) : n \in Parent
  BY DEF InUse, Alive, Parent
<1>2. f[p] = x /\ \A n \in InUse(k) \ {p} : f[n] = g[n]
  BY <1>1
<1> HIDE DEF f
<1>3. ASSUME NEW n \in InUse(k), NEW i \in 1 .. Len(KidsOf(k)[n])
      PROVE  LET c == KidsOf(k)[n][i]
             IN c \in InUse(k) \ {p} /\ c \in Node /\ c # Doc /\ f[c] = g[c] /\ Alike(k, w, h, v, c)
  <2> DEFINE c == KidsOf(k)[n][i]
  <2>1. c \in Alive(k) /\ c \in Node /\ c # Doc /\ k.parent[c] = n /\ n \in Parent
    BY <1>3, KidsInUse
  <2> HIDE DEF c
  <2>2. c # p
    BY <2>1, HeapAssumption DEF Parent
  <2>3. c \in InUse(k) \ {p}
    BY <2>1, <2>2 DEF InUse
  <2>4. f[c] = g[c] /\ Alike(k, w, h, v, c)
    BY <1>2, <2>1, <2>3 DEF ChangedAt
  <2> QED
    BY <2>1, <2>3, <2>4 DEF c
<1>4. ASSUME NEW n \in InUse(k) \ {p}
      PROVE  /\ f[n] \in Seq(Call)
             /\ f[n] = FlattenSeq(ToldOf(f, k, w, KidsOf(k)[n]))
             /\ n # Doc => Sayable(k, w, n)
  <2>1. /\ n \in InUse(h) /\ KidsOf(k)[n] = KidsOf(h)[n] /\ (n # Doc => Alike(k, w, h, v, n))
        /\ f[n] = g[n]
    BY <1>2 DEF ChangedAt
  <2>2. g[n] \in Seq(Call) /\ g[n] = FlattenSeq(ToldOf(g, h, v, KidsOf(h)[n])) /\ (n # Doc => Sayable(h, v, n))
    BY <2>1 DEF Tells
  <2> DEFINE s == KidsOf(k)[n]
  <2>3. \A i \in 1 .. Len(s) : s[i] \in Node /\ f[s[i]] = g[s[i]] /\ Alike(k, w, h, v, s[i])
    BY <1>3
  <2> HIDE DEF s
  <2>4. \A i \in 1 .. Len(s) : Told(f, k, w, s[i]) = Told(g, h, v, s[i])
    BY <2>3, ToldAlike
  <2>5. ToldOf(f, k, w, s) = ToldOf(g, h, v, s)
    BY <2>4, ToldListAlike
  <2>6. n # Doc => n \in Node
    BY DEF InUse, Alive
  <2>7. n # Doc => Sayable(k, w, n)
    BY <2>1, <2>2, <2>6, ToldAlike
  <2> QED
    BY <2>1, <2>2, <2>5, <2>7 DEF s
<1>5. /\ f[p] \in Seq(Call)
      /\ f[p] = FlattenSeq(ToldOf(f, k, w, KidsOf(k)[p]))
  <2> DEFINE s == KidsOf(k)[p]
  <2>1. \A i \in 1 .. Len(s) : s[i] \in Node /\ f[s[i]] = g[s[i]]
    BY <1>3
  <2> HIDE DEF s
  <2>2. \A i \in 1 .. Len(s) : Alike(k, w, k, w, s[i])
    BY DEF Alike
  <2>3. \A i \in 1 .. Len(s) : Told(f, k, w, s[i]) = Told(g, k, w, s[i])
    BY <2>1, <2>2, ToldAlike
  <2>4. ToldOf(f, k, w, s) = ToldOf(g, k, w, s)
    BY <2>3, ToldListAlike
  <2> QED
    BY <1>2, <2>4 DEF s
<1>6. Tells(f, k, w)
  <2>1. \A n \in InUse(k) : n = p \/ n \in InUse(k) \ {p}
    OBVIOUS
  <2> QED
    BY <1>4, <1>5, <2>1 DEF Tells
<1> QED
  BY <1>2, <1>6

(* And where there is no change at all, all of them do.                    *)
LEMMA StillTold ==
  ASSUME NEW h, NEW v, NEW g, Tells(g, h, v), NEW k, TreeInv(k), NEW w, ChangedAt(k, w, h, v, Null)
  PROVE  Tells(g, k, w)
<1>1. ASSUME NEW n \in InUse(k)
      PROVE  n \in InUse(h) /\ KidsOf(k)[n] = KidsOf(h)[n] /\ (n # Doc => n \in Node /\ Alike(k, w, h, v, n))
  <2>1. n # Null /\ (n # Doc => n \in Node)
    BY HeapAssumption DEF InUse, Alive
  <2> QED
    BY <2>1 DEF ChangedAt
<1>2. ASSUME NEW n \in InUse(k)
      PROVE  /\ g[n] \in Seq(Call)
             /\ g[n] = FlattenSeq(ToldOf(g, k, w, KidsOf(k)[n]))
             /\ n # Doc => Sayable(k, w, n)
  <2>1. n \in InUse(h) /\ KidsOf(k)[n] = KidsOf(h)[n] /\ (n # Doc => n \in Node /\ Alike(k, w, h, v, n))
    BY <1>1
  <2>2. g[n] \in Seq(Call) /\ g[n] = FlattenSeq(ToldOf(g, h, v, KidsOf(h)[n])) /\ (n # Doc => Sayable(h, v, n))
    BY <2>1 DEF Tells
  <2> DEFINE s == KidsOf(k)[n]
  <2>3. ASSUME NEW i \in 1 .. Len(s) PROVE s[i] \in Node /\ Alike(k, w, h, v, s[i])
    <3>1. s[i] \in Alive(k) /\ s[i] \in Node /\ s[i] # Doc
      BY KidsInUse
    <3>2. s[i] \in InUse(k)
      BY <3>1 DEF InUse
    <3> HIDE DEF s
    <3> QED
      BY <1>1, <3>1, <3>2
  <2> HIDE DEF s
  <2>4. \A i \in 1 .. Len(s) : Told(g, k, w, s[i]) = Told(g, h, v, s[i])
    BY <2>3, ToldAlike
  <2>5. ToldOf(g, k, w, s) = ToldOf(g, h, v, s)
    BY <2>4, ToldListAlike
  <2>6. n # Doc => Sayable(k, w, n)
    BY <2>1, <2>2, ToldAlike
  <2> QED
    BY <2>1, <2>2, <2>5, <2>6 DEF s
<1> QED
  BY <1>2 DEF Tells

\* The calls from the beginning of the text down to the level being read: m
\* tells those down to each level.
Spelled(m, g, h, v, s, c) ==
  /\ \A l \in 0 .. Len(s) : m[l] \in Seq(Call)
  /\ m[0] = g[Doc]
  /\ \A l \in 1 .. Len(s) : m[l] = m[l - 1] \o <<Enter(h, v, s[l])>> \o g[s[l]]
  /\ m[Len(s)] = c

\* The document, with what is below the elements on the stack, holds the calls c.
Mirrors(h, v, s, c) == \E g, m : Tells(g, h, v) /\ Spelled(m, g, h, v, s, c)

\* Nothing on the way down has changed.
SameWay(f, k, w, g, h, v, s) ==
  /\ f[Doc] = g[Doc]
  /\ \A l \in 1 .. Len(s) : f[s[l]] = g[s[l]] /\ Enter(k, w, s[l]) = Enter(h, v, s[l])

(* Then the calls are the same. *)
LEMMA SpelledAlike ==
  ASSUME NEW m, NEW g, NEW h, NEW v, NEW s, NEW c, Spelled(m, g, h, v, s, c),
         NEW f, NEW k, NEW w, SameWay(f, k, w, g, h, v, s)
  PROVE  Spelled(m, f, k, w, s, c)
BY DEF Spelled, SameWay

\* On the lowest level alone the calls y have been added.
AddedAtEnd(f, k, w, g, h, v, s, y) ==
  /\ f[Above(s)] = g[Above(s)] \o y
  /\ Len(s) # 0 => f[Doc] = g[Doc]
  /\ \A l \in 1 .. Len(s) - 1 : f[s[l]] = g[s[l]]
  /\ \A l \in 1 .. Len(s) : Enter(k, w, s[l]) = Enter(h, v, s[l])

(* Then they are added to all of them. *)
LEMMA SpelledMore ==
  ASSUME NEW m, NEW g, NEW h, NEW v, NEW s \in Seq(Element), NEW c, Spelled(m, g, h, v, s, c),
         NEW f, NEW k, NEW w, NEW y \in Seq(Call), AddedAtEnd(f, k, w, g, h, v, s, y),
         g[Above(s)] \in Seq(Call),
         \A l \in 1 .. Len(s) : Enter(h, v, s[l]) \in Call
  PROVE  \E r : Spelled(r, f, k, w, s, c \o y)
<1> DEFINE n == Len(s)
           r == [l \in 0 .. n |-> IF l = n THEN m[n] \o y ELSE m[l]]
<1>1. /\ n \in Nat
      /\ \A l \in 0 .. n : m[l] \in Seq(Call)
      /\ m[0] = g[Doc] /\ m[n] = c
      /\ \A l \in 1 .. n : m[l] = m[l - 1] \o <<Enter(h, v, s[l])>> \o g[s[l]]
  <2>1. n \in Nat
    OBVIOUS
  <2> QED
    BY <2>1, Zenon DEF Spelled
<1>2. /\ f[Above(s)] = g[Above(s)] \o y
      /\ n # 0 => f[Doc] = g[Doc]
      /\ \A l \in 1 .. n - 1 : f[s[l]] = g[s[l]]
      /\ \A l \in 1 .. n : Enter(k, w, s[l]) = Enter(h, v, s[l])
  BY DEF AddedAtEnd
<1>3. (n = 0 => Above(s) = Doc) /\ (n # 0 => Above(s) = s[n])
  BY DEF Above, Last
<1> HIDE DEF n
<1>4. r[n] = m[n] \o y /\ \A l \in 0 .. n - 1 : r[l] = m[l]
  BY <1>1
<1> HIDE DEF r
<1>5. m[n] \in Seq(Call) /\ m[n] \o y \in Seq(Call)
  <2>1. n \in 0 .. n
    BY <1>1
  <2>2. m[n] \in Seq(Call)
    BY <1>1, <2>1
  <2> QED
    BY <2>2, ConcatProperties
<1>6. \A l \in 0 .. n : r[l] \in Seq(Call)
  <2>1. \A l \in 0 .. n : l = n \/ l \in 0 .. n - 1
    BY <1>1
  <2> QED
    BY <1>1, <1>4, <1>5, <2>1
<1>7. r[0] = f[Doc]
  <2>1. CASE n = 0
    BY <1>1, <1>2, <1>3, <1>4, <2>1
  <2>2. CASE n # 0
    <3>1. 0 \in 0 .. n - 1
      BY <1>1, <2>2
    <3> QED
      BY <1>1, <1>2, <1>4, <2>2, <3>1
  <2> QED
    BY <2>1, <2>2
<1>8. ASSUME NEW l \in 1 .. n PROVE r[l] = r[l - 1] \o <<Enter(k, w, s[l])>> \o f[s[l]]
  <2>1. l - 1 \in 0 .. n - 1 /\ l - 1 \in 0 .. n
    BY <1>1
  <2>2. r[l - 1] = m[l - 1] /\ m[l - 1] \in Seq(Call)
    BY <1>1, <1>4, <2>1
  <2> DEFINE a == Enter(h, v, s[l])
  <2>3. a \in Call /\ Enter(k, w, s[l]) = a /\ m[l] = m[l - 1] \o <<a>> \o g[s[l]]
    BY <1>1, <1>2 DEF n
  <2> HIDE DEF a
  <2>4. CASE l = n
    <3>1. n # 0 /\ s[l] = Above(s)
      BY <1>1, <1>3, <2>4
    <3>2. f[s[l]] = g[s[l]] \o y /\ g[s[l]] \in Seq(Call)
      BY <1>2, <3>1
    <3>3. m[l - 1] \o <<a>> \in Seq(Call)
      <4>1. <<a>> \in Seq(Call)
        BY <2>3
      <4> QED
        BY <2>2, <4>1, ConcatProperties
    <3>4. (m[l - 1] \o <<a>> \o g[s[l]]) \o y = m[l - 1] \o <<a>> \o (g[s[l]] \o y)
      <4> DEFINE b == m[l - 1] \o <<a>>
                 e == g[s[l]]
      <4>1. b \in Seq(Call) /\ e \in Seq(Call)
        BY <3>2, <3>3
      <4> HIDE DEF b, e
      <4>2. (b \o e) \o y = b \o (e \o y)
        BY <4>1, ConcatAssociative
      <4> QED
        BY <4>2 DEF b, e
    <3> QED
      BY <1>4, <2>2, <2>3, <2>4, <3>2, <3>4
  <2>5. CASE l # n
    <3>1. l \in 1 .. n - 1 /\ l \in 0 .. n - 1
      BY <1>1, <2>5
    <3>2. f[s[l]] = g[s[l]] /\ r[l] = m[l]
      BY <1>2, <1>4, <3>1
    <3> QED
      BY <2>2, <2>3, <3>2
  <2> QED
    BY <2>4, <2>5
<1>9. Spelled(r, f, k, w, s, c \o y)
  BY <1>1, <1>4, <1>6, <1>7, <1>8 DEF Spelled, n
<1> QED
  BY <1>9

(* The lists of calls below a node. *)
LEMMA ListedCalls ==
  ASSUME NEW h, NEW v, NEW g, TreeInv(h), Tells(g, h, v), NEW p \in InUse(h)
  PROVE  ToldOf(g, h, v, KidsOf(h)[p]) \in Seq(Seq(Call))
<1> DEFINE s == KidsOf(h)[p]
<1>1. s \in Seq(Node) /\ Len(s) \in Nat
  BY KidsInUse
<1>2. ASSUME NEW i \in 1 .. Len(s) PROVE Told(g, h, v, s[i]) \in Seq(Call)
  <2>1. s[i] \in InUse(h) /\ s[i] # Doc
    BY KidsInUse DEF InUse
  <2> HIDE DEF s
  <2>2. g[s[i]] \in Seq(Call) /\ Sayable(h, v, s[i])
    BY <2>1 DEF Tells
  <2> QED
    BY <2>2, ToldTyped
<1> HIDE DEF s
<1>3. ToldOf(g, h, v, s) = [i \in 1 .. Len(s) |-> Told(g, h, v, s[i])]
  BY DEF ToldOf
<1>4. ToldOf(g, h, v, s) \in [1 .. Len(s) -> Seq(Call)]
  BY <1>2, <1>3
<1> QED
  BY <1>1, <1>4 DEF s

\* The node x was made from the token.
MadeFrom(h, v, x, tok) ==
  /\ v[x] = tok
  /\ x \in Leaf <=> tok.k # "tag"
  /\ x \in Element => h.attr[x] = tok.attrs

(* It says what the token does. *)
LEMMA SaysSo ==
  ASSUME NEW h, NEW v, NEW x \in Node, NEW tok \in Tokens, MadeFrom(h, v, x, tok)
  PROVE  /\ Sayable(h, v, x)
         /\ x \in Element => Enter(h, v, x) = Enters(tok) /\ Exit(v, x) = Exits(tok)
         /\ \A g : g[x] = <<>> /\ ~Opens(tok) /\ ~Closes(tok) => Told(g, h, v, x) = Meant(tok)
<1>1. x \in Leaf <=> ~(x \in Element)
  BY HeapAssumption DEF Node
<1>2. v[x] = tok /\ (x \in Leaf <=> tok.k # "tag") /\ (x \in Element => h.attr[x] = tok.attrs)
  BY DEF MadeFrom
<1>3. x \in Element => Enter(h, v, x) = Enters(tok) /\ Exit(v, x) = Exits(tok)
  BY <1>2 DEF Enter, Exit, Enters, Exits
<1>4. tok \in Call /\ Enters(tok) \in Call /\ Exits(tok) \in Call
  BY DEF Call
<1>5. Sayable(h, v, x)
  BY <1>1, <1>2, <1>3, <1>4, Zenon DEF Sayable
<1>6. ASSUME NEW g, g[x] = <<>>, ~Opens(tok), ~Closes(tok) PROVE Told(g, h, v, x) = Meant(tok)
  <2>1. CASE x \in Leaf
    <3>1. Meant(tok) = <<tok>>
      BY <1>2, <2>1, MeantCalls
    <3>2. Told(g, h, v, x) = <<v[x]>>
      BY <2>1 DEF Told
    <3> QED
      BY <1>2, <3>1, <3>2
  <2>2. CASE x \in Element
    <3> DEFINE a == Enters(tok)
               z == Exits(tok)
    <3>1. tok.k = "tag" /\ x \notin Leaf
      BY <1>1, <1>2, <2>2
    <3>2. Meant(tok) = <<a, z>>
      BY <1>6, <3>1, MeantCalls
    <3>3. Told(g, h, v, x) = <<a>> \o <<>> \o <<z>>
      BY <1>3, <1>6, <2>2, <3>1 DEF Told
    <3> HIDE DEF a, z
    <3>4. <<a>> \o <<>> \o <<z>> = <<a, z>>
      <4>1. <<a>> \o <<>> = <<a>>
        OBVIOUS
      <4>2. <<a>> \o <<z>> = <<a, z>>
        <5>1. <<a>> \in Seq({a, z})
          OBVIOUS
        <5>2. Append(<<a>>, z) = <<a>> \o <<z>>
          BY <5>1, AppendIsConcat
        <5>3. Append(<<a>>, z) = <<a, z>>
          <6> DEFINE r == Append(<<a>>, z)
                     t == <<a, z>>
          <6>1. r \in Seq({a, z}) /\ Len(r) = 2 /\ r[1] = a /\ r[2] = z
            BY <5>1, AppendProperties
          <6>2. t \in Seq({a, z}) /\ Len(t) = 2 /\ t[1] = a /\ t[2] = z
            OBVIOUS
          <6> HIDE DEF r, t
          <6>3. \A i \in 1 .. 2 : r[i] = t[i]
            <7>1. \A i \in 1 .. 2 : i = 1 \/ i = 2
              OBVIOUS
            <7> QED
              BY <6>1, <6>2, <7>1
          <6> QED
            BY <6>1, <6>2, <6>3, SeqEqual DEF r, t
        <5> QED
          BY <5>2, <5>3
      <4> QED
        BY <4>1, <4>2
    <3> QED
      BY <3>2, <3>3, <3>4
  <2> QED
    BY <1>1, <2>1, <2>2
<1> QED
  BY <1>3, <1>5, <1>6

(* A new node has no children, and says nothing yet. *)
LEMMA NoKids ==
  ASSUME NEW h, TreeInv(h), NEW x \in InUse(h), \A m \in Node : h.parent[m] # x
  PROVE  KidsOf(h)[x] = <<>>
<1> DEFINE s == KidsOf(h)[x]
<1>1. s \in Seq(Node) /\ \A i \in 1 .. Len(s) : s[i] \in Node /\ h.parent[s[i]] = x
  BY KidsInUse
<1> HIDE DEF s
<1>2. s = <<>>
  <2> SUFFICES ASSUME s # <<>> PROVE FALSE
    OBVIOUS
  <2>1. Len(s) \in Nat \ {0}
    BY <1>1, EmptySeq
  <2>2. 1 \in 1 .. Len(s)
    BY <2>1
  <2> QED
    BY <1>1, <2>2
<1> QED
  BY <1>2 DEF s

(* A list of no nodes says nothing. *)
LEMMA SaysNothing == \A g, h, v : FlattenSeq(ToldOf(g, h, v, <<>>)) = <<>>
<1>1. \A g, h, v : ToldOf(g, h, v, <<>>) = <<>>
  BY DEF ToldOf
<1> QED
  BY <1>1, FlatNil

(* So that nothing is told below it. *)
LEMMA NewSilent ==
  ASSUME NEW h, NEW v, NEW g, TreeInv(h), Tells(g, h, v), NEW x \in InUse(h), \A m \in Node : h.parent[m] # x
  PROVE  g[x] = <<>>
<1>1. KidsOf(h)[x] = <<>>
  BY NoKids
<1>2. g[x] = FlattenSeq(ToldOf(g, h, v, KidsOf(h)[x]))
  BY DEF Tells
<1> QED
  BY <1>1, <1>2, SaysNothing

(* It leaves the document to say what it did. *)
LEMMA NewMirrored ==
  ASSUME NEW h, NEW v, NEW s, NEW sure, Reading(h, s, sure), NEW c, Mirrors(h, v, s, c),
         NEW k, NEW x, Fresh(k, s, x, sure), SamePointers(k, h), Alive(k) = Alive(h) \union {x},
         NEW w, NEW tok \in Tokens, MadeFrom(k, w, x, tok), \A n \in Node \ {x} : Alike(k, w, h, v, n)
  PROVE  Mirrors(k, w, s, c)
<1>1. PICK g, m : Tells(g, h, v) /\ Spelled(m, g, h, v, s, c)
  BY DEF Mirrors
<1>2. /\ TreeInv(h) /\ TreeInv(k) /\ s \in Seq(Element) /\ x \in Node /\ x \notin Items(s)
      /\ Strays(h) = Items(s) /\ x \in Strays(k) /\ \A y \in Node : k.parent[y] # x
  BY DEF Reading, Fresh
<1>3. x \in Alive(k) /\ k.parent[x] = Null /\ x # Doc
  BY <1>2, HeapAssumption DEF Strays
<1>4. KidsOf(k) = KidsOf(h)
  <2>1. Laid(h, KidsOf(h))
    BY <1>2, KidsAre
  <2>2. Laid(k, KidsOf(h))
    BY <2>1, SameLists
  <2> QED
    BY <1>2, <2>2, KidsAre
<1>5. x \in InUse(k) /\ \A n \in InUse(k) \ {x} : n \in InUse(h) /\ (n # Doc => n \in Node)
  BY <1>3 DEF InUse, Alive
<1>6. ChangedAt(k, w, h, v, x)
  BY <1>4, <1>5 DEF ChangedAt
<1>7. <<>> = FlattenSeq(ToldOf(g, k, w, KidsOf(k)[x]))
  BY <1>2, <1>5, NoKids, SaysNothing
<1>8. Sayable(k, w, x) /\ <<>> \in Seq(Call)
  BY <1>2, SaysSo
<1>9. x = Doc \/ k.parent[x] = Null
  BY <1>3
<1>10. PICK f : Tells(f, k, w) /\ \A n \in InUse(k) \ {x} : f[n] = g[n]
  <2>1. \E f : Tells(f, k, w) /\ f[x] = <<>> /\ \A n \in InUse(k) \ {x} : f[n] = g[n]
    <3> DEFINE y == <<>>
    <3>1. y \in Seq(Call) /\ y = FlattenSeq(ToldOf(g, k, w, KidsOf(k)[x])) /\ (x # Doc => Sayable(k, w, x))
      BY <1>7, <1>8
    <3> HIDE DEF y
    <3>2. \E f : Tells(f, k, w) /\ f[x] = y /\ \A n \in InUse(k) \ {x} : f[n] = g[n]
      BY <1>1, <1>2, <1>5, <1>6, <1>9, <3>1, Retold
    <3> QED
      BY <3>2 DEF y
  <2> QED
    BY <2>1
<1>11. ASSUME NEW l \in 1 .. Len(s)
       PROVE  f[s[l]] = g[s[l]] /\ Enter(k, w, s[l]) = Enter(h, v, s[l])
  <2>1. s[l] \in Items(s) /\ s[l] \in Element
    BY <1>2 DEF Items
  <2>2. s[l] \in Node \ {x} /\ s[l] \in InUse(k) \ {x}
    BY <1>2, <2>1 DEF Strays, InUse, Node
  <2>3. Alike(k, w, h, v, s[l])
    BY <2>2
  <2> QED
    BY <1>10, <2>1, <2>2, <2>3, ToldAlike
<1>12. f[Doc] = g[Doc]
  BY <1>3, <1>10 DEF InUse
<1>13. Spelled(m, f, k, w, s, c)
  BY <1>1, <1>11, <1>12, SpelledAlike DEF SameWay
<1> QED
  BY <1>10, <1>13 DEF Mirrors

(* A node that is hung says what it says behind its siblings.              *)
LEMMA HungTells ==
  ASSUME NEW h, NEW v, NEW g, TreeInv(h), Tells(g, h, v), NEW p, NEW n, MayBeHung(h, p, n), h.parent[n] = Null,
         p = Doc \/ h.parent[p] = Null
  PROVE  LET k == InsertEndChild(h, p, n)
             y == Told(g, h, v, n)
         IN /\ k.attr = h.attr
            /\ y \in Seq(Call) /\ g[p] \in Seq(Call)
            /\ \E f : Tells(f, k, v) /\ f[p] = g[p] \o y /\ \A q \in InUse(h) \ {p} : f[q] = g[q]
<1> DEFINE k == InsertEndChild(h, p, n)
           y == Told(g, h, v, n)
           s == KidsOf(h)[p]
           a == ToldOf(g, h, v, s)
<1>1. /\ n \in Alive(h) /\ n \in Node /\ n \in Parent /\ n # Doc /\ n # Null /\ Null \notin Parent
      /\ p \in Parent /\ p \in InUse(h) /\ p # n /\ n \in InUse(h)
  BY HeapAssumption DEF MayBeHung, InUse, Alive, Parent
<1>2. Laid(h, KidsOf(h)) /\ h \in Heap
  BY KidsAre DEF TreeInv, Sound
<1>3. TreeInv(k) /\ Alive(k) = Alive(h) /\ Laid(k, MovedLast(KidsOf(h), p, n))
  BY <1>2, InsertEndKeeps
<1>4. k.attr = h.attr /\ k.parent = [h.parent EXCEPT ![n] = p]
  BY <1>1, <1>2 DEF InsertEndChild, InsertChildPreamble, Track, Heap
<1> HIDE DEF k
<1>5. \A q \in Parent : RemoveFirst(KidsOf(h)[q], n) = KidsOf(h)[q]
  BY <1>1, <1>2, NotThere
<1>6. KidsOf(k) = MovedLast(KidsOf(h), p, n)
  BY <1>3, KidsAre
<1>7. KidsOf(k)[p] = Append(s, n) /\ \A q \in Parent \ {p} : KidsOf(k)[q] = KidsOf(h)[q]
  BY <1>1, <1>5, <1>6 DEF MovedLast, Sans
<1>8. InUse(k) = InUse(h) /\ \A q \in InUse(k) : q \in Parent
  BY <1>3 DEF InUse, Alive, Parent
<1>9. \A q : Alike(k, v, h, v, q)
  BY <1>4 DEF Alike
<1>10. ChangedAt(k, v, h, v, p)
  BY <1>7, <1>8, <1>9 DEF ChangedAt
<1>11. g[p] \in Seq(Call) /\ g[p] = FlattenSeq(a) /\ g[n] \in Seq(Call) /\ Sayable(h, v, n) /\ (p # Doc => Sayable(h, v, p))
  BY <1>1 DEF Tells
<1>12. y \in Seq(Call)
  BY <1>11, ToldTyped
<1>13. a \in Seq(Seq(Call)) /\ s \in Seq(Node)
  BY <1>1, ListedCalls, KidsInUse
<1>14. ToldOf(g, k, v, Append(s, n)) = Append(a, y)
  <2> DEFINE t == Append(s, n)
             b == Append(a, y)
             m == Len(s)
  <2>1. m \in Nat /\ Len(t) = m + 1 /\ t[m + 1] = n /\ \A i \in 1 .. m : t[i] = s[i] /\ s[i] \in Node
    BY <1>1, <1>13, AppendProperties
  <2>2. Len(a) = m /\ \A i \in 1 .. m : a[i] = Told(g, h, v, s[i])
    BY <1>13 DEF ToldOf
  <2>3. b \in Seq(Seq(Call)) /\ Len(b) = Len(a) + 1 /\ b[Len(a) + 1] = y /\ \A i \in 1 .. Len(a) : b[i] = a[i]
    BY <1>12, <1>13, AppendProperties
  <2> HIDE DEF t, b, a, m
  <2>4. b = [i \in 1 .. m + 1 |-> b[i]]
    BY <2>2, <2>3
  <2>5. ToldOf(g, k, v, t) = [i \in 1 .. m + 1 |-> Told(g, k, v, t[i])]
    BY <2>1 DEF ToldOf
  <2>6. \A q \in Node : Told(g, k, v, q) = Told(g, h, v, q)
    BY <1>9, ToldAlike
  <2>7. ASSUME NEW i \in 1 .. m + 1 PROVE Told(g, k, v, t[i]) = b[i]
    <3>1. CASE i = m + 1
      BY <1>1, <2>1, <2>2, <2>3, <2>6, <3>1 DEF y
    <3>2. CASE i # m + 1
      <4>1. i \in 1 .. m
        BY <2>1, <3>2
      <4> QED
        BY <2>1, <2>2, <2>3, <2>6, <4>1
    <3> QED
      BY <3>1, <3>2
  <2> QED
    BY <2>4, <2>5, <2>7 DEF t, b
<1> HIDE DEF a, y, s
<1>15. FlattenSeq(Append(a, y)) = g[p] \o y
  BY <1>11, <1>12, <1>13, FlatNext
<1>16. g[p] \o y \in Seq(Call)
  BY <1>11, <1>12, ConcatProperties
<1>17. p # Doc => Sayable(k, v, p)
  <2>1. p # Doc => p \in Node
    BY <1>1 DEF Parent
  <2> QED
    BY <1>9, <1>11, <2>1, ToldAlike
<1>18. p = Doc \/ k.parent[p] = Null
  BY <1>1, <1>2, <1>4 DEF Heap
<1>19. \E f : Tells(f, k, v) /\ f[p] = g[p] \o y /\ \A q \in InUse(k) \ {p} : f[q] = g[q]
  <2> DEFINE z == g[p] \o y
  <2>1. z \in Seq(Call) /\ z = FlattenSeq(ToldOf(g, k, v, KidsOf(k)[p]))
    BY <1>7, <1>14, <1>15, <1>16
  <2> HIDE DEF z
  <2>2. \E f : Tells(f, k, v) /\ f[p] = z /\ \A q \in InUse(k) \ {p} : f[q] = g[q]
    BY <1>1, <1>3, <1>8, <1>10, <1>17, <1>18, <2>1, Retold
  <2> QED
    BY <2>2 DEF z
<1> QED
  BY <1>4, <1>8, <1>11, <1>12, <1>19 DEF k, y

(* On the level being read. *)
LEMMA HungSpelled ==
  ASSUME NEW h, NEW v, NEW s \in Seq(Element), Distinct(s), TreeInv(h), Items(s) \subseteq Strays(h),
         NEW n \in Strays(h), n \notin Items(s), MayBeHung(h, Above(s), n),
         NEW g, Tells(g, h, v), NEW m, NEW c, Spelled(m, g, h, v, s, c)
  PROVE  Mirrors(InsertEndChild(h, Above(s), n), v, s, c \o Told(g, h, v, n))
<1> DEFINE p == Above(s)
           k == InsertEndChild(h, p, n)
           y == Told(g, h, v, n)
<1>1. \A l \in 1 .. Len(s) : s[l] \in Element /\ s[l] \in Items(s) /\ s[l] \in InUse(h) /\ s[l] # Doc
                             /\ h.parent[s[l]] = Null
  <2>1. \A l \in 1 .. Len(s) : s[l] \in Element /\ s[l] \in Items(s)
    BY DEF Items
  <2> QED
    BY <2>1, HeapAssumption DEF Strays, InUse, Node
<1>2. Len(s) \in Nat /\ p = IF Len(s) = 0 THEN Doc ELSE s[Len(s)]
  BY DEF Above, Last
<1>3. p = Doc \/ h.parent[p] = Null
  BY <1>1, <1>2
<1>4. h.parent[n] = Null
  BY DEF Strays
<1> HIDE DEF p
<1>5. /\ k.attr = h.attr /\ y \in Seq(Call) /\ g[p] \in Seq(Call)
      /\ \E f : Tells(f, k, v) /\ f[p] = g[p] \o y /\ \A q \in InUse(h) \ {p} : f[q] = g[q]
  BY <1>3, <1>4, HungTells DEF p
<1>6. PICK f : Tells(f, k, v) /\ f[p] = g[p] \o y /\ \A q \in InUse(h) \ {p} : f[q] = g[q]
  BY <1>5
<1> HIDE DEF k, y
<1>7. \A l \in 1 .. Len(s) : Enter(k, v, s[l]) = Enter(h, v, s[l]) /\ Enter(h, v, s[l]) \in Call
  <2>1. \A l \in 1 .. Len(s) : Sayable(h, v, s[l]) /\ s[l] \notin Leaf
    BY <1>1, HeapAssumption DEF Tells
  <2> QED
    BY <1>5, <2>1, Zenon DEF Sayable, Enter
<1>8. \A i, j \in 1 .. Len(s) : s[i] = s[j] => i = j
  BY DEF Distinct
<1>9. \A l \in 1 .. Len(s) - 1 : f[s[l]] = g[s[l]]
  <2>1. \A l \in 1 .. Len(s) - 1 : l \in 1 .. Len(s) /\ Len(s) \in 1 .. Len(s) /\ l # Len(s) /\ Len(s) # 0
    BY <1>2
  <2>2. \A l \in 1 .. Len(s) - 1 : s[l] \in InUse(h) \ {p}
    BY <1>1, <1>2, <1>8, <2>1
  <2> QED
    BY <1>6, <2>2
<1>10. Len(s) # 0 => f[Doc] = g[Doc]
  <2>1. Doc \in InUse(h) /\ (Len(s) # 0 => p # Doc)
    <3>1. Len(s) # 0 => Len(s) \in 1 .. Len(s)
      BY <1>2
    <3> QED
      BY <1>1, <1>2, <3>1 DEF InUse
  <2> QED
    BY <1>6, <2>1
<1>11. AddedAtEnd(f, k, v, g, h, v, s, y)
  BY <1>6, <1>7, <1>9, <1>10 DEF AddedAtEnd, p
<1>12. \A l \in 1 .. Len(s) : Enter(h, v, s[l]) \in Call
  BY <1>7
<1>13. \E r : Spelled(r, f, k, v, s, c \o y)
  BY <1>5, <1>11, <1>12, SpelledMore DEF p
<1> QED
  BY <1>6, <1>13 DEF Mirrors, k, y, p

(* A new node that is hung says what its token means. *)
LEMMA FreshHungMirrored ==
  ASSUME NEW h, NEW s, NEW x, NEW sure, Fresh(h, s, x, sure), NEW v, NEW c, Mirrors(h, v, s, c),
         NEW tok \in Tokens, MadeFrom(h, v, x, tok), ~Opens(tok), ~Closes(tok)
  PROVE  Mirrors(InsertEndChild(h, Above(s), x), v, s, c \o Meant(tok))
<1>1. PICK g, m : Tells(g, h, v) /\ Spelled(m, g, h, v, s, c)
  BY DEF Mirrors
<1>2. /\ TreeInv(h) /\ s \in Seq(Element) /\ Distinct(s) /\ x \in Node /\ x \notin Items(s)
      /\ Strays(h) = Items(s) \union {x} /\ \A y \in Node : h.parent[y] # x
  BY DEF Fresh
<1>3. x \in InUse(h) /\ x \in Strays(h) /\ Items(s) \subseteq Strays(h)
  BY <1>2 DEF Strays, InUse
<1>4. g[x] = <<>>
  BY <1>1, <1>2, <1>3, NewSilent
<1>5. Told(g, h, v, x) = Meant(tok)
  <2>1. \A e : e[x] = <<>> /\ ~Opens(tok) /\ ~Closes(tok) => Told(e, h, v, x) = Meant(tok)
    <3>1. x \in Node
      BY <1>2
    <3>2. /\ Sayable(h, v, x)
          /\ x \in Element => Enter(h, v, x) = Enters(tok) /\ Exit(v, x) = Exits(tok)
          /\ \A e : e[x] = <<>> /\ ~Opens(tok) /\ ~Closes(tok) => Told(e, h, v, x) = Meant(tok)
      BY <3>1, SaysSo, Zenon
    <3> QED
      BY <3>2
  <2> QED
    BY <1>4, <2>1, Zenon
<1>6. MayBeHung(h, Above(s), x)
  BY FreshHangable
<1>7. Mirrors(InsertEndChild(h, Above(s), x), v, s, c \o Told(g, h, v, x))
  BY <1>1, <1>2, <1>3, <1>6, HungSpelled
<1> QED
  BY <1>5, <1>7

(* An element on the stack says that it has been opened. *)
LEMMA FreshPushedMirrored ==
  ASSUME NEW h, NEW s, NEW x \in Element, NEW sure, Fresh(h, s, x, sure), NEW v, NEW c, Mirrors(h, v, s, c),
         NEW tok \in Tokens, MadeFrom(h, v, x, tok), Opens(tok)
  PROVE  Mirrors(h, v, Append(s, x), c \o Meant(tok))
<1>1. PICK g, m : Tells(g, h, v) /\ Spelled(m, g, h, v, s, c)
  BY DEF Mirrors
<1>2. /\ TreeInv(h) /\ s \in Seq(Element) /\ x \in Node
      /\ Strays(h) = Items(s) \union {x} /\ \A y \in Node : h.parent[y] # x
  BY DEF Fresh
<1>3. x \in InUse(h)
  BY <1>2 DEF Strays, InUse
<1>4. g[x] = <<>>
  BY <1>1, <1>2, <1>3, NewSilent
<1> DEFINE a == Enter(h, v, x)
           t == Append(s, x)
           n == Len(s)
           e == c \o <<a>>
           r == [l \in 0 .. n + 1 |-> IF l = n + 1 THEN e ELSE m[l]]
<1>5. a = Enters(tok) /\ a \in Call
  BY <1>2, SaysSo DEF Call
<1>6. Meant(tok) = <<a>>
  BY <1>5, MeantCalls
<1>7. n \in Nat /\ Len(t) = n + 1 /\ t[n + 1] = x /\ \A l \in 1 .. n : t[l] = s[l]
  BY <1>2
<1> HIDE DEF a, t, n
<1>8. (\A l \in 0 .. n : m[l] \in Seq(Call)) /\ m[0] = g[Doc] /\ m[n] = c
      /\ \A l \in 1 .. n : m[l] = m[l - 1] \o <<Enter(h, v, s[l])>> \o g[s[l]]
  BY <1>1, Zenon DEF Spelled, n
<1>9. c \in Seq(Call) /\ e \in Seq(Call) /\ e \o <<>> = e
  <2>1. n \in 0 .. n
    BY <1>7
  <2>2. c \in Seq(Call) /\ <<a>> \in Seq(Call)
    BY <1>5, <1>8, <2>1
  <2>3. e \in Seq(Call)
    BY <2>2, ConcatProperties
  <2> HIDE DEF e
  <2> QED
    BY <2>2, <2>3, ConcatEmptySeq
<1>10. r[n + 1] = e /\ r[n] = c /\ \A l \in 0 .. n : r[l] = m[l]
  BY <1>7, <1>8
<1> HIDE DEF r
<1>11. \A l \in 0 .. n + 1 : r[l] \in Seq(Call)
  <2>1. \A l \in 0 .. n + 1 : l = n + 1 \/ l \in 0 .. n
    BY <1>7
  <2> QED
    BY <1>8, <1>9, <1>10, <2>1
<1>12. ASSUME NEW l \in 1 .. n + 1 PROVE r[l] = r[l - 1] \o <<Enter(h, v, t[l])>> \o g[t[l]]
  <2>1. CASE l = n + 1
    <3>1. l - 1 = n
      BY <1>7, <2>1
    <3>2. t[l] = x /\ Enter(h, v, t[l]) = a
      BY <1>7, <2>1 DEF a
    <3> QED
      BY <1>4, <1>9, <1>10, <2>1, <3>1, <3>2
  <2>2. CASE l # n + 1
    <3>1. l \in 1 .. n /\ l \in 0 .. n /\ l - 1 \in 0 .. n
      BY <1>7, <2>2
    <3> QED
      BY <1>7, <1>8, <1>10, <3>1
  <2> QED
    BY <2>1, <2>2
<1>13. 0 \in 0 .. n
  BY <1>7
<1>14. Spelled(r, g, h, v, t, e)
  BY <1>7, <1>8, <1>10, <1>11, <1>12, <1>13 DEF Spelled
<1> QED
  BY <1>1, <1>6, <1>14 DEF Mirrors, t

(* One that is closed, and hung on the level above, says that as well.     *)
LEMMA ClosedMirrored ==
  ASSUME NEW h, NEW s, NEW sure, Reading(h, s, sure), s # <<>>, NEW v, NEW c, Mirrors(h, v, s, c)
  PROVE  Mirrors(InsertEndChild(h, Above(Front(s)), Last(s)), v, Front(s), c \o <<Exit(v, Last(s))>>)
<1>1. PICK g, m : Tells(g, h, v) /\ Spelled(m, g, h, v, s, c)
  BY DEF Mirrors
<1> DEFINE t == Front(s)
           x == Last(s)
           n == Len(s)
           a == Enter(h, v, x)
           z == Exit(v, x)
           b == m[n - 1]
<1>2. TreeInv(h) /\ s \in Seq(Element) /\ Distinct(s) /\ Strays(h) = Items(s)
  BY DEF Reading
<1>3. /\ t \in Seq(Element) /\ Len(t) = n - 1 /\ x = s[n] /\ x \in Element
      /\ \A l \in 1 .. n - 1 : t[l] = s[l]
  BY <1>2, FrontLast
<1>4. Distinct(t) /\ x \notin Items(t) /\ Items(s) = Items(t) \union {x}
  BY <1>2, FrontItems
<1>5. MayBeHung(h, Above(t), x)
  BY LastHangable
<1>6. n \in Nat /\ n # 0
  BY <1>2, EmptySeq
<1>7. /\ \A l \in 0 .. n : m[l] \in Seq(Call)
      /\ m[0] = g[Doc] /\ m[n] = c
      /\ \A l \in 1 .. n : m[l] = m[l - 1] \o <<Enter(h, v, s[l])>> \o g[s[l]]
  BY <1>1, Zenon DEF Spelled
<1>8. x \in InUse(h) /\ x # Doc /\ x \notin Leaf
  BY <1>2, <1>3, <1>4, HeapAssumption DEF Strays, InUse, Node
<1>9. g[x] \in Seq(Call) /\ a \in Call /\ z \in Call
  <2>1. g[x] \in Seq(Call) /\ Sayable(h, v, x)
    BY <1>1, <1>8 DEF Tells
  <2> QED
    BY <1>8, <2>1, Zenon DEF Sayable
<1>10. Told(g, h, v, x) = <<a>> \o g[x] \o <<z>>
  BY <1>8 DEF Told
<1> HIDE DEF t, x, n, a, z
<1>11. Spelled(m, g, h, v, t, b)
  <2>1. \A l \in 0 .. n - 1 : l \in 0 .. n
    BY <1>6
  <2>2. \A l \in 1 .. n - 1 : l \in 1 .. n
    BY <1>6
  <2> QED
    BY <1>3, <1>7, <2>1, <2>2 DEF Spelled
<1>12. Mirrors(InsertEndChild(h, Above(t), x), v, t, b \o Told(g, h, v, x))
  <2>1. Items(t) \subseteq Strays(h) /\ x \in Strays(h)
    BY <1>2, <1>4
  <2> HIDE DEF b
  <2> QED
    BY <1>1, <1>2, <1>3, <1>4, <1>5, <1>11, <2>1, HungSpelled
<1>13. c = b \o <<a>> \o g[x] /\ b \in Seq(Call)
  <2>1. n \in 1 .. n /\ n - 1 \in 0 .. n
    BY <1>6
  <2> QED
    BY <1>3, <1>7, <2>1 DEF a
<1> HIDE DEF b
<1>14. b \o Told(g, h, v, x) = c \o <<z>>
  <2> DEFINE y == g[x]
             A == <<a>>
             Z == <<z>>
  <2>1. y \in Seq(Call) /\ A \in Seq(Call) /\ Z \in Seq(Call)
    BY <1>9
  <2>2. Told(g, h, v, x) = (A \o y) \o Z /\ c = (b \o A) \o y
    BY <1>10, <1>13
  <2> HIDE DEF y, A, Z
  <2>3. A \o y \in Seq(Call)
    BY <2>1, ConcatProperties
  <2>4. (b \o (A \o y)) \o Z = b \o ((A \o y) \o Z)
    BY <1>13, <2>1, <2>3, ConcatAssociative
  <2>5. (b \o A) \o y = b \o (A \o y)
    BY <1>13, <2>1, ConcatAssociative
  <2>6. b \o Told(g, h, v, x) = c \o Z
    BY <2>2, <2>4, <2>5
  <2> QED
    BY <2>6 DEF Z
<1> QED
  BY <1>12, <1>14 DEF t, x, z

(* What does not change what is in use leaves what the document says.      *)
LEMMA StillMirrored ==
  ASSUME NEW h, NEW v, NEW s \in Seq(Element), NEW c, Mirrors(h, v, s, c), NEW k, TreeInv(k), NEW w,
         ChangedAt(k, w, h, v, Null), Items(s) \subseteq Alive(k)
  PROVE  Mirrors(k, w, s, c)
<1>1. PICK g, m : Tells(g, h, v) /\ Spelled(m, g, h, v, s, c)
  BY DEF Mirrors
<1>2. Tells(g, k, w)
  BY <1>1, StillTold
<1>3. ASSUME NEW l \in 1 .. Len(s) PROVE Enter(k, w, s[l]) = Enter(h, v, s[l])
  <2>1. s[l] \in Element /\ s[l] \in Items(s)
    BY DEF Items
  <2>2. s[l] \in InUse(k) \ {Null} /\ s[l] # Doc /\ s[l] \in Node
    BY <2>1, HeapAssumption DEF InUse, Node
  <2>3. Alike(k, w, h, v, s[l])
    BY <2>2 DEF ChangedAt
  <2> QED
    BY <2>1, <2>2, <2>3, ToldAlike
<1>4. Spelled(m, g, k, w, s, c)
  BY <1>1, <1>3, SpelledAlike DEF SameWay
<1> QED
  BY <1>2, <1>4 DEF Mirrors

(* To destroy a list of one node is to destroy the node. *)
LEMMA OneGone ==
  ASSUME NEW h, NEW s \in Seq(Node), Len(s) = 1
  PROVE  DestroyAll(h, s) = Destroy(h, s[1])
<1> DEFINE n == Len(s)
           f == CHOOSE g : g = [i \in 0 .. Len(s) |-> IF i = 0 THEN h ELSE Destroy(g[i - 1], s[i])]
<1>1. DestroyAll(h, s) = f[n]
  BY DEF DestroyAll
<1>2. f = [i \in 0 .. n |-> IF i = 0 THEN h ELSE Destroy(f[i - 1], s[i])]
  BY SomeDestroying
<1> HIDE DEF f
<1>3. n = 1 /\ 0 \in 0 .. n /\ 1 \in 0 .. n /\ 1 # 0 /\ 1 - 1 = 0
  OBVIOUS
<1> HIDE DEF n
<1>4. f[0] = h /\ f[1] = Destroy(f[0], s[1])
  BY <1>2, <1>3
<1> QED
  BY <1>1, <1>3, <1>4

(* To delete a new node changes nothing else. *)
LEMMA AloneDestroyed ==
  ASSUME NEW h, TreeInv(h), NEW x \in Strays(h), \A y \in Node : h.parent[y] # x
  PROVE  LET k == DeleteNode(Track(h, x), x)
         IN /\ TreeInv(k) /\ Alive(k) = Alive(h) \ {x}
            /\ \A q \in Parent \ {x} : KidsOf(k)[q] = KidsOf(h)[q]
            /\ \A e \in Element \ {x} : k.attr[e] = h.attr[e]
<1> DEFINE g == Track(h, x)
           k == DeleteNode(g, x)
<1>1. x \in Alive(h) /\ x \in Node /\ x \in Parent /\ h.parent[x] = Null /\ Null \notin Parent /\ h \in Heap
  BY HeapAssumption DEF Strays, Alive, Parent, TreeInv, Sound
<1>2. Sound(g) /\ SamePointers(g, h) /\ g.attr = h.attr
  BY <1>1, Tracked DEF TreeInv
<1>3. DocDeleteNode(h, x) = k
  BY <1>1 DEF DocDeleteNode
<1> HIDE DEF g
<1>4. ASSUME NEW r, Sound(r), SamePointers(r, h) PROVE Below(r, x) = <<>>
  <2> DEFINE b == Below(r, x)
  <2>1. r \in Heap /\ Grounded(r) /\ \E kids : Laid(r, kids)
    BY <1>4 DEF Sound
  <2>2. {x} \in SUBSET Parent /\ \A y \in Node : r.parent[y] \in {x} => y \in {x}
    BY <1>1, <1>4 DEF SamePointers
  <2>3. Items(b) \subseteq {x}
    BY <1>1, <2>1, <2>2, BelowReached
  <2>4. b \in Seq(Node) /\ x \notin Items(b)
    BY <1>1, <2>1, BelowFacts
  <2> HIDE DEF b
  <2>5. b = <<>>
    <3> SUFFICES ASSUME b # <<>> PROVE FALSE
      OBVIOUS
    <3>1. Len(b) \in Nat \ {0}
      BY <2>4, EmptySeq
    <3>2. 1 \in 1 .. Len(b)
      BY <3>1
    <3> QED
      BY <2>3, <2>4, <3>2 DEF Items
  <2> QED
    BY <2>5 DEF b
<1>5. Below(h, x) = <<>> /\ Below(g, x) = <<>>
  BY <1>2, <1>4 DEF TreeInv, SamePointers
<1>6. k = Destroy(g, x)
  <2> DEFINE s == <<x>>
  <2>1. s \in Seq(Node) /\ Len(s) = 1 /\ s[1] = x
    BY <1>1
  <2>2. k = DestroyAll(g, s)
    BY <1>5 DEF DeleteNode, PostOrder
  <2> HIDE DEF s
  <2> QED
    BY <2>1, <2>2, OneGone
<1>7. \A e \in Element \ {x} : k.attr[e] = h.attr[e]
  <2> DEFINE u == DropAttributes(g, x)
  <2>1. g \in Heap /\ g.parent[x] = Null
    BY <1>1, <1>2 DEF Sound, SamePointers
  <2>2. u \in Heap /\ u.attr = IF x \in Element THEN [g.attr EXCEPT ![x] = <<>>] ELSE g.attr
    BY <1>1, <2>1, AttributesDropped
  <2>3. Destroy(g, x) = [u EXCEPT !.prev[x] = Null, !.next[x] = Null, !.pool[PoolOf(x)] = Release(@, x)]
    BY <2>1 DEF Destroy
  <2> HIDE DEF u
  <2>4. Destroy(g, x).attr = u.attr
    BY <2>2, <2>3 DEF Heap
  <2>5. g.attr \in [Element -> Seq(Name)]
    BY <2>1 DEF Heap
  <2> QED
    BY <1>2, <1>6, <2>2, <2>4, <2>5
<1>8. Deleted(DocDeleteNode(h, x), h, x)
  BY <1>1, DocDeleteNodeKeeps
<1> HIDE DEF k
<1>9. Items(Below(h, x)) \union {x} = {x}
  BY <1>5 DEF Items
<1>10. TreeInv(k) /\ Alive(k) = Alive(h) \ {x} /\ \A kids : Laid(h, kids) => Laid(k, Cleared(Sans(kids, x), {x}))
  BY <1>3, <1>8, <1>9 DEF Deleted
<1>11. Laid(h, KidsOf(h))
  BY KidsAre
<1>12. KidsOf(k) = Cleared(Sans(KidsOf(h), x), {x})
  BY <1>10, <1>11, KidsAre
<1>13. \A q \in Parent : RemoveFirst(KidsOf(h)[q], x) = KidsOf(h)[q]
  BY <1>1, <1>11, NotThere
<1>14. \A q \in Parent \ {x} : KidsOf(k)[q] = KidsOf(h)[q]
  BY <1>12, <1>13 DEF Cleared, Sans
<1> QED
  BY <1>7, <1>10, <1>14 DEF k, g

(* So that the element made for an end tag goes and leaves no trace.       *)
LEMMA FreshClosedMirrored ==
  ASSUME NEW h, NEW s, NEW x, NEW sure, Fresh(h, s, x, sure), NEW v, NEW c, Mirrors(h, v, s, c)
  PROVE  Mirrors(DeleteNode(Track(h, x), x), v, s, c)
<1> DEFINE k == DeleteNode(Track(h, x), x)
<1>1. /\ TreeInv(h) /\ s \in Seq(Element) /\ x \in Node /\ x \notin Items(s)
      /\ Strays(h) = Items(s) \union {x} /\ \A y \in Node : h.parent[y] # x
  BY DEF Fresh
<1>2. x \in Strays(h)
  BY <1>1
<1>3. /\ TreeInv(k) /\ Alive(k) = Alive(h) \ {x}
      /\ \A q \in Parent \ {x} : KidsOf(k)[q] = KidsOf(h)[q]
      /\ \A e \in Element \ {x} : k.attr[e] = h.attr[e]
  BY <1>1, <1>2, AloneDestroyed
<1> HIDE DEF k
<1>4. ASSUME NEW n \in InUse(k) \ {Null}
      PROVE  n \in InUse(h) /\ KidsOf(k)[n] = KidsOf(h)[n] /\ (n # Doc => Alike(k, v, h, v, n))
  <2>1. n \in InUse(h) /\ n \in Parent \ {x}
    BY <1>1, <1>3, HeapAssumption DEF InUse, Alive, Parent
  <2>2. n \in Element => k.attr[n] = h.attr[n]
    BY <1>3, <2>1
  <2> QED
    BY <1>3, <2>1, <2>2 DEF Alike
<1>5. ChangedAt(k, v, h, v, Null)
  BY <1>4 DEF ChangedAt
<1>6. Items(s) \subseteq Alive(k)
  BY <1>1, <1>3 DEF Strays
<1> QED
  BY <1>1, <1>3, <1>5, <1>6, StillMirrored DEF k

\* A call that goes well leaves a document that holds the calls c.
Mirrored(d, c) == d.error = "SUCCESS" => Mirrors(d.heap, d.value, d.stack, c)

(* Nothing is said of one that fails. *)
LEMMA ErrorMirrored ==
  ASSUME NEW d \in Document, NEW e, e # "SUCCESS", NEW c
  PROVE  Mirrored(Fail(d, e), c)
BY FailsWith DEF Mirrored

(* If none is named twice, all attributes are taken. *)
LEMMA TakenAll ==
  ASSUME NEW S, NEW attrs \in Seq(S), IsInjective(attrs)
  PROVE  Taken(attrs) = attrs
<1> DEFINE again == {i \in DOMAIN attrs : \E j \in 1 .. i-1 : attrs[j] = attrs[i]}
<1>1. again = {}
  <2>1. \A i \in DOMAIN attrs : \A j \in 1 .. i-1 : j \in DOMAIN attrs /\ j # i
    OBVIOUS
  <2> QED
    BY <2>1 DEF IsInjective
<1> QED
  BY <1>1 DEF Taken

(* A new node is hung on the level being read. *)
LEMMA HangMirrored ==
  ASSUME NEW d \in Document, NEW n, NEW sure, Fresh(d.heap, d.stack, n, sure),
         NEW c, Mirrors(d.heap, d.value, d.stack, c),
         NEW tok \in Tokens, MadeFrom(d.heap, d.value, n, tok), ~Opens(tok), ~Closes(tok)
  PROVE  Mirrored(Hang(d, n), c \o Meant(tok))
<1> DEFINE s == d.stack
           k == InsertEndChild(d.heap, Above(s), n)
           r == Hang(d, n)
<1>1. Reading(k, s, sure)
  BY FreshHung
<1>2. k \in Heap
  BY <1>1 DEF Reading, TreeInv, Sound
<1>3. r = [d EXCEPT !.heap = k]
  BY DEF Hang, Level, Above
<1>4. Mirrors(k, d.value, s, c \o Meant(tok))
  BY FreshHungMirrored
<1> HIDE DEF k, r
<1>5. r.heap = k /\ r.stack = s /\ r.value = d.value
  BY <1>2, <1>3, NewHeap
<1>6. Mirrors(r.heap, r.value, r.stack, c \o Meant(tok))
  BY <1>4, <1>5
<1> QED
  BY <1>6 DEF Mirrored, r

(* An end tag. *)
LEMMA CloseMirrored ==
  ASSUME NEW d \in Document, NEW e, NEW sure, Fresh(d.heap, d.stack, e, sure),
         NEW c, Mirrors(d.heap, d.value, d.stack, c), NEW tok \in Tokens, Closes(tok)
  PROVE  Mirrored(Close(d, tok, e), IF d.stack = <<>> THEN c ELSE c \o Meant(tok))
<1> DEFINE h == DeleteNode(Track(d.heap, e), e)
           g == [d EXCEPT !.heap = h]
           up == [g EXCEPT !.stack = Front(@)]
           s == d.stack
           v == d.value
           matches == g.value[Level(g)].name = tok.name
<1>1. s \in Seq(Element)
  BY DEF Fresh
<1>2. Reading(h, s, sure)
  BY FreshClosed
<1>3. h \in Heap
  BY <1>2 DEF Reading, TreeInv, Sound
<1>4. /\ g.stack = <<>> => Close(d, tok, e) = [g EXCEPT !.parsing = FALSE]
      /\ g.stack # <<>> /\ matches => Close(d, tok, e) = Hang(up, Level(g))
      /\ g.stack # <<>> /\ ~matches => Close(d, tok, e) = Fail(g, "MISMATCHED_ELEMENT")
  BY Zenon DEF Close
<1>5. Mirrors(h, v, s, c)
  BY FreshClosedMirrored
<1> HIDE DEF h, matches
<1>6. g \in Document /\ g.heap = h /\ g.stack = s /\ g.value = v
  BY <1>3, NewHeap
<1> HIDE DEF g, s
<1>7. CASE s = <<>>
  <2> DEFINE r == [g EXCEPT !.parsing = FALSE]
  <2>1. r.heap = h /\ r.value = v /\ r.stack = s
    BY <1>6 DEF Document
  <2> HIDE DEF r
  <2>2. Mirrored(r, c)
    BY <1>5, <2>1 DEF Mirrored
  <2> QED
    BY <1>4, <1>6, <1>7, <2>2 DEF r, s
<1>8. CASE s # <<>> /\ matches
  <2> DEFINE t == Front(s)
             n == Last(s)
             k == InsertEndChild(h, Above(t), n)
             r == Hang(up, Level(g))
  <2>1. t \in Seq(Element)
    BY <1>1, <1>8, FrontLast
  <2>2. Reading(k, t, sure)
    BY <1>2, <1>8, HungAbove
  <2>3. k \in Heap
    BY <2>2 DEF Reading, TreeInv, Sound
  <2>4. Level(g) = n
    BY <1>6, <1>8 DEF Level
  <2>5. Mirrors(k, v, t, c \o <<Exit(v, n)>>)
    BY <1>2, <1>5, <1>8, ClosedMirrored
  <2>6. Meant(tok) = <<Exit(v, n)>>
    <3>1. v[n].name = tok.name
      BY <1>6, <1>8, <2>4 DEF matches
    <3>2. Exit(v, n) = Exits(tok)
      BY <3>1 DEF Exit, Exits
    <3> QED
      BY <3>2, MeantCalls
  <2> HIDE DEF t, n
  <2>7. up = [g EXCEPT !.stack = t]
    BY <1>6 DEF Document, t
  <2> HIDE DEF up
  <2>8. up \in Document /\ up.heap = h /\ up.stack = t /\ up.value = v
    BY <1>6, <2>1, <2>7, NewStack
  <2>9. r = [up EXCEPT !.heap = k]
    BY <2>4, <2>8 DEF Hang, Level, Above
  <2> HIDE DEF k, r
  <2>10. r.heap = k /\ r.stack = t /\ r.value = v
    BY <2>3, <2>8, <2>9, NewHeap
  <2>11. Mirrored(r, c \o Meant(tok))
    BY <2>5, <2>6, <2>10 DEF Mirrored
  <2> QED
    BY <1>4, <1>6, <1>8, <2>11 DEF r, s
<1>9. CASE s # <<>> /\ ~matches
  <2>1. Mirrored(Fail(g, "MISMATCHED_ELEMENT"), c \o Meant(tok))
    BY <1>6, ErrorMirrored
  <2> QED
    BY <1>4, <1>6, <1>9, <2>1 DEF s
<1> QED
  BY <1>7, <1>8, <1>9

\* The calls after a token that is taken: an end tag with nothing to close stands
\* for none.
After(s, c, tok) == IF s = <<>> /\ Closes(tok) THEN c ELSE c \o Meant(tok)

(* A text, a CDATA section, a comment, a declaration or an unknown.        *)
LEMMA LeafMirrored ==
  ASSUME NEW d, NEW sure, Steady(d, sure), NEW tok \in Tokens, tok.k # "tag",
         CanAllocate(d.heap, "leaf"), NEW last, NEW c, Mirrors(d.heap, d.value, d.stack, c)
  PROVE  Mirrored(TakeLeaf(d, tok, last), After(d.stack, c, tok))
<1> DEFINE n == NewAddress(d.heap, "leaf")
           g == Identify(d, "leaf", tok)
<1>1. /\ g \in Document /\ g.heap = NewNode(d.heap, "leaf") /\ g.stack = d.stack
      /\ g.value = [d.value EXCEPT ![n] = tok]
      /\ Fresh(g.heap, g.stack, n, sure)
  BY IdentifyKeeps
<1>2. /\ d \in Document /\ TreeInv(d.heap) /\ Reading(d.heap, d.stack, sure)
      /\ d.value \in [Node -> Tokens \union {Null}]
  BY DEF Steady, Reading, Document
<1>3. LeafError(tok.k) # "SUCCESS"
  BY InputAssumption DEF IsToken, LeafError
<1>4. TakeLeaf(d, tok, last) \in {Fail(Discard(g, n), LeafError(tok.k)), Hang(g, n)}
  BY Zenon DEF TakeLeaf
<1>5. /\ SamePointers(g.heap, d.heap) /\ Alive(g.heap) = Alive(d.heap) \union {n}
      /\ PoolOf(n) = "leaf" /\ g.heap.attr = d.heap.attr
  BY <1>1, <1>2, NewNodeKeeps
<1> HIDE DEF n, g
<1>6. n \in Node /\ n \notin Items(d.stack)
  BY <1>1 DEF Fresh
<1>7. n \in Leaf /\ n \notin Element
  BY <1>5, <1>6, HeapAssumption DEF PoolOf, Node
<1>8. MadeFrom(g.heap, g.value, n, tok)
  BY <1>1, <1>2, <1>6, <1>7 DEF MadeFrom
<1>9. \A x \in Node \ {n} : Alike(g.heap, g.value, d.heap, d.value, x)
  BY <1>1, <1>2, <1>5, <1>6 DEF Alike
<1>10. Mirrors(g.heap, g.value, g.stack, c)
  <2>1. Fresh(g.heap, d.stack, n, sure)
    BY <1>1
  <2>2. Mirrors(g.heap, g.value, d.stack, c)
    BY <1>2, <1>5, <1>8, <1>9, <2>1, NewMirrored
  <2> QED
    BY <1>1, <2>2
<1>11. ~Opens(tok) /\ ~Closes(tok) /\ After(d.stack, c, tok) = c \o Meant(tok)
  BY DEF Opens, Closes, After
<1>12. Mirrored(Hang(g, n), c \o Meant(tok))
  BY <1>1, <1>8, <1>10, <1>11, HangMirrored
<1>13. Mirrored(Fail(Discard(g, n), LeafError(tok.k)), c \o Meant(tok))
  <2>1. Reading(DeleteNode(g.heap, n), g.stack, FALSE)
    BY <1>1, FreshDiscarded
  <2>2. Discard(g, n) \in Document
    BY <1>1, <2>1, NewHeap DEF Discard, Reading, TreeInv, Sound
  <2> QED
    BY <1>3, <2>2, ErrorMirrored
<1> QED
  BY <1>4, <1>11, <1>12, <1>13, Zenon

(* A tag. *)
LEMMA TagMirrored ==
  ASSUME NEW d, NEW sure, Steady(d, sure), NEW tok \in Tokens, tok.k = "tag",
         CanAllocate(d.heap, "element"), NEW last, NEW c, Mirrors(d.heap, d.value, d.stack, c)
  PROVE  Mirrored(TakeTag(d, tok, last), After(d.stack, c, tok))
<1> DEFINE e == NewAddress(d.heap, "element")
           i == Identify(d, "element", tok)
           h == ParseAttributes(i.heap, e, tok.attrs)
           g == [i EXCEPT !.heap = h]
           err == AttributeError(tok)
           typ == ClosingType(tok)
           pushed == [g EXCEPT !.stack = Append(@, e)]
           s == d.stack
           v == d.value
           y == After(s, c, tok)
<1>1. /\ i \in Document /\ i.heap = NewNode(d.heap, "element") /\ i.stack = s
      /\ i.value = [v EXCEPT ![e] = tok]
      /\ Fresh(i.heap, i.stack, e, sure)
  BY IdentifyKeeps
<1>2. /\ e \in Element /\ i.heap.attr[e] = <<>> /\ TreeInv(d.heap) /\ Reading(d.heap, s, sure)
      /\ s \in Seq(Element) /\ v \in [Node -> Tokens \union {Null}]
  BY <1>1, IdentifyMakes DEF Steady, Reading, Document
<1>3. tok.attrs \in Seq(Name) /\ tok.slash \in BOOLEAN /\ tok.end \in {"gt", "sealed", "cut"}
  BY InputAssumption DEF IsToken
<1>4. /\ err # "SUCCESS" => TakeTag(d, tok, last) = Fail(Discard(g, e), err)
      /\ err = "SUCCESS" /\ typ = "CLOSED" => TakeTag(d, tok, last) = Hang(g, e)
      /\ err = "SUCCESS" /\ typ = "CLOSING" => TakeTag(d, tok, last) = Close(g, tok, e)
      /\ err = "SUCCESS" /\ typ # "CLOSED" /\ typ # "CLOSING" =>
           TakeTag(d, tok, last) = IF last THEN Fail(Discard(g, e), "MISMATCHED_ELEMENT") ELSE pushed
  BY Zenon DEF TakeTag
<1>5. /\ SamePointers(i.heap, d.heap) /\ Alive(i.heap) = Alive(d.heap) \union {e}
      /\ i.heap.attr = d.heap.attr
  BY <1>1, <1>2, NewNodeKeeps
<1>6. err = "SUCCESS" => IsInjective(tok.attrs) /\ tok.end # "cut"
  BY <1>3, Zenon DEF AttributeError
<1>7. /\ typ = "CLOSED" <=> tok.end = "sealed"
      /\ typ = "CLOSING" <=> Closes(tok)
      /\ tok.end # "cut" => (typ # "CLOSED" /\ typ # "CLOSING" <=> Opens(tok))
  BY <1>3 DEF ClosingType, Opens, Closes
<1>8. d.heap.attr \in [Element -> Seq(Name)]
  BY <1>2 DEF TreeInv, Sound, Heap
<1> HIDE DEF e, i, err, typ, s, v
<1>9. /\ Fresh(h, s, e, sure) /\ Unmoved(h, i.heap)
      /\ \A x \in Element : h.attr[x] = IF x = e THEN Taken(tok.attrs) ELSE i.heap.attr[x]
  <2>1. Fresh(i.heap, s, e, sure) /\ i.heap.attr[e] = <<>> /\ e \in Element /\ tok.attrs \in Seq(Name)
    BY <1>1, <1>2, <1>3
  <2>2. Fresh(h, s, e, sure)
    BY <2>1, AttributesRead
  <2>3. Unmoved(h, i.heap)
    BY <2>1, AttributesRead
  <2>4. GivenList(h, i.heap, e, Taken(tok.attrs))
    BY <2>1, AttributesRead
  <2> QED
    BY <2>2, <2>3, <2>4 DEF GivenList
<1>10. h \in Heap /\ e \in Node /\ e \notin Items(s)
  BY <1>9 DEF Fresh, TreeInv, Sound
<1> HIDE DEF h
<1>11. g \in Document /\ g.heap = h /\ g.stack = s /\ g.value = i.value
  BY <1>1, <1>10, NewHeap
<1> HIDE DEF g
<1>12. Fresh(g.heap, g.stack, e, sure)
  BY <1>9, <1>11
<1>13. \A b : b # "SUCCESS" => Mirrored(Fail(Discard(g, e), b), y)
  <2>1. Reading(DeleteNode(g.heap, e), g.stack, FALSE)
    BY <1>12, FreshDiscarded
  <2>2. Discard(g, e) \in Document
    BY <1>11, <2>1, NewHeap DEF Discard, Reading, TreeInv, Sound
  <2> HIDE DEF y
  <2> QED
    BY <2>2, ErrorMirrored
<1>14. CASE err # "SUCCESS"
  <2>1. Mirrored(Fail(Discard(g, e), err), y)
    BY <1>13, <1>14
  <2> QED
    BY <1>4, <1>14, <2>1 DEF s
<1>15. ASSUME err = "SUCCESS"
       PROVE  MadeFrom(g.heap, g.value, e, tok) /\ Mirrors(g.heap, g.value, g.stack, c)
  <2>1. Taken(tok.attrs) = tok.attrs
    BY <1>3, <1>6, <1>15, TakenAll
  <2>2. SamePointers(h, d.heap) /\ Alive(h) = Alive(d.heap) \union {e}
    BY <1>5, <1>9 DEF Unmoved, SamePointers
  <2>3. \A x \in Element : h.attr[x] = IF x = e THEN tok.attrs ELSE d.heap.attr[x]
    BY <1>5, <1>9, <2>1
  <2>4. e \notin Leaf
    BY <1>2, HeapAssumption
  <2>5. MadeFrom(h, i.value, e, tok)
    BY <1>1, <1>2, <1>8, <1>10, <2>3, <2>4 DEF MadeFrom
  <2>6. \A x \in Node \ {e} : Alike(h, i.value, d.heap, v, x)
    BY <1>1, <1>2, <1>8, <1>10, <2>3 DEF Alike
  <2>7. Mirrors(d.heap, v, s, c)
    BY DEF v, s
  <2>8. Mirrors(h, i.value, s, c)
    BY <1>2, <1>9, <2>2, <2>5, <2>6, <2>7, NewMirrored
  <2> QED
    BY <1>11, <2>5, <2>8
<1>16. CASE err = "SUCCESS" /\ typ = "CLOSED"
  <2>1. ~Opens(tok) /\ ~Closes(tok)
    BY <1>7, <1>16 DEF Opens, Closes
  <2>2. y = c \o Meant(tok)
    BY <2>1 DEF After
  <2>3. Mirrored(Hang(g, e), c \o Meant(tok))
    BY <1>11, <1>12, <1>15, <1>16, <2>1, HangMirrored
  <2> QED
    BY <1>4, <1>16, <2>2, <2>3 DEF s
<1>17. CASE err = "SUCCESS" /\ typ = "CLOSING"
  <2>1. Closes(tok)
    BY <1>7, <1>17
  <2>2. y = IF g.stack = <<>> THEN c ELSE c \o Meant(tok)
    BY <1>11, <2>1 DEF After
  <2>3. Mirrored(Close(g, tok, e), IF g.stack = <<>> THEN c ELSE c \o Meant(tok))
    BY <1>11, <1>12, <1>15, <1>17, <2>1, CloseMirrored
  <2> QED
    BY <1>4, <1>17, <2>2, <2>3 DEF s
<1>18. CASE err = "SUCCESS" /\ typ # "CLOSED" /\ typ # "CLOSING"
  <2>1. Opens(tok) /\ ~Closes(tok)
    BY <1>6, <1>7, <1>18
  <2>2. y = c \o Meant(tok)
    BY <2>1 DEF After
  <2>3. CASE last
    <3>1. Mirrored(Fail(Discard(g, e), "MISMATCHED_ELEMENT"), y)
      BY <1>13
    <3> QED
      BY <1>4, <1>18, <2>3, <3>1 DEF s
  <2>4. CASE ~last
    <3> DEFINE t == Append(s, e)
    <3>1. t \in Seq(Element)
      BY <1>2
    <3>2. pushed = [g EXCEPT !.stack = t]
      BY <1>11 DEF Document
    <3>3. Mirrors(g.heap, g.value, t, c \o Meant(tok))
      <4>1. Mirrors(g.heap, g.value, s, c) /\ MadeFrom(g.heap, g.value, e, tok) /\ Fresh(g.heap, s, e, sure)
        BY <1>11, <1>12, <1>15, <1>18
      <4> QED
        BY <1>2, <2>1, <4>1, FreshPushedMirrored
    <3> HIDE DEF t, pushed
    <3>4. pushed.heap = g.heap /\ pushed.stack = t /\ pushed.value = g.value
      BY <1>11, <3>1, <3>2, NewStack
    <3>5. Mirrored(pushed, c \o Meant(tok))
      BY <3>3, <3>4 DEF Mirrored
    <3> QED
      BY <1>4, <1>18, <2>2, <2>4, <3>5 DEF s
  <2> QED
    BY <2>3, <2>4
<1> QED
  BY <1>14, <1>16, <1>17, <1>18

(* Dropping the values of what is not in use drops nothing that is told.   *)
LEMMA ForgottenMirrored ==
  ASSUME NEW r, NEW sure, Steady(r, sure), NEW c, Mirrors(r.heap, r.value, r.stack, c)
  PROVE  Mirrors(Forget(r).heap, Forget(r).value, Forget(r).stack, c)
<1> DEFINE z == Forget(r)
<1>1. /\ r \in Document /\ TreeInv(r.heap) /\ r.stack \in Seq(Element)
      /\ Strays(r.heap) = Items(r.stack)
  BY DEF Steady, Reading
<1>2. /\ z.heap = r.heap /\ z.stack = r.stack
      /\ z.value = [n \in Node |-> IF n \in Alive(r.heap) THEN r.value[n] ELSE Null]
  BY <1>1, Forgotten DEF Forget, Document
<1> HIDE DEF z
<1>3. \A n \in Alive(r.heap) : n \in Node /\ z.value[n] = r.value[n]
  BY <1>2 DEF Alive
<1>4. \A n \in InUse(r.heap) \ {Null} : n # Doc => Alike(r.heap, z.value, r.heap, r.value, n)
  BY <1>3 DEF InUse, Alike
<1>5. ChangedAt(r.heap, z.value, r.heap, r.value, Null)
  BY <1>4 DEF ChangedAt
<1>6. Items(r.stack) \subseteq Alive(r.heap)
  BY <1>1 DEF Strays
<1>7. Mirrors(r.heap, z.value, r.stack, c)
  BY <1>1, <1>5, <1>6, StillMirrored
<1> QED
  BY <1>2, <1>7 DEF z

(* Whatever it is. *)
LEMMA FeedMirrored ==
  ASSUME NEW d, NEW sure, Steady(d, sure), d.error = "SUCCESS", d.parsing,
         NEW tok \in Tokens, CanAllocate(d.heap, PoolFor(tok)), NEW last,
         NEW c, Mirrors(d.heap, d.value, d.stack, c)
  PROVE  Mirrored(Feed(d, tok, last), After(d.stack, c, tok))
<1> DEFINE g == Take(d, tok, last)
           r == IF last /\ g.parsing THEN AtEnd(g) ELSE g
           z == Forget(r)
           y == After(d.stack, c, tok)
<1>1. Outcome(g, sure) /\ Mirrored(g, y)
  <2>1. CASE tok.k = "tag"
    <3>1. CanAllocate(d.heap, "element")
      BY <2>1 DEF PoolFor
    <3>2. g = TakeTag(d, tok, last)
      BY <2>1 DEF Take
    <3> QED
      BY <2>1, <3>1, <3>2, TakeTagKeeps, TagMirrored
  <2>2. CASE tok.k # "tag"
    <3>1. CanAllocate(d.heap, "leaf")
      BY <2>2 DEF PoolFor
    <3>2. g = TakeLeaf(d, tok, last)
      BY <2>2 DEF Take
    <3> QED
      BY <2>2, <3>1, <3>2, TakeLeafKeeps, LeafMirrored
  <2> QED
    BY <2>1, <2>2
<1>2. Feed(d, tok, last) = z
  BY DEF Feed
<1> HIDE DEF g, y
<1>3. Outcome(r, sure)
  BY <1>1, AtEndKeeps, Zenon
<1>4. Mirrored(r, y)
  <2>1. CASE ~(last /\ g.parsing)
    BY <1>1, <2>1
  <2>2. CASE last /\ g.parsing
    <3>1. g \in Document
      BY <1>1, <2>2 DEF Outcome, Steady
    <3>2. CASE g.stack = <<>>
      <4>1. r = [g EXCEPT !.parsing = FALSE]
        BY <2>2, <3>2 DEF AtEnd
      <4>2. r.heap = g.heap /\ r.value = g.value /\ r.stack = g.stack /\ r.error = g.error
        BY <3>1, <4>1 DEF Document
      <4> HIDE DEF r
      <4> QED
        BY <1>1, <4>2 DEF Mirrored
    <3>3. CASE g.stack # <<>>
      <4>1. r = Fail(g, "PARSING")
        BY <2>2, <3>3 DEF AtEnd
      <4> HIDE DEF r
      <4> QED
        BY <3>1, <4>1, ErrorMirrored
    <3> QED
      BY <3>2, <3>3
  <2> QED
    BY <2>1, <2>2
<1> HIDE DEF r
<1>5. r \in Document
  BY <1>3, Zenon DEF Outcome, Steady
<1>6. z.error = r.error
  BY <1>5, Forgotten
<1>7. ASSUME z.error = "SUCCESS" PROVE Mirrors(z.heap, z.value, z.stack, y)
  <2>1. r.error = "SUCCESS"
    BY <1>6, <1>7
  <2>2. Steady(r, sure)
    BY <1>3, <2>1, Zenon DEF Outcome
  <2>3. Mirrors(r.heap, r.value, r.stack, y)
    BY <1>4, <2>1 DEF Mirrored
  <2> QED
    BY <2>2, <2>3, ForgottenMirrored
<1>8. Mirrored(z, y)
  BY <1>7, Zenon DEF Mirrored
<1> QED
  BY <1>2, <1>8 DEF y

(* If none hangs nowhere, all that is in use is below the document.        *)
LEMMA Rooted ==
  ASSUME NEW h, TreeInv(h), IsFiniteSet(Alive(h)), Strays(h) = {}
  PROVE  Alive(h) \subseteq Items(Below(h, Doc))
<1> DEFINE under(x) == Items(Below(h, x))
           R == Alive(h) \ under(Doc)
           N == Cardinality(Alive(h))
           F == {N - Cardinality(under(x)) : x \in R}
<1>1. Sound(h) /\ Doc \in Parent /\ Null \notin Node /\ Doc \notin Node /\ Alive(h) \subseteq Node
  BY HeapAssumption DEF TreeInv, Parent, Alive
<1>2. ASSUME NEW p \in Parent
      PROVE  /\ p \notin under(p) /\ under(p) \subseteq Alive(h)
             /\ \A m \in Node : m \in under(p) <=> h.parent[m] \in under(p) \union {p}
  BY <1>1, BelowAlive
<1>3. ASSUME NEW x \in R
      PROVE  h.parent[x] \in R /\ x \in under(h.parent[x]) /\ x \notin under(x) /\ under(x) \subseteq under(h.parent[x])
  <2> DEFINE q == h.parent[x]
  <2>1. x \in Alive(h) /\ x \in Node /\ x \in Parent /\ q # Null
    BY <1>1 DEF Strays, Parent
  <2>2. q \in Alive(h) \union {Doc}
    BY <1>1, <2>1 DEF Sound, Housed
  <2>3. q \notin under(Doc) \union {Doc}
    BY <1>1, <1>2, <2>1
  <2>4. q \in R /\ q \in Parent
    BY <1>1, <2>2, <2>3 DEF Parent
  <2> HIDE DEF q, R
  <2>5. x \in under(q) /\ x \notin under(x)
    BY <1>2, <2>1, <2>4 DEF q
  <2>6. under(x) \subseteq under(q)
    <3> DEFINE S == under(q) \union {q}
    <3>1. S \in SUBSET Parent /\ x \in S
      BY <1>1, <1>2, <2>4, <2>5 DEF Parent
    <3>2. \A m \in Node : h.parent[m] \in S => m \in S
      BY <1>2, <2>4
    <3>3. under(x) \subseteq S
      <4> HIDE DEF S
      <4>1. h \in Heap /\ Grounded(h) /\ \E kids : Laid(h, kids)
        BY <1>1 DEF Sound
      <4> QED
        BY <2>1, <3>1, <3>2, <4>1, BelowReached
    <3>4. q \notin under(x)
      <4>1. q \in under(x) => h.parent[q] \in under(x) \union {x}
        BY <1>1, <1>2, <2>1, <2>2
      <4>2. q = Doc \/ q \in Node
        BY <1>1, <2>2
      <4>3. q \in under(x) => under(q) \subseteq under(x)
        <5> SUFFICES ASSUME q \in under(x) PROVE under(q) \subseteq under(x)
          OBVIOUS
        <5>1. under(x) \in SUBSET Parent
          BY <1>1, <1>2, <2>1 DEF Parent
        <5>2. \A m \in Node : h.parent[m] \in under(x) => m \in under(x)
          BY <1>2, <2>1
        <5>3. h \in Heap /\ Grounded(h) /\ \E kids : Laid(h, kids)
          BY <1>1 DEF Sound
        <5> QED
          BY <2>4, <5>1, <5>2, <5>3, BelowReached
      <4> QED
        BY <2>5, <4>3
    <3> QED
      BY <3>3, <3>4
  <2> QED
    BY <2>4, <2>5, <2>6 DEF q
<1>4. N \in Nat
  BY FS_CardinalityType
<1>5. ASSUME NEW x \in R PROVE Cardinality(under(x)) \in Nat /\ Cardinality(under(x)) <= N /\ IsFiniteSet(under(x))
  <2>1. x \in Parent
    BY <1>1 DEF Parent
  <2>2. under(x) \subseteq Alive(h)
    BY <1>2, <2>1
  <2> HIDE DEF under, R
  <2> QED
    BY <2>2, FS_Subset, FS_CardinalityType
<1> HIDE DEF N
<1>6. R = {}
  <2> SUFFICES ASSUME R # {} PROVE FALSE
    OBVIOUS
  <2>1. F \in SUBSET Nat /\ F # {}
    <3> HIDE DEF under, R
    <3>1. \A x \in R : N - Cardinality(under(x)) \in Nat
      BY <1>4, <1>5
    <3> QED
      BY <3>1
  <2>2. PICK k \in F : \A l \in F : k <= l
    BY <2>1, LeastOfNat
  <2> HIDE DEF R
  <2>3. PICK x \in R : k = N - Cardinality(under(x))
    BY <2>2
  <2> DEFINE q == h.parent[x]
  <2>4. q \in R /\ x \in under(q) /\ x \notin under(x) /\ under(x) \subseteq under(q)
    BY <1>3
  <2>5. k <= N - Cardinality(under(q))
    BY <2>2, <2>4
  <2> HIDE DEF F, q, under
  <2>6. Cardinality(under(x)) \in Nat /\ Cardinality(under(q)) \in Nat
    BY <1>5, <2>4
  <2>7. Cardinality(under(x)) < Cardinality(under(q))
    <3> DEFINE S == under(q)
               T == under(x)
    <3>1. IsFiniteSet(S) /\ T \in SUBSET S /\ T # S
      BY <1>5, <2>4
    <3>2. Cardinality(S) \in Nat /\ Cardinality(T) \in Nat
      BY <2>6
    <3> HIDE DEF S, T
    <3>3. Cardinality(T) <= Cardinality(S) /\ Cardinality(S) # Cardinality(T)
      BY <3>1, FS_Subset
    <3>4. Cardinality(T) < Cardinality(S)
      BY <3>2, <3>3
    <3> QED
      BY <3>4 DEF S, T
  <2> QED
    BY <1>4, <2>3, <2>5, <2>6, <2>7
<1> QED
  BY <1>6

(* A document that has been cleared says nothing. *)
LEMMA ClearedMirrored ==
  ASSUME NEW h, NEW sure, Reading(h, <<>>, sure), NEW v
  PROVE  Mirrors(DeleteChildren(h, Doc), v, <<>>, <<>>)
<1> DEFINE k == DeleteChildren(h, Doc)
<1>1. TreeInv(h) /\ IsFiniteSet(Alive(h)) /\ Strays(h) = {} /\ Doc \in Parent
  BY DEF Reading, Tallied, Books, Items, Parent
<1>2. TreeInv(k) /\ Alive(k) = Alive(h) \ Items(Below(h, Doc))
  BY <1>1, DeleteChildrenKeeps
<1>3. Alive(k) = {}
  BY <1>1, <1>2, Rooted
<1> HIDE DEF k
<1>4. \A m \in Node : m \in Parent /\ Doc # Null
  BY HeapAssumption DEF Parent
<1>5. \A m \in Node : k.parent[m] # Doc
  BY <1>2, <1>3, <1>4 DEF TreeInv, Sound, Housed
<1>6. Doc \in InUse(k)
  BY DEF InUse
<1>7. KidsOf(k)[Doc] = <<>>
  BY <1>2, <1>5, <1>6, NoKids
<1> DEFINE g == [n \in Parent |-> <<>>]
           m == [l \in {0} |-> <<>>]
<1>8. g[Doc] = <<>> /\ m[0] = <<>> /\ <<>> \in Seq(Call) /\ Len(<<>>) = 0
  BY <1>1
<1> HIDE DEF g, m
<1>9. Tells(g, k, v)
  <2>1. g[Doc] = FlattenSeq(ToldOf(g, k, v, KidsOf(k)[Doc]))
    BY <1>7, <1>8, SaysNothing
  <2>2. \A n \in InUse(k) : n = Doc
    BY <1>3 DEF InUse
  <2> QED
    BY <1>8, <2>1, <2>2 DEF Tells
<1>10. Spelled(m, g, k, v, <<>>, <<>>)
  <2> DEFINE s == <<>>
             c == <<>>
  <2>1. Len(s) = 0 /\ m[0] = g[Doc] /\ m[0] = c /\ m[0] \in Seq(Call)
    BY <1>8
  <2> HIDE DEF s, c
  <2>2. \A l \in 0 .. Len(s) : l = 0
    BY <2>1
  <2>3. 1 .. Len(s) = {}
    BY <2>1
  <2>4. Spelled(m, g, k, v, s, c)
    BY <2>1, <2>2, <2>3 DEF Spelled
  <2> QED
    BY <2>4 DEF s, c
<1> QED
  BY <1>9, <1>10 DEF Mirrors, k

-----------------------------------------------------------------------------
(* What Accept tells a visitor of a document is what its heap tells.       *)

\* What Events says of n, where f says it of its children.
Recited(f, h, v, n) ==
  LET kids == Children(h, n)
      inner == FlattenSeq([i \in DOMAIN kids |-> f[kids[i]]])
  IN CASE n = Doc -> inner
       [] n \in Leaf -> <<v[n]>>
       [] OTHER -> <<[k |-> "enter", name |-> v[n].name, attrs |-> h.attr[n]]>>
                   \o inner \o <<[k |-> "exit", name |-> v[n].name]>>

Recites(f, h, v) == f = [n \in Parent |-> Recited(f, h, v, n)]

(* It depends on nothing but what f says of the children. *)
LEMMA RecitedAlike ==
  ASSUME NEW f, NEW g, NEW h, NEW v, NEW n,
         \A i \in DOMAIN Children(h, n) : f[Children(h, n)[i]] = g[Children(h, n)[i]]
  PROVE  Recited(f, h, v, n) = Recited(g, h, v, n)
<1> DEFINE kids == Children(h, n)
<1>1. [i \in DOMAIN kids |-> f[kids[i]]] = [i \in DOMAIN kids |-> g[kids[i]]]
  OBVIOUS
<1> QED
  BY <1>1, Zenon DEF Recited

(* There is but one such f. *)
LEMMA OneRecital ==
  ASSUME NEW h, TreeInv(h), NEW v, NEW a, Recites(a, h, v), NEW b, Recites(b, h, v)
  PROVE  a = b
<1> DEFINE kids == KidsOf(h)
           D == {y \in Node : a[y] # b[y]}
           late(y) == \E p \in Parent : \E i, j \in 1 .. Len(kids[p]) : i <= j /\ kids[p][i] = y /\ kids[p][j] \in D
           X == {y \in Node : y \in D \/ late(y)}
<1>1. Laid(h, kids) /\ Grounded(h)
  BY KidsAre DEF TreeInv, Sound
<1>2. ASSUME NEW p \in Parent
      PROVE  /\ kids[p] \in Seq(Node) /\ kids[p] = Children(h, p)
             /\ h.first[p] = ItemAt(kids[p], 1)
             /\ \A i \in 1 .. Len(kids[p]) : h.next[kids[p][i]] = ItemAt(kids[p], i + 1)
  BY <1>1 DEF Laid, Chain, KidsOf
<1> HIDE DEF kids
<1>3. ASSUME NEW n \in Parent, \A i \in 1 .. Len(kids[n]) : kids[n][i] \notin D
      PROVE  a[n] = b[n]
  <2>1. DOMAIN Children(h, n) = 1 .. Len(kids[n]) /\ \A i \in 1 .. Len(kids[n]) : kids[n][i] \in Node
    BY <1>2
  <2>2. \A i \in DOMAIN Children(h, n) : a[Children(h, n)[i]] = b[Children(h, n)[i]]
    BY <1>2, <1>3, <2>1
  <2>3. Recited(a, h, v, n) = Recited(b, h, v, n)
    BY <2>2, RecitedAlike
  <2>4. a[n] = Recited(a, h, v, n) /\ b[n] = Recited(b, h, v, n)
    BY DEF Recites
  <2> QED
    BY <2>3, <2>4
<1>4. X = {}
  <2> SUFFICES ASSUME X # {} PROVE FALSE
    OBVIOUS
  <2>1. X \in SUBSET Node
    OBVIOUS
  <2>2. PICK m \in X : h.first[m] \notin X /\ h.next[m] \notin X
    <3> HIDE DEF X
    <3> QED
      BY <1>1, <2>1 DEF Grounded
  <2>3. m \in Node /\ m \in Parent
    BY DEF Parent
  <2>4. m \in D
    <3> SUFFICES ASSUME m \notin D PROVE FALSE
      OBVIOUS
    <3>1. PICK p \in Parent : \E i, j \in 1 .. Len(kids[p]) : i <= j /\ kids[p][i] = m /\ kids[p][j] \in D
      BY <2>2
    <3>2. PICK i \in 1 .. Len(kids[p]), j \in 1 .. Len(kids[p]) : i <= j /\ kids[p][i] = m /\ kids[p][j] \in D
      BY <3>1
    <3>3. i # j
      BY <3>2
    <3>4. i + 1 \in 1 .. Len(kids[p]) /\ i + 1 <= j
      BY <1>2, <3>2, <3>3
    <3>5. h.next[m] = kids[p][i + 1] /\ kids[p][i + 1] \in Node
      <4>1. h.next[kids[p][i]] = ItemAt(kids[p], i + 1)
        BY <1>2
      <4>2. ItemAt(kids[p], i + 1) = kids[p][i + 1]
        BY <3>4 DEF ItemAt
      <4>3. kids[p][i + 1] \in Node
        BY <1>2, <3>4
      <4> QED
        BY <3>2, <4>1, <4>2, <4>3
    <3>6. kids[p][i + 1] \in X
      <4> HIDE DEF D
      <4> QED
        BY <3>2, <3>4, <3>5
    <3> QED
      BY <2>2, <3>5, <3>6
  <2>5. \A i \in 1 .. Len(kids[m]) : kids[m][i] \notin D
    <3> SUFFICES ASSUME NEW i \in 1 .. Len(kids[m]), kids[m][i] \in D PROVE FALSE
      OBVIOUS
    <3>1. 1 \in 1 .. Len(kids[m]) /\ 1 <= i
      BY <1>2, <2>3
    <3>2. h.first[m] = kids[m][1] /\ kids[m][1] \in Node
      BY <1>2, <2>3, <3>1 DEF ItemAt
    <3>3. kids[m][1] \in X
      <4> HIDE DEF D
      <4> QED
        BY <2>3, <3>1, <3>2
    <3> QED
      BY <2>2, <3>2, <3>3
  <2>6. a[m] = b[m]
    BY <1>3, <2>3, <2>5
  <2> QED
    BY <2>4, <2>6
<1>5. \A n \in Node : n \notin D
  BY <1>4
<1>6. \A n \in Parent : a[n] = b[n]
  <2>1. \A n \in Parent : \A i \in 1 .. Len(kids[n]) : kids[n][i] \in Node
    BY <1>2
  <2> HIDE DEF D
  <2> QED
    BY <1>3, <1>5, <2>1
<1>7. a = [n \in Parent |-> a[n]] /\ b = [n \in Parent |-> b[n]]
  <2>1. a = [n \in Parent |-> Recited(a, h, v, n)] /\ b = [n \in Parent |-> Recited(b, h, v, n)]
    BY DEF Recites
  <2> HIDE DEF D, X
  <2> QED
    BY <2>1, Zenon
<1> QED
  BY <1>6, <1>7

(* And what the heap tells is one. *)
LEMMA ToldRecites ==
  ASSUME NEW h, TreeInv(h), NEW v, NEW g, Tells(g, h, v)
  PROVE  \E f : Recites(f, h, v) /\ f[Doc] = g[Doc]
<1> DEFINE e == [n \in Parent |-> IF n \in InUse(h) THEN g[n] ELSE <<>>]
           f == [n \in Parent |-> IF n = Doc THEN e[n] ELSE Told(e, h, v, n)]
           kids == KidsOf(h)
<1>1. \A n \in InUse(h) : n \in Parent
  BY DEF InUse, Alive, Parent
<1>2. \A n \in Parent : e[n] = IF n \in InUse(h) THEN g[n] ELSE <<>>
  OBVIOUS
<1>3. \A n \in Parent : f[n] = IF n = Doc THEN e[n] ELSE Told(e, h, v, n)
  OBVIOUS
<1> HIDE DEF e
<1>4. Laid(h, kids) /\ \A p \in Parent : kids[p] = Children(h, p)
  BY KidsAre DEF KidsOf
<1> HIDE DEF f, kids
<1>5. ASSUME NEW n \in Parent
      PROVE  FlattenSeq([i \in DOMAIN Children(h, n) |-> f[Children(h, n)[i]]]) = e[n]
  <2> DEFINE s == Children(h, n)
  <2>1. s = kids[n] /\ s \in Seq(Node) /\ \A i \in 1 .. Len(s) : h.parent[s[i]] = n
    BY <1>4 DEF Laid, Chain
  <2> HIDE DEF s
  <2>2. ASSUME NEW i \in 1 .. Len(s)
        PROVE  n \in InUse(h) /\ f[s[i]] = Told(g, h, v, s[i])
    <3>1. s[i] \in Node /\ s[i] \in Parent /\ s[i] # Doc /\ h.parent[s[i]] = n
      BY <2>1, HeapAssumption DEF Parent
    <3>2. n # Null
      BY HeapAssumption DEF Parent
    <3>3. s[i] \in InUse(h) /\ n \in InUse(h)
      BY <3>1, <3>2 DEF TreeInv, Sound, Housed, InUse
    <3>4. f[s[i]] = Told(e, h, v, s[i]) /\ e[s[i]] = g[s[i]]
      BY <1>2, <1>3, <3>1, <3>3
    <3>5. Alike(h, v, h, v, s[i])
      BY DEF Alike
    <3> QED
      BY <3>1, <3>3, <3>4, <3>5, ToldAlike
  <2>3. [i \in DOMAIN s |-> f[s[i]]] = ToldOf(g, h, v, s)
    <3>1. DOMAIN s = 1 .. Len(s)
      BY <2>1
    <3> QED
      BY <2>2, <3>1 DEF ToldOf
  <2>4. CASE n \in InUse(h)
    <3>1. g[n] = FlattenSeq(ToldOf(g, h, v, KidsOf(h)[n])) /\ e[n] = g[n]
      BY <1>2, <2>4 DEF Tells
    <3> QED
      BY <2>1, <2>3, <3>1 DEF s, kids
  <2>5. CASE n \notin InUse(h)
    <3>1. s = <<>>
      <4> SUFFICES ASSUME s # <<>> PROVE FALSE
        OBVIOUS
      <4>1. Len(s) \in Nat \ {0}
        BY <2>1, EmptySeq
      <4>2. 1 \in 1 .. Len(s)
        BY <4>1
      <4> QED
        BY <2>2, <2>5, <4>2
    <3>2. FlattenSeq(ToldOf(g, h, v, s)) = e[n]
      BY <1>2, <2>5, <3>1, SaysNothing
    <3> QED
      BY <2>3, <3>2 DEF s
  <2> QED
    BY <2>4, <2>5
<1>6. ASSUME NEW n \in Parent PROVE f[n] = Recited(f, h, v, n)
  <2> DEFINE y == FlattenSeq([i \in DOMAIN Children(h, n) |-> f[Children(h, n)[i]]])
  <2>1. y = e[n]
    BY <1>5
  <2>2. Recited(f, h, v, n) =
          CASE n = Doc -> y
            [] n \in Leaf -> <<v[n]>>
            [] OTHER -> <<Enter(h, v, n)>> \o y \o <<Exit(v, n)>>
    BY Zenon DEF Recited, Enter, Exit
  <2> HIDE DEF y
  <2>3. Doc \notin Leaf
    BY HeapAssumption DEF Node
  <2>4. CASE n = Doc
    <3>1. Recited(f, h, v, n) = y
      BY <2>2, <2>3, <2>4
    <3>2. f[n] = e[n]
      BY <1>3, <2>4
    <3> QED
      BY <2>1, <3>1, <3>2
  <2>5. CASE n # Doc
    <3>1. f[n] = Told(e, h, v, n)
      BY <1>3, <2>5
    <3>2. CASE n \in Leaf
      <4>1. Told(e, h, v, n) = <<v[n]>>
        BY <3>2 DEF Told
      <4>2. Recited(f, h, v, n) = <<v[n]>>
        BY <2>2, <2>3, <2>5, <3>2
      <4> QED
        BY <3>1, <4>1, <4>2
    <3>3. CASE n \notin Leaf
      <4>1. Told(e, h, v, n) = <<Enter(h, v, n)>> \o y \o <<Exit(v, n)>>
        BY <2>1, <3>3, Zenon DEF Told
      <4>2. Recited(f, h, v, n) = <<Enter(h, v, n)>> \o y \o <<Exit(v, n)>>
        BY <2>2, <2>5, <3>3
      <4> QED
        BY <3>1, <4>1, <4>2
    <3> QED
      BY <3>2, <3>3
  <2> QED
    BY <2>4, <2>5
<1>7. Recites(f, h, v)
  <2>1. f = [n \in Parent |-> f[n]]
    BY DEF f
  <2> QED
    BY <1>6, <2>1 DEF Recites
<1>8. f[Doc] = g[Doc]
  <2>1. Doc \in Parent /\ Doc \in InUse(h)
    BY DEF Parent, InUse
  <2> QED
    BY <1>2, <1>3, <2>1
<1> QED
  BY <1>7, <1>8

(* So Events is what is told of the document. *)
LEMMA EventsTold ==
  ASSUME NEW d, TreeInv(d.heap), NEW g, Tells(g, d.heap, d.value)
  PROVE  Events(d) = g[Doc]
<1> DEFINE of == CHOOSE f : f = [n \in Parent |->
                 LET kids == Children(d.heap, n)
                     inner == FlattenSeq([i \in DOMAIN kids |-> f[kids[i]]])
                 IN CASE n = Doc -> inner
                      [] n \in Leaf -> <<d.value[n]>>
                      [] OTHER -> <<[k |-> "enter", name |-> d.value[n].name, attrs |-> d.heap.attr[n]]>>
                                  \o inner \o <<[k |-> "exit", name |-> d.value[n].name]>>]
<1>1. Events(d) = of[Doc]
  BY Zenon DEF Events
<1>2. PICK f : Recites(f, d.heap, d.value) /\ f[Doc] = g[Doc]
  BY ToldRecites
<1>3. Recites(of, d.heap, d.value)
  BY <1>2, Zenon DEF Recites, Recited
<1> HIDE DEF of
<1>4. of = f
  BY <1>2, <1>3, OneRecital
<1> QED
  BY <1>1, <1>2, <1>4

-----------------------------------------------------------------------------
(* What has been parsed reads as it was written. *)

MirrorInv == TextInv /\ (doc.parsing \/ read # <<>> => Mirrored(doc, Meaning(Considered(read))))

(* To begin with no text has been read. *)
LEMMA MirrorStarts == InitDoc => MirrorInv
BY TextStarts DEF MirrorInv, InitDoc, EmptyDocument

(* What a token that is taken adds to the text that is considered.         *)
LEMMA ConsideredNext ==
  ASSUME NEW v, NEW s, s \in Seq(Element), NEW f, NEW toks, Abreast(v, s, f, toks),
         NEW tok \in Tokens, WholeToken(tok)
  PROVE  Meaning(Considered(Append(toks, tok))) = After(s, Meaning(toks), tok)
<1> DEFINE u == Append(toks, tok)
           m == Len(toks)
<1>1. /\ toks \in Seq(Tokens) /\ m \in Nat /\ Len(s) \in Nat /\ Depth(toks, m) = Len(s)
      /\ \A j \in 1 .. m : Depth(toks, j) >= 0
  BY DEF Abreast
<1>2. Longer(u, toks, tok)
  BY <1>1, AppendLonger
<1>3. Depth(u, m + 1) = Len(s) + Step(tok)
  BY <1>1, <1>2, Deeper
<1>4. Considered(u) = IF Depth(u, m + 1) < 0 /\ WholeToken(tok) THEN toks ELSE u
  BY <1>1, <1>2, LastConsidered
<1>5. Depth(u, m + 1) < 0 <=> s = <<>> /\ Closes(tok)
  <2>1. Len(s) = 0 <=> s = <<>>
    BY EmptySeq
  <2>2. Closes(tok) => ~Opens(tok)
    BY DEF Opens, Closes
  <2>3. Step(tok) = IF Closes(tok) THEN -1 ELSE IF Opens(tok) THEN 1 ELSE 0
    BY <2>2 DEF Step
  <2> QED
    BY <1>1, <1>3, <2>1, <2>3
<1>6. Meaning(u) = Meaning(toks) \o Meant(tok)
  BY <1>1, <1>2, MeaningNext
<1> HIDE DEF u
<1>7. CASE s = <<>> /\ Closes(tok)
  BY <1>4, <1>5, <1>7 DEF After, u
<1>8. CASE ~(s = <<>> /\ Closes(tok))
  BY <1>4, <1>5, <1>6, <1>8 DEF After, u
<1> QED
  BY <1>7, <1>8

(* Before the first token. *)
LEMMA LoadMirrored ==
  ASSUME DocInv, Load
  PROVE  Mirrored(doc', Meaning(Considered(read')))
<1> DEFINE h == DeleteChildren(doc.heap, Doc)
           b == [doc EXCEPT !.heap = h, !.error = "SUCCESS"]
           c == Forget(b)
<1>1. doc \in Document /\ Reading(doc.heap, <<>>, ~lost) /\ doc.stack = <<>> /\ TreeInv(doc.heap)
  BY DEF DocInv, Steady, Reading, Load
<1>2. h \in Heap
  BY <1>1, DeleteChildrenKeeps DEF Parent, TreeInv, Sound
<1>3. doc' = [c EXCEPT !.parsing = TRUE] /\ read' = <<>>
  BY DEF Load, ClearDocument
<1>4. Mirrors(h, doc'.value, <<>>, <<>>)
  BY <1>1, ClearedMirrored
<1> HIDE DEF h
<1>5. b \in Document /\ b.heap = h /\ b.stack = <<>>
  BY <1>1, <1>2 DEF Document, Error
<1> HIDE DEF b
<1>6. c \in Document /\ c.heap = h /\ c.stack = <<>>
  BY <1>5, Forgotten
<1> HIDE DEF c
<1>7. doc'.heap = h /\ doc'.stack = <<>>
  BY <1>3, <1>6 DEF Document
<1>8. Considered(<<>>) = <<>>
  <2> DEFINE s == <<>>
  <2>1. s \in Seq(Tokens) /\ 1 .. Len(s) = {}
    OBVIOUS
  <2> HIDE DEF s
  <2>2. Considered(s) = s
    BY <2>1, AllConsidered
  <2> QED
    BY <2>2 DEF s
<1>9. Meaning(Considered(read')) = <<>>
  BY <1>3, <1>8, MeaningNil
<1>10. Mirrors(doc'.heap, doc'.value, doc'.stack, Meaning(Considered(read')))
  BY <1>4, <1>7, <1>9
<1> QED
  BY <1>10 DEF Mirrored

(* After each of them. *)
LEMMA ReadMirrored ==
  ASSUME MirrorInv, NEW tok \in Tokens, NEW last \in BOOLEAN, Read(tok, last)
  PROVE  Mirrored(doc', Meaning(Considered(read')))
<1> DEFINE g == Feed(doc, tok, last)
           u == Append(read, tok)
           s == doc.stack
           y == After(s, Meaning(read), tok)
<1>1. Steady(doc, ~lost) /\ doc.error = "SUCCESS" /\ doc.parsing /\ CanAllocate(doc.heap, PoolFor(tok))
  BY DEF MirrorInv, TextInv, DocInv, Read
<1>2. Abreast(doc.value, s, doc.heap.first[Doc], read) /\ read \in Seq(Tokens) /\ s \in Seq(Element)
  BY <1>1 DEF MirrorInv, TextInv, DocInv, Judged, Steady, Reading
<1>3. Considered(read) = read
  BY <1>2, AllConsidered DEF Abreast
<1>4. Mirrors(doc.heap, doc.value, s, Meaning(read))
  BY <1>1, <1>3 DEF MirrorInv, Mirrored
<1>5. Mirrored(g, y)
  BY <1>1, <1>4, FeedMirrored, Zenon
<1>6. Longer(u, read, tok)
  BY <1>2, AppendLonger
<1>7. Judged(g, u, last)
  BY <1>1, <1>2, <1>6, FeedJudged, Zenon
<1>8. Outcome(g, ~lost)
  BY <1>1, FeedKeeps, Zenon
<1>9. read' = u
  BY DEF Read
<1>10. PICK source \in {"file", "string"} : doc' = Returned(g, source)
  BY DEF Read
<1> HIDE DEF g
<1>11. g.error = "SUCCESS" => WholeToken(tok)
  <2> SUFFICES ASSUME g.error = "SUCCESS", ~WholeToken(tok) PROVE FALSE
    OBVIOUS
  <2>1. Considered(u) = u
    BY <1>2, <1>6, LastConsidered DEF Abreast
  <2>2. Faultless(u)
    BY <1>7, <2>1 DEF Judged, Abreast, Deserved, WellFormed
  <2>3. WholeToken(u[Len(read) + 1])
    <3>1. Len(read) + 1 \in DOMAIN u
      BY <1>2
    <3> QED
      BY <2>2, <3>1 DEF Faultless
  <2> QED
    BY <1>6, <2>3 DEF Longer
<1>12. Mirrored(g, Meaning(Considered(u)))
  <2>1. g.error = "SUCCESS" => Meaning(Considered(u)) = y
    BY <1>2, <1>11, ConsideredNext
  <2> HIDE DEF y, u
  <2> QED
    BY <1>5, <2>1 DEF Mirrored
<1> HIDE DEF u
<1>13. CASE doc' = g
  BY <1>9, <1>12, <1>13
<1>14. CASE g.error # "SUCCESS" /\ doc' = ClearPools(g)
  <2>1. g \in Document /\ g.stack = <<>>
    BY <1>8, <1>14, Zenon DEF Outcome, Steady
  <2>2. doc'.error = g.error
    BY <1>14, <2>1, ClearPoolsKeeps
  <2> QED
    BY <1>14, <2>2 DEF Mirrored
<1> QED
  BY <1>10, <1>13, <1>14, Zenon DEF Returned

(* Every step keeps it: the loads, the tokens, and nothing else. *)
LEMMA MirrorStep == MirrorInv /\ [NextDoc]_docVars => MirrorInv'
<1> SUFFICES ASSUME MirrorInv, [NextDoc]_docVars PROVE MirrorInv'
  OBVIOUS
<1>1. TextInv /\ DocInv /\ TextInv'
  BY TextStep DEF MirrorInv, TextInv
<1>2. CASE LoadMissing \/ LoadEmpty
  <2> DEFINE c == ClearDocument(doc)
  <2>1. IsCleared(c)
    BY <1>1, <1>2, ClearedFor DEF LoadMissing, LoadEmpty
  <2>2. read' = <<>> /\ \E e \in Error : doc' = [c EXCEPT !.error = e]
    BY <1>2 DEF LoadMissing, LoadEmpty, Error
  <2> HIDE DEF c
  <2>3. ~doc'.parsing
    <3>1. c \in Document /\ c.parsing = FALSE
      BY <2>1, Zenon DEF IsCleared
    <3> QED
      BY <2>2, <3>1 DEF Document
  <2> QED
    BY <1>1, <2>2, <2>3 DEF MirrorInv
<1>3. CASE Load
  BY <1>1, <1>3, LoadMirrored DEF MirrorInv
<1>4. CASE \E tok \in Tokens, last \in BOOLEAN : Read(tok, last)
  BY <1>1, <1>4, ReadMirrored DEF MirrorInv
<1>5. CASE UNCHANGED docVars
  <2>1. doc' = doc /\ read' = read
    BY <1>5 DEF docVars
  <2> QED
    BY <1>1, <2>1 DEF MirrorInv
<1> QED
  BY <1>2, <1>3, <1>4, <1>5 DEF NextDoc

(* The document holds exactly what the text says, in order and nesting:    *)
(* nothing is lost or moved between the levels of the recursion, where an  *)
(* element is hung only once its end tag has matched (XMLNode::ParseDeep,  *)
(* tinyxml2.cpp:951-1036, and XMLNode::Accept).                            *)
THEOREM ParsesAsWritten == DocSpec => []ParsedAsWritten
<1>1. ASSUME MirrorInv, Parsed, doc.error = "SUCCESS"
      PROVE  Events(doc) = Meaning(Considered(read))
  <2> DEFINE h == doc.heap
             v == doc.value
             s == doc.stack
             c == Meaning(Considered(read))
  <2>1. TreeInv(h) /\ s = <<>>
    BY <1>1 DEF MirrorInv, TextInv, DocInv, Parsed, Steady, Reading
  <2>2. Mirrors(h, v, s, c)
    BY <1>1, Zenon DEF MirrorInv, Mirrored, Parsed
  <2> HIDE DEF c
  <2>3. PICK g, m : Tells(g, h, v) /\ Spelled(m, g, h, v, s, c)
    BY <2>2 DEF Mirrors
  <2>4. Events(doc) = g[Doc]
    BY <2>1, <2>3, EventsTold
  <2>5. Len(s) = 0
    BY <2>1
  <2> HIDE DEF h, v, s
  <2>6. m[0] = g[Doc] /\ m[Len(s)] = c
    BY <2>3 DEF Spelled
  <2> QED
    BY <2>4, <2>5, <2>6 DEF c
<1>2. MirrorInv => AcceptedIfWellFormed
  BY TextJudged DEF MirrorInv, AcceptedIfWellFormed, Deserved, Parsed
<1>3. MirrorInv => ParsedAsWritten
  BY <1>1, <1>2, Zenon DEF ParsedAsWritten
<1> QED
  BY <1>3, MirrorStarts, MirrorStep, PTL DEF DocSpec

=============================================================================
