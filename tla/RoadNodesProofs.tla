-------------------------- MODULE RoadNodesProofs --------------------------
(***************************************************************************)
(* Proofs about populateNodes and setLinePoints for any file and any       *)
(* number of lanes.  The ruling of a road depends on its lanes alone, so   *)
(* that it is a lemma on natural numbers, one case for each branch of      *)
(* setLinePoints.                                                          *)
(***************************************************************************)
EXTENDS RoadNodes, FiniteSetTheorems, TLAPS

(* What a loop from a to b draws to the right of the middle. *)
LEMMA RightLines ==
  ASSUME NEW off \in Int, NEW a \in Int, NEW b \in Int
  PROVE  {off + 2 * k : k \in a .. b}
           = {x \in off + 2 * a .. off + 2 * b : (x - off) % 2 = 0}
<1>1. ASSUME NEW k \in a .. b
      PROVE  off + 2 * k \in {x \in off + 2 * a .. off + 2 * b : (x - off) % 2 = 0}
  OBVIOUS
<1>2. ASSUME NEW x \in off + 2 * a .. off + 2 * b, (x - off) % 2 = 0
      PROVE  \E k \in a .. b : x = off + 2 * k
  <2>1. x = off + 2 * ((x - off) \div 2)
    BY <1>2
  <2> QED
    BY <2>1
<1> QED
  BY <1>1, <1>2

(* What a loop from a to b draws to the left of the middle. *)
LEMMA LeftLines ==
  ASSUME NEW off \in Int, NEW a \in Int, NEW b \in Int
  PROVE  {-(off + 2 * k) : k \in a .. b}
           = {x \in -(off + 2 * b) .. -(off + 2 * a) : (x + off) % 2 = 0}
<1>1. ASSUME NEW k \in a .. b
      PROVE  -(off + 2 * k)
               \in {x \in -(off + 2 * b) .. -(off + 2 * a) : (x + off) % 2 = 0}
  OBVIOUS
<1>2. ASSUME NEW x \in -(off + 2 * b) .. -(off + 2 * a), (x + off) % 2 = 0
      PROVE  \E k \in a .. b : x = -(off + 2 * k)
  <2> DEFINE q == (x + off) \div 2
  <2>1. q \in Int /\ x + off = 2 * q
    BY <1>2
  <2>2. -q \in a .. b /\ x = -(off + 2 * (-q))
    BY <2>1
  <2> QED
    BY <2>2
<1> QED
  BY <1>1, <1>2

(* A road is ruled evenly, whatever lanes it has. *)
LEMMA Ruled ==
  ASSUME NEW in \in Nat, NEW out \in Nat, NEW wide \in BOOLEAN
  PROVE  EvenlyRuled(in, out, wide)
<1> DEFINE off == LineOffset(in, out, wide)
           a == StartI(in, out, wide)
           b == LinesIn(in, out, wide) - 1
           c == LinesOut(in, out, wide) - 1
<1>1. ASSUME off \in Int, a \in Int, b \in Int, c \in Int
      PROVE  /\ InLines(in, out, wide)
                  = {x \in off + 2 * a .. off + 2 * b : (x - off) % 2 = 0}
             /\ OutLines(in, out, wide)
                  = {x \in -(off + 2 * c) .. -(off + 2 * a) : (x + off) % 2 = 0}
  <2>1. InLines(in, out, wide) = {off + 2 * k : k \in a .. b}
    BY DEF InLines
  <2>2. OutLines(in, out, wide) = {-(off + 2 * k) : k \in a .. c}
    BY DEF OutLines
  <2> HIDE DEF off, a, b, c
  <2>3. {off + 2 * k : k \in a .. b}
          = {x \in off + 2 * a .. off + 2 * b : (x - off) % 2 = 0}
    BY <1>1, RightLines
  <2>4. {-(off + 2 * k) : k \in a .. c}
          = {x \in -(off + 2 * c) .. -(off + 2 * a) : (x + off) % 2 = 0}
    BY <1>1, LeftLines
  <2> QED
    BY <2>1, <2>2, <2>3, <2>4
<1>2. CASE wide
  <2>1. off = 1 /\ a = 0 /\ b = in /\ c = out
    BY <1>2 DEF LineOffset, StartI, LinesIn, LinesOut
  <2>2. /\ InLines(in, out, wide) = {x \in 1 .. 1 + 2 * in : (x - 1) % 2 = 0}
        /\ OutLines(in, out, wide) = {x \in -(1 + 2 * out) .. -1 : (x + 1) % 2 = 0}
    <3> HIDE DEF off, a, b, c
    <3> QED
      BY <1>1, <2>1
  <2>3. CentreLine(in, out, wide) = {}
    BY <1>2 DEF CentreLine
  <2>4. ASSUME NEW x \in Int
        PROVE  /\ (x - 1) % 2 = (x + 1) % 2
               /\ (x - (2 * in + 1)) % 2 = (x - 1) % 2
    OBVIOUS
  <2>5. {x \in 1 .. 1 + 2 * in : (x - 1) % 2 = 0} \union {}
          \union {x \in -(1 + 2 * out) .. -1 : (x + 1) % 2 = 0}
          = {x \in -(2 * out + 1) .. 2 * in + 1 : (x - (2 * in + 1)) % 2 = 0}
    <3>1. ASSUME NEW x \in Int, (x - 1) % 2 = 0 PROVE x # 0
      BY <3>1
    <3> QED
      BY <2>4, <3>1
  <2>6. {x \in 1 .. 1 + 2 * in : (x - 1) % 2 = 0}
          \intersect {x \in -(1 + 2 * out) .. -1 : (x + 1) % 2 = 0} = {}
    OBVIOUS
  <2> QED
    BY <1>2, <2>2, <2>3, <2>5, <2>6 DEF EvenlyRuled
<1>3. CASE ~wide /\ out > 0
  <2>1. off = 0 /\ a = 1 /\ b = in /\ c = out
    BY <1>3 DEF LineOffset, StartI, LinesIn, LinesOut
  <2>2. /\ InLines(in, out, wide) = {x \in 2 .. 2 * in : x % 2 = 0}
        /\ OutLines(in, out, wide) = {x \in -(2 * out) .. -2 : x % 2 = 0}
        /\ CentreLine(in, out, wide) = {0}
    <3> HIDE DEF off, a, b, c
    <3> QED
      BY <1>1, <1>3, <2>1 DEF CentreLine
  <2> QED
    BY <1>3, <2>2 DEF EvenlyRuled
<1>4. CASE ~wide /\ out = 0
  <2>1. /\ off + 2 * a = -in /\ off + 2 * b = in /\ c = a - 1
        /\ off = in % 2 /\ a \in Int /\ b \in Int
    BY <1>4 DEF LineOffset, StartI, LinesIn, LinesOut
  <2>2. /\ InLines(in, out, wide) = {x \in -in .. in : (x - in) % 2 = 0}
        /\ OutLines(in, out, wide) = {}
        /\ CentreLine(in, out, wide) = {}
    <3> HIDE DEF off, a, b, c
    <3> QED
      BY <1>1, <1>4, <2>1 DEF CentreLine
  <2> QED
    BY <1>4, <2>2 DEF EvenlyRuled
<1> QED
  BY <1>2, <1>3, <1>4

-----------------------------------------------------------------------------
\* The second pass looks only at links that the first has stored.
Stored == pass = 2 => Len(tmplinks) = Links

IInv == TypeOK /\ Stored

(* What is appended to the links of any two nodes are numbers of links. *)
LEMMA PlaceLinkTyped ==
  ASSUME IInv, PlaceLink
  PROVE  /\ DOMAIN nodes' \subseteq Id \union {NoId}
         /\ \A n \in DOMAIN nodes' : nodes'[n] \in Seq(1 .. Links)
<1> DEFINE n1 == IdOf(tmplinks[i][1])
           n2 == IdOf(tmplinks[i][2])
           stored == With(nodes, n1, Append(LinksOf(n1), i))
           numbers == Seq(1 .. Links)
<1>1. i \in 1 .. Links
  BY RoadAssumption DEF IInv, TypeOK, PlaceLink
<1>2. n1 \in Id \union {NoId} /\ n2 \in Id \union {NoId}
  BY DEF IInv, TypeOK, IdOf
<1>3. /\ DOMAIN nodes \subseteq Id \union {NoId}
      /\ \A n \in DOMAIN nodes : nodes[n] \in numbers
      /\ <<>> \in numbers
  BY DEF IInv, TypeOK
<1>4. \A l \in numbers : Append(l, i) \in numbers
  BY <1>1
<1>5. nodes' = With(stored, n2, Append(LinksBefore2(n1, n2), i))
  BY DEF PlaceLink
<1> HIDE DEF n1, n2, numbers
<1>6. LinksOf(n1) \in numbers /\ LinksBefore2(n1, n2) \in numbers
  BY <1>3 DEF LinksOf, LinksBefore2
<1>7. /\ DOMAIN stored \subseteq Id \union {NoId}
      /\ \A n \in DOMAIN stored : stored[n] \in numbers
  <2>1. Append(LinksOf(n1), i) \in numbers
    BY <1>4, <1>6
  <2> QED
    BY <1>2, <1>3, <2>1 DEF With
<1> HIDE DEF stored
<1>8. /\ DOMAIN nodes' \subseteq Id \union {NoId}
      /\ \A n \in DOMAIN nodes' : nodes'[n] \in numbers
  <2>1. Append(LinksBefore2(n1, n2), i) \in numbers
    BY <1>4, <1>6
  <2> QED
    BY <1>2, <1>5, <1>7, <2>1 DEF With
<1> QED
  BY <1>8 DEF numbers

(* Every step of populateNodes keeps the inductive invariant. *)
LEMMA Step == IInv /\ [Next]_vars => IInv'
<1> SUFFICES ASSUME IInv, [Next]_vars PROVE IInv'
  OBVIOUS
<1> USE RoadAssumption DEF IInv, TypeOK, Stored
<1>1. CASE ReadNode
  <2>1. PICK g \in Guid \ DOMAIN tmpnodes, n \in Id : tmpnodes' = With(tmpnodes, g, n)
    BY <1>1 DEF ReadNode
  <2>2. DOMAIN tmpnodes' \subseteq Guid /\ \A x \in DOMAIN tmpnodes' : tmpnodes'[x] \in Id
    BY <2>1 DEF With
  <2> QED
    BY <1>1, <2>2 DEF ReadNode
<1>2. CASE ReadLink
  BY <1>2 DEF ReadLink
<1>3. CASE EndOfFile
  BY <1>3 DEF EndOfFile
<1>4. CASE PlaceLink
  BY <1>4, PlaceLinkTyped DEF PlaceLink
<1>5. CASE Return
  BY <1>5 DEF Return
<1>6. CASE UNCHANGED vars
  BY <1>6 DEF vars
<1> QED
  BY <1>1, <1>2, <1>3, <1>4, <1>5, <1>6 DEF Next

(* The inductive invariant holds while any file is read. *)
LEMMA Inductive == Spec => []IInv
<1>1. Init => IInv
  BY RoadAssumption DEF Init, IInv, TypeOK, Stored, Road
<1> QED
  BY <1>1, Step, PTL DEF Spec

(* populateNodes keeps to its array of links, and every entry of the table    *)
(* holds numbers of links, for every file that has as many links as the array.*)
THEOREM TypeCorrect == Spec => []TypeOK
<1>1. IInv => TypeOK
  BY DEF IInv
<1> QED
  BY Inductive, <1>1, PTL

(* setLinePoints rules every road evenly, however many lanes it has.          *)
THEOREM RoadsRuled == Spec => []RoadsAreRuled
<1>1. IInv => RoadsAreRuled
  <2> SUFFICES ASSUME IInv PROVE EvenlyRuled(road.in, road.out, road.wide)
    BY DEF RoadsAreRuled
  <2>1. road.in \in Nat /\ road.out \in Nat /\ road.wide \in BOOLEAN
    BY RoadAssumption DEF IInv, TypeOK, Road
  <2> QED
    BY <2>1, Ruled
<1> QED
  BY Inductive, <1>1, PTL

-----------------------------------------------------------------------------
(* The table, link by link: what holds of the whole file when populateNodes    *)
(* has returned holds of the links placed so far at every step before.         *)

\* The first m links that touch n, from the last that replaced its entry.
Kept(m, n) == {k \in 1 .. m : Touches(k, n) /\ ~\E j \in k+1 .. m : Replaces(j, n)}

\* s lists the members of the set of numbers K in order.
Lists(s, K) ==
  /\ K = {s[x] : x \in 1 .. Len(s)}
  /\ \A x, y \in 1 .. Len(s) : x < y => s[x] < s[y]

Touched(m) == {n \in Id \union {NoId} : \E k \in 1 .. m : Touches(k, n)}

Placed ==
  /\ pass = 1 => i = 1
  /\ pass = 3 => i = Links + 1
  /\ DOMAIN nodes = Touched(i - 1)
  /\ \A n \in DOMAIN nodes : Lists(nodes[n], Kept(i - 1, n))

(* A list in order has as many entries as members. *)
LEMMA ListLength ==
  ASSUME NEW s \in Seq(Nat), NEW K, Lists(s, K)
  PROVE  Len(s) = Cardinality(K)
<1>1. s \in Bijection(1 .. Len(s), K)
  <2>1. s \in [1 .. Len(s) -> K]
    BY DEF Lists
  <2>2. \A x, y \in 1 .. Len(s) : s[x] = s[y] => x = y
    BY DEF Lists
  <2>3. \A k \in K : \E x \in 1 .. Len(s) : s[x] = k
    BY DEF Lists
  <2> QED
    BY <2>1, <2>2, <2>3 DEF Bijection, Injection, Surjection, IsInjective
<1> QED
  BY <1>1, FS_CountingElements DEF ExistsBijection

(* A larger number may be appended. *)
LEMMA ListAppend ==
  ASSUME NEW m \in Nat, NEW s \in Seq(1 .. m), NEW K, Lists(s, K)
  PROVE  Lists(Append(s, m + 1), K \union {m + 1})
<1> DEFINE l == Append(s, m + 1)
<1>1. /\ Len(l) = Len(s) + 1 /\ Len(s) \in Nat /\ l[Len(s) + 1] = m + 1
      /\ \A x \in 1 .. Len(s) : l[x] = s[x] /\ s[x] \in 1 .. m
  OBVIOUS
<1> HIDE DEF l
<1>2. {l[x] : x \in 1 .. Len(l)} = {s[x] : x \in 1 .. Len(s)} \union {m + 1}
  <2>1. ASSUME NEW x \in 1 .. Len(l) PROVE l[x] \in {s[y] : y \in 1 .. Len(s)} \union {m + 1}
    BY <1>1
  <2>2. ASSUME NEW x \in 1 .. Len(s) PROVE s[x] \in {l[y] : y \in 1 .. Len(l)}
    <3>1. x \in 1 .. Len(l) /\ s[x] = l[x]
      BY <1>1
    <3> QED
      BY <3>1
  <2>3. m + 1 \in {l[y] : y \in 1 .. Len(l)}
    <3>1. Len(s) + 1 \in 1 .. Len(l)
      BY <1>1
    <3> QED
      BY <1>1, <3>1
  <2> QED
    BY <2>1, <2>2, <2>3
<1>3. ASSUME NEW x \in 1 .. Len(l), NEW y \in 1 .. Len(l), x < y PROVE l[x] < l[y]
  <2>1. x \in 1 .. Len(s) /\ l[x] = s[x] /\ s[x] \in 1 .. m
    BY <1>1, <1>3
  <2>2. CASE y = Len(s) + 1
    BY <1>1, <2>1, <2>2
  <2>3. CASE y \in 1 .. Len(s)
    BY <1>1, <1>3, <2>1, <2>3 DEF Lists
  <2> QED
    BY <1>1, <2>2, <2>3
<1> QED
  BY <1>2, <1>3 DEF Lists, l

(* What one more link does to the links that are kept. *)
LEMMA KeptNext ==
  ASSUME NEW m \in Nat, NEW n
  PROVE  /\ ~Touches(m + 1, n) => Kept(m + 1, n) = Kept(m, n)
         /\ Touches(m + 1, n) /\ ~Replaces(m + 1, n)
              => Kept(m + 1, n) = Kept(m, n) \union {m + 1}
         /\ Replaces(m + 1, n) => Kept(m + 1, n) = {m + 1}
<1>1. Replaces(m + 1, n) => Touches(m + 1, n)
  BY DEF Replaces, Touches
<1>2. ASSUME NEW k \in 1 .. m
      PROVE  (\E j \in k+1 .. m+1 : Replaces(j, n))
               <=> (\E j \in k+1 .. m : Replaces(j, n)) \/ Replaces(m + 1, n)
  <2>1. k+1 .. m+1 = (k+1 .. m) \union {m + 1}
    OBVIOUS
  <2> QED
    BY <2>1
<1>3. 1 .. m+1 = (1 .. m) \union {m + 1} /\ (m+1)+1 .. m+1 = {}
  OBVIOUS
<1>4. ASSUME NEW k
      PROVE  k \in Kept(m + 1, n)
               <=> \/ k \in Kept(m, n) /\ ~Replaces(m + 1, n)
                   \/ k = m + 1 /\ Touches(m + 1, n)
  BY <1>2, <1>3 DEF Kept
<1> QED
  BY <1>1, <1>4

(* Placing a link leaves the table right about one link more. *)
LEMMA PlaceLinkPlaced ==
  ASSUME IInv, Placed, PlaceLink
  PROVE  Placed'
<1> DEFINE n1 == IdOf(tmplinks[i][1])
           n2 == IdOf(tmplinks[i][2])
           m == i - 1
<1>1. /\ i \in 1 .. Links /\ m \in Nat /\ i = m + 1 /\ i' - 1 = m + 1
      /\ UNCHANGED <<pass, tmpnodes, tmplinks>> /\ pass = 2
  BY RoadAssumption DEF IInv, TypeOK, PlaceLink
<1>2. n1 \in Id \union {NoId} /\ n2 \in Id \union {NoId}
  BY <1>1 DEF IInv, TypeOK, Stored, IdOf
<1>3. /\ n1 = First(m + 1) /\ n2 = Second(m + 1)
  BY <1>1 DEF First, Second
<1>4. nodes' = With(With(nodes, n1, Append(LinksOf(n1), i)), n2, Append(LinksBefore2(n1, n2), i))
  BY DEF PlaceLink
<1> HIDE DEF n1, n2, m
<1>5. /\ DOMAIN nodes' = DOMAIN nodes \union {n1, n2}
      /\ nodes'[n2] = Append(LinksBefore2(n1, n2), i)
      /\ n1 # n2 => nodes'[n1] = Append(LinksOf(n1), i)
      /\ \A n \in DOMAIN nodes : n \notin {n1, n2} => nodes'[n] = nodes[n]
  BY <1>4 DEF With
<1>6. \A n : Touches(m + 1, n) <=> n \in {n1, n2}
  BY <1>3 DEF Touches
<1>7. /\ \A n \in Id \union {NoId} : n \in DOMAIN nodes <=> \E k \in 1 .. m : Touches(k, n)
      /\ DOMAIN nodes \subseteq Id \union {NoId}
  BY DEF Placed, Touched, m
<1>8. DOMAIN nodes' = Touched(m + 1)
  <2>1. 1 .. m+1 = (1 .. m) \union {m + 1}
    BY <1>1
  <2> QED
    BY <1>2, <1>5, <1>6, <1>7, <2>1 DEF Touched
<1>9. ASSUME NEW n \in Id \union {NoId}
       PROVE  LinksOf(n) \in Seq(1 .. m) /\ Lists(LinksOf(n), Kept(m, n))
  <2>1. CASE n \in DOMAIN nodes
    <3>1. LinksOf(n) \in Seq(1 .. Links) /\ Lists(LinksOf(n), Kept(m, n))
      BY <2>1 DEF LinksOf, IInv, TypeOK, Placed, m
    <3>2. \A x \in 1 .. Len(LinksOf(n)) : LinksOf(n)[x] \in 1 .. m
      BY <3>1 DEF Lists, Kept
    <3> DEFINE l == LinksOf(n)
    <3> HIDE DEF l
    <3>3. l \in Seq(1 .. m)
      <4>1. l \in Seq(1 .. Links) /\ \A x \in 1 .. Len(l) : l[x] \in 1 .. m
        BY <3>1, <3>2 DEF l
      <4> DEFINE numbers == 1 .. m
      <4>2. Len(l) \in Nat /\ l \in [1 .. Len(l) -> numbers]
        BY <4>1
      <4> HIDE DEF numbers
      <4>3. l \in Seq(numbers)
        BY <4>2
      <4> QED
        BY <4>3 DEF numbers
    <3> QED
      BY <3>1, <3>3 DEF l
  <2>2. CASE n \notin DOMAIN nodes
    <3>1. LinksOf(n) = <<>>
      BY <2>2 DEF LinksOf
    <3>2. Kept(m, n) = {}
      BY <1>7, <2>2 DEF Kept
    <3> QED
      BY <3>1, <3>2 DEF Lists
  <2> QED
    BY <2>1, <2>2
<1>10. \A n : Replaces(m + 1, n) <=> n = n2 /\ n1 \notin DOMAIN nodes
  <2>1. ~(\E j \in 1 .. (m+1)-1 : Touches(j, First(m + 1))) <=> n1 \notin DOMAIN nodes
    BY <1>1, <1>2, <1>3, <1>7
  <2> QED
    BY <1>3, <2>1 DEF Replaces
<1>11. ASSUME NEW n \in DOMAIN nodes' PROVE Lists(nodes'[n], Kept(m + 1, n))
  <2>1. n \in Id \union {NoId}
    BY <1>2, <1>5, <1>7
  <2>2. CASE n \notin {n1, n2}
    <3>1. n \in DOMAIN nodes /\ nodes'[n] = nodes[n] /\ ~Touches(m + 1, n)
      BY <1>5, <1>6, <2>2
    <3> QED
      BY <1>1, <3>1, KeptNext DEF Placed, m
  <2>3. CASE n \in {n1, n2} /\ ~Replaces(m + 1, n)
    <3>1. nodes'[n] = Append(LinksOf(n), m + 1)
      BY <1>1, <1>5, <1>10, <2>3 DEF LinksBefore2
    <3>2. Kept(m + 1, n) = Kept(m, n) \union {m + 1}
      BY <1>1, <1>6, <2>3, KeptNext
    <3> QED
      BY <1>1, <1>9, <2>1, <3>1, <3>2, ListAppend
  <2>4. CASE Replaces(m + 1, n)
    <3>1. nodes'[n] = <<m + 1>>
      BY <1>1, <1>5, <1>10, <2>4 DEF LinksBefore2
    <3>2. Kept(m + 1, n) = {m + 1}
      BY <1>1, <2>4, KeptNext
    <3> QED
      BY <3>1, <3>2 DEF Lists
  <2> QED
    BY <2>2, <2>3, <2>4
<1>12. DOMAIN nodes' = Touched(i - 1)'
  <2>1. Touched(i - 1)' = Touched(m + 1)
    BY <1>1 DEF Touched, Touches, First, Second, IdOf
  <2> QED
    BY <1>8, <2>1
<1>13. ASSUME NEW n \in DOMAIN nodes' PROVE Lists(nodes[n], Kept(i - 1, n))'
  <2>1. Kept(i - 1, n)' = Kept(m + 1, n)
    BY <1>1 DEF Kept, Touches, Replaces, First, Second, IdOf
  <2> QED
    BY <1>11, <2>1 DEF Lists
<1> QED
  BY <1>1, <1>12, <1>13 DEF Placed

(* The table is right about the links placed so far, at every step. *)
LEMMA PlacedAlways == Spec => []Placed
<1>1. Init => Placed
  BY DEF Init, Placed, Touched
<1>2. IInv /\ Placed /\ [Next]_vars => Placed'
  <2> SUFFICES ASSUME IInv, Placed, [Next]_vars PROVE Placed'
    OBVIOUS
  <2>1. CASE ReadNode \/ ReadLink
    <3>1. i = 1 /\ i' = 1 /\ pass = 1 /\ pass' = 1 /\ nodes' = nodes
      BY <2>1 DEF ReadNode, ReadLink, Placed
    <3>2. DOMAIN nodes = {} /\ Touched(i - 1)' = {}
      BY <3>1 DEF Placed, Touched
    <3> QED
      BY <3>1, <3>2 DEF Placed
  <2>2. CASE EndOfFile \/ Return \/ UNCHANGED vars
    <3>1. /\ UNCHANGED <<tmpnodes, tmplinks, i, nodes>>
          /\ pass' = 1 => pass = 1
          /\ pass' = 3 => i = Links + 1
      BY <2>2, RoadAssumption DEF EndOfFile, Return, vars, Placed, IInv, TypeOK
    <3>2. Touched(i - 1)' = Touched(i - 1)
      BY <3>1 DEF Touched, Touches, First, Second, IdOf
    <3>3. ASSUME NEW n \in DOMAIN nodes' PROVE Lists(nodes[n], Kept(i - 1, n))'
      <4>1. Kept(i - 1, n)' = Kept(i - 1, n)
        BY <3>1 DEF Kept, Touches, Replaces, First, Second, IdOf
      <4> QED
        BY <3>1, <4>1 DEF Lists, Placed
    <3> QED
      BY <3>1, <3>2, <3>3 DEF Placed
  <2>3. CASE PlaceLink
    BY <2>3, PlaceLinkPlaced
  <2> QED
    BY <2>1, <2>2, <2>3 DEF Next
<1> QED
  BY <1>1, <1>2, Inductive, PTL DEF Spec

(* When populateNodes returns, the entry of every id that a link touches holds  *)
(* the links since the last that replaced it, in order and each once, whatever  *)
(* the file (nodes.cpp:143-166).                                               *)
THEOREM TableHoldsLinks == Spec => []HoldsLinksSinceReplaced
<1>1. IInv /\ Placed => HoldsLinksSinceReplaced
  <2> SUFFICES ASSUME IInv, Placed, pass = 3 PROVE HoldsLinksSinceReplaced
    BY DEF HoldsLinksSinceReplaced
  <2>1. i - 1 = Links
    BY RoadAssumption DEF Placed
  <2>2. ASSUME NEW n \in DOMAIN nodes
        PROVE  /\ Len(nodes[n]) = Cardinality(Kept(Links, n))
               /\ \A k \in Kept(Links, n) : \E x \in 1 .. Len(nodes[n]) : nodes[n][x] = k
               /\ \A x, y \in 1 .. Len(nodes[n]) : x < y => nodes[n][x] < nodes[n][y]
    <3>1. nodes[n] \in Seq(Nat) /\ Lists(nodes[n], Kept(Links, n))
      BY <2>1 DEF Placed, IInv, TypeOK
    <3> QED
      BY <3>1, ListLength DEF Lists
  <2>3. DOMAIN nodes = Touched(Links)
    BY <2>1 DEF Placed
  <2> QED
    BY <2>2, <2>3 DEF HoldsLinksSinceReplaced, Holds, TouchedIds, Kept, Touched
<1> QED
  BY <1>1, Inductive, PlacedAlways, PTL

(* Every id has all its links unless a link leads from an id that was not met
   before to one that was: such links are all that populateNodes gets wrong
   (nodes.cpp:143-168). *)
THEOREM InPlaceUnlessReplaced == Spec => [](NeverReplaces => EverythingInPlace)
<1>1. ASSUME NeverReplaces,
             NEW n, NEW k \in 1 .. Links, Touches(k, n),
             NEW j \in k+1 .. Links
      PROVE  ~Replaces(j, n)
  <2>1. j \in 1 .. Links /\ k \in 1 .. j-1
    BY RoadAssumption
  <2> QED
    BY <1>1, <2>1 DEF NeverReplaces, Replaces
<1>2. HoldsLinksSinceReplaced /\ NeverReplaces => EverythingInPlace
  <2> SUFFICES ASSUME HoldsLinksSinceReplaced, NeverReplaces, pass = 3
               PROVE  /\ DOMAIN nodes = TouchedIds
                      /\ \A n \in DOMAIN nodes : Holds(n, {k \in 1 .. Links : Touches(k, n)})
    BY DEF EverythingInPlace
  <2>1. ASSUME NEW n \in DOMAIN nodes
        PROVE  {k \in 1 .. Links : Touches(k, n) /\ ~\E j \in k+1 .. Links : Replaces(j, n)}
                 = {k \in 1 .. Links : Touches(k, n)}
    BY <1>1
  <2> QED
    BY <2>1 DEF HoldsLinksSinceReplaced
<1> QED
  BY <1>2, TableHoldsLinks, PTL
=============================================================================
