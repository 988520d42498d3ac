--------------------------- MODULE XMLTreeProofs ---------------------------
(***************************************************************************)
(* Proofs about the pointers of a document of any size.                    *)
(*                                                                         *)
(* That the five pointers agree is no property of one node and its         *)
(* neighbours: two chains below one parent would agree with them as well.  *)
(* So the invariant names the lists of children that the pointers lay out  *)
(* (Laid), a call of the library is shown to cut a node out of one list    *)
(* and to splice it into another, and what a reader finds who follows the  *)
(* pointers (Children) is shown to be the list.                            *)
(***************************************************************************)
EXTENDS XMLTree, SequenceTheorems, FiniteSetTheorems, WellFoundedInduction, TLAPS

Kind == {"element", "leaf", "attribute"}

Pool == [root : Seq(Node), blocks : Nat, current : Int, untracked : Int]

Heap ==
  [parent : [Parent -> Parent \union {Null}],
   first : [Parent -> Node \union {Null}], last : [Parent -> Node \union {Null}],
   prev : [Parent -> Node \union {Null}], next : [Parent -> Node \union {Null}],
   attr : [Element -> Seq(Name)],
   pool : [Kind -> Pool],
   crashed : BOOLEAN]

\* The i-th of a list, or the null pointer beyond its ends.
ItemAt(s, i) == IF i \in 1 .. Len(s) THEN s[i] ELSE Null

\* The pointers of h lay out the list s below p.
Chain(h, p, s) ==
  /\ \A i, j \in 1 .. Len(s) : s[i] = s[j] => i = j
  /\ h.first[p] = ItemAt(s, 1)
  /\ h.last[p] = ItemAt(s, Len(s))
  /\ \A i \in 1 .. Len(s) : /\ h.parent[s[i]] = p
                            /\ h.next[s[i]] = ItemAt(s, i + 1)
                            /\ h.prev[s[i]] = ItemAt(s, i - 1)

\* kids are the lists of children, each laid out by the pointers, and whatever
\* names a parent is in its list.
Laid(h, kids) ==
  /\ kids \in [Parent -> Seq(Node)]
  /\ \A p \in Parent : Chain(h, p, kids[p])
  /\ \A n \in Parent : h.parent[n] # Null => \E i \in 1 .. Len(kids[h.parent[n]]) : kids[h.parent[n]][i] = n

\* Lists with the i-th taken out, or n put at the j-th place.
Removed(s, i) == [k \in 1 .. Len(s) - 1 |-> IF k < i THEN s[k] ELSE s[k + 1]]
Inserted(s, j, n) ==
  [k \in 1 .. Len(s) + 1 |-> IF k < j THEN s[k] ELSE IF k = j THEN n ELSE s[k - 1]]

\* t is s with n put at the j-th place.
PutInto(t, S, s, j, n) ==
  /\ t \in Seq(S) /\ Len(t) = Len(s) + 1
  /\ \A k \in 1 .. Len(s) + 1 : t[k] = IF k < j THEN s[k] ELSE IF k = j THEN n ELSE s[k - 1]

(* Taking the i-th out moves those behind it one place forward.            *)
LEMMA RemovedSeq ==
  ASSUME NEW S, NEW s \in Seq(S), NEW i \in 1 .. Len(s)
  PROVE  /\ Removed(s, i) \in Seq(S)
         /\ Len(Removed(s, i)) = Len(s) - 1
         /\ \A k \in 1 .. Len(s) - 1 : Removed(s, i)[k] = IF k < i THEN s[k] ELSE s[k + 1]
<1>1. Len(s) \in Nat /\ Len(s) - 1 \in Nat /\ \A k \in 1 .. Len(s) : s[k] \in S
  OBVIOUS
<1>2. Removed(s, i) \in [1 .. Len(s) - 1 -> S]
  BY <1>1 DEF Removed
<1>3. Removed(s, i) \in Seq(S)
  BY <1>1, <1>2
<1> QED
  BY <1>1, <1>2, <1>3 DEF Removed

(* Putting n at the j-th place moves those from there on one place back.   *)
LEMMA InsertedSeq ==
  ASSUME NEW S, NEW s \in Seq(S), NEW j \in 1 .. Len(s) + 1, NEW n \in S
  PROVE  PutInto(Inserted(s, j, n), S, s, j, n)
<1>1. Len(s) \in Nat /\ Len(s) + 1 \in Nat /\ \A k \in 1 .. Len(s) : s[k] \in S
  OBVIOUS
<1>2. Inserted(s, j, n) \in [1 .. Len(s) + 1 -> S]
  BY <1>1 DEF Inserted
<1>3. Inserted(s, j, n) \in Seq(S)
  BY <1>1, <1>2
<1> QED
  BY <1>1, <1>2, <1>3 DEF Inserted, PutInto

-----------------------------------------------------------------------------
(* What Unlink does to the pointers of a node that hangs below p. *)
UnlinkedFrom(g, h, p, n) ==
  /\ g.parent = [h.parent EXCEPT ![n] = Null]
  /\ g.first = [h.first EXCEPT ![p] = IF @ = n THEN h.next[n] ELSE @]
  /\ g.last = [h.last EXCEPT ![p] = IF @ = n THEN h.prev[n] ELSE @]
  /\ \A m \in Parent : g.next[m] = IF m = h.prev[n] THEN h.next[n] ELSE h.next[m]
  /\ \A m \in Parent : g.prev[m] = IF m = h.next[n] THEN h.prev[n] ELSE h.prev[m]

(* The list a node is cut out of is laid out without it. *)
LEMMA CutHere ==
  ASSUME NEW h \in Heap, NEW g \in Heap, NEW p \in Parent, NEW s \in Seq(Node), NEW i \in 1 .. Len(s),
         Chain(h, p, s), UnlinkedFrom(g, h, p, s[i])
  PROVE  Chain(g, p, Removed(s, i))
<1> DEFINE t == Removed(s, i)
           n == s[i]
<1>1. Len(s) \in Nat /\ \A k \in 1 .. Len(s) : s[k] \in Node /\ s[k] \in Parent /\ s[k] # Null
  BY HeapAssumption DEF Parent
<1>2. /\ t \in Seq(Node) /\ Len(t) = Len(s) - 1
      /\ \A k \in 1 .. Len(s) - 1 : t[k] = IF k < i THEN s[k] ELSE s[k + 1]
  BY RemovedSeq
<1> HIDE DEF t
<1>3. \A k \in 0 .. Len(s) : ItemAt(t, k) = IF k < i THEN ItemAt(s, k) ELSE ItemAt(s, k + 1)
  BY <1>1, <1>2 DEF ItemAt
<1>4. /\ h.prev[n] = ItemAt(s, i - 1) /\ h.next[n] = ItemAt(s, i + 1)
      /\ \A k \in 1 .. Len(s) : s[k] = n => k = i
  BY DEF Chain
<1>5. ASSUME NEW j \in 1 .. Len(t), NEW k \in 1 .. Len(t), t[j] = t[k] PROVE j = k
  <2> DEFINE x == IF j < i THEN j ELSE j + 1
             y == IF k < i THEN k ELSE k + 1
  <2>1. x \in 1 .. Len(s) /\ y \in 1 .. Len(s) /\ s[x] = s[y]
    BY <1>1, <1>2, <1>5
  <2>2. x = y
    <3> HIDE DEF x, y
    <3> QED
      BY <2>1 DEF Chain
  <2> QED
    BY <1>1, <1>2, <2>2
<1>6. g.first[p] = ItemAt(t, 1)
  <2>1. g.first[p] = IF h.first[p] = n THEN h.next[n] ELSE h.first[p]
    BY DEF UnlinkedFrom, Heap
  <2>2. ItemAt(s, 1) = s[1] /\ h.first[p] = ItemAt(s, 1)
    BY <1>1 DEF Chain, ItemAt
  <2>3. ItemAt(t, 1) = IF 1 < i THEN ItemAt(s, 1) ELSE ItemAt(s, 2)
    BY <1>1, <1>3
  <2> QED
    BY <1>1, <1>4, <2>1, <2>2, <2>3
<1>7. g.last[p] = ItemAt(t, Len(t))
  <2>1. g.last[p] = IF h.last[p] = n THEN h.prev[n] ELSE h.last[p]
    BY DEF UnlinkedFrom, Heap
  <2>2. ItemAt(s, Len(s)) = s[Len(s)] /\ h.last[p] = ItemAt(s, Len(s))
    BY <1>1 DEF Chain, ItemAt
  <2>3. ItemAt(t, Len(t)) = IF Len(s) - 1 < i THEN ItemAt(s, Len(s) - 1) ELSE ItemAt(s, Len(s))
    BY <1>1, <1>2, <1>3
  <2> QED
    BY <1>1, <1>4, <2>1, <2>2, <2>3
<1>8. ASSUME NEW k \in 1 .. Len(t)
      PROVE  /\ g.parent[t[k]] = p
             /\ g.next[t[k]] = ItemAt(t, k + 1)
             /\ g.prev[t[k]] = ItemAt(t, k - 1)
  <2> DEFINE x == IF k < i THEN k ELSE k + 1
  <2>1. x \in 1 .. Len(s) /\ x # i /\ t[k] = s[x] /\ s[x] # n /\ s[x] \in Parent
    BY <1>1, <1>2, <1>4
  <2>2. /\ g.parent[s[x]] = h.parent[s[x]]
        /\ g.next[s[x]] = IF s[x] = ItemAt(s, i - 1) THEN ItemAt(s, i + 1) ELSE h.next[s[x]]
        /\ g.prev[s[x]] = IF s[x] = ItemAt(s, i + 1) THEN ItemAt(s, i - 1) ELSE h.prev[s[x]]
    <3> HIDE DEF x
    <3> QED
      BY <1>4, <2>1 DEF UnlinkedFrom, Heap
  <2>3. /\ h.parent[s[x]] = p
        /\ h.next[s[x]] = ItemAt(s, x + 1)
        /\ h.prev[s[x]] = ItemAt(s, x - 1)
    <3> HIDE DEF x
    <3> QED
      BY <2>1 DEF Chain
  <2>4. /\ s[x] = ItemAt(s, i - 1) <=> x = i - 1
        /\ s[x] = ItemAt(s, i + 1) <=> x = i + 1
    <3> HIDE DEF x
    <3> QED
      BY <1>1, <2>1 DEF Chain, ItemAt
  <2>5. /\ ItemAt(t, k + 1) = IF x = i - 1 THEN ItemAt(s, i + 1) ELSE ItemAt(s, x + 1)
        /\ ItemAt(t, k - 1) = IF x = i + 1 THEN ItemAt(s, i - 1) ELSE ItemAt(s, x - 1)
    BY <1>1, <1>2, <1>3
  <2> HIDE DEF x
  <2> QED
    BY <2>1, <2>2, <2>3, <2>4, <2>5
<1> QED
  BY <1>5, <1>6, <1>7, <1>8 DEF Chain, t

(* The other lists stay as they are. *)
LEMMA CutElsewhere ==
  ASSUME NEW h \in Heap, NEW g \in Heap, NEW p \in Parent, NEW s \in Seq(Node), NEW i \in 1 .. Len(s),
         Chain(h, p, s), UnlinkedFrom(g, h, p, s[i]),
         NEW q \in Parent, q # p, NEW r \in Seq(Node), Chain(h, q, r)
  PROVE  Chain(g, q, r)
<1>1. /\ \A k \in 1 .. Len(r) : r[k] \in Node /\ r[k] \in Parent /\ r[k] # Null
      /\ \A k \in 1 .. Len(s) : s[k] \in Node /\ s[k] # Null
  BY HeapAssumption DEF Parent
<1>2. ASSUME NEW j \in 1 .. Len(r), NEW k \in 1 .. Len(s) PROVE r[j] # s[k]
  <2>1. h.parent[r[j]] = q /\ h.parent[s[k]] = p
    BY DEF Chain
  <2> QED
    BY <2>1
<1>3. /\ h.prev[s[i]] = ItemAt(s, i - 1) /\ h.next[s[i]] = ItemAt(s, i + 1)
  BY DEF Chain
<1>4. \A j \in 1 .. Len(r) : r[j] # h.prev[s[i]] /\ r[j] # h.next[s[i]]
  BY <1>1, <1>2, <1>3 DEF ItemAt
<1>5. g.first[q] = h.first[q] /\ g.last[q] = h.last[q]
  BY DEF UnlinkedFrom, Heap
<1>6. \A j \in 1 .. Len(r) : /\ g.parent[r[j]] = h.parent[r[j]]
                             /\ g.next[r[j]] = h.next[r[j]]
                             /\ g.prev[r[j]] = h.prev[r[j]]
  BY <1>1, <1>2, <1>4 DEF UnlinkedFrom, Heap
<1> QED
  BY <1>5, <1>6 DEF Chain

(* Unlink cuts a node out of the list it is in. *)
LEMMA Cut ==
  ASSUME NEW h \in Heap, NEW kids, Laid(h, kids), NEW n \in Node, h.parent[n] # Null
  PROVE  /\ Unlink(h, n) \in Heap
         /\ UnlinkedFrom(Unlink(h, n), h, h.parent[n], n)
         /\ \E i \in 1 .. Len(kids[h.parent[n]]) :
              /\ kids[h.parent[n]][i] = n
              /\ Laid(Unlink(h, n), [kids EXCEPT ![h.parent[n]] = Removed(kids[h.parent[n]], i)])
<1> DEFINE p == h.parent[n]
           s == kids[p]
           g == Unlink(h, n)
<1>1. p \in Parent /\ s \in Seq(Node) /\ Chain(h, p, s) /\ n \in Parent
  BY DEF Laid, Heap, Parent
<1>2. g \in Heap /\ UnlinkedFrom(g, h, p, n)
  <2> DEFINE fi == [h.first EXCEPT ![p] = IF @ = n THEN h.next[n] ELSE @]
             la == [h.last EXCEPT ![p] = IF @ = n THEN h.prev[n] ELSE @]
             ne == Store(h.next, h.prev[n], h.next[n])
             pr == Store(h.prev, h.next[n], h.prev[n])
             pa == [h.parent EXCEPT ![n] = Null]
  <2>1. g = [h EXCEPT !.first = fi, !.last = la, !.next = ne, !.prev = pr, !.parent = pa]
    BY DEF Unlink
  <2>2. /\ h.first \in [Parent -> Node \union {Null}] /\ h.last \in [Parent -> Node \union {Null}]
        /\ h.prev \in [Parent -> Node \union {Null}] /\ h.next \in [Parent -> Node \union {Null}]
        /\ h.parent \in [Parent -> Parent \union {Null}]
    BY DEF Heap
  <2> HIDE DEF p, g
  <2>3. fi \in [Parent -> Node \union {Null}] /\ la \in [Parent -> Node \union {Null}]
    BY <1>1, <2>2
  <2>4. pa \in [Parent -> Parent \union {Null}]
    BY <1>1, <2>2
  <2>5. /\ ne \in [Parent -> Node \union {Null}]
        /\ \A m \in Parent : ne[m] = IF m = h.prev[n] THEN h.next[n] ELSE h.next[m]
    BY <1>1, <2>2 DEF Store
  <2>6. /\ pr \in [Parent -> Node \union {Null}]
        /\ \A m \in Parent : pr[m] = IF m = h.next[n] THEN h.prev[n] ELSE h.prev[m]
    BY <1>1, <2>2 DEF Store
  <2> HIDE DEF ne, pr
  <2>7. UnlinkedFrom(g, h, p, n)
    BY <2>1, <2>5, <2>6 DEF Heap, UnlinkedFrom
  <2> HIDE DEF fi, la, pa
  <2>8. g \in Heap
    BY <2>1, <2>3, <2>4, <2>5, <2>6 DEF Heap
  <2> QED
    BY <2>7, <2>8
<1>3. PICK i \in 1 .. Len(s) : s[i] = n
  BY <1>1 DEF Laid
<1> DEFINE t == Removed(s, i)
           new == [kids EXCEPT ![p] = t]
<1> HIDE DEF p, s, g, t
<1>4. t \in Seq(Node) /\ Len(s) \in Nat /\ Len(t) = Len(s) - 1
      /\ \A k \in 1 .. Len(s) - 1 : t[k] = IF k < i THEN s[k] ELSE s[k + 1]
  <2>1. Len(s) \in Nat
    BY <1>1
  <2> QED
    BY <1>1, <2>1, RemovedSeq DEF t
<1>5. kids \in [Parent -> Seq(Node)] /\ \A q \in Parent : Chain(h, q, kids[q])
  BY DEF Laid
<1>6. new \in [Parent -> Seq(Node)] /\ new[p] = t /\ \A q \in Parent : q # p => new[q] = kids[q]
  BY <1>1, <1>4, <1>5
<1> HIDE DEF new
<1>7. ASSUME NEW q \in Parent PROVE Chain(g, q, new[q])
  <2>1. CASE q = p
    BY <1>1, <1>2, <1>3, <1>6, <2>1, CutHere DEF t
  <2>2. CASE q # p
    BY <1>1, <1>2, <1>3, <1>5, <1>6, <2>2, CutElsewhere
  <2> QED
    BY <2>1, <2>2
<1>8. ASSUME NEW m \in Parent, g.parent[m] # Null
      PROVE  \E k \in 1 .. Len(new[g.parent[m]]) : new[g.parent[m]][k] = m
  <2>1. m # n /\ g.parent[m] = h.parent[m] /\ h.parent[m] \in Parent
    BY <1>1, <1>2, <1>8 DEF UnlinkedFrom, Heap
  <2>2. PICK k \in 1 .. Len(kids[h.parent[m]]) : kids[h.parent[m]][k] = m
    BY <1>8, <2>1 DEF Laid
  <2>3. CASE h.parent[m] = p
    <3>1. k \in 1 .. Len(s) /\ s[k] = m /\ k # i
      BY <1>3, <2>1, <2>2, <2>3 DEF s
    <3> DEFINE x == IF k < i THEN k ELSE k - 1
    <3>2. x \in 1 .. Len(t) /\ t[x] = m
      BY <1>4, <3>1
    <3> QED
      BY <1>6, <2>1, <2>3, <3>2
  <2>4. CASE h.parent[m] # p
    BY <1>6, <2>1, <2>2, <2>4
  <2> QED
    BY <2>3, <2>4
<1>9. Laid(g, new)
  BY <1>6, <1>7, <1>8 DEF Laid
<1> QED
  BY <1>2, <1>3, <1>9 DEF g, p, s, t, new

-----------------------------------------------------------------------------
(* What an insert does to the pointers: n goes below p, between l and r. *)
LinkedBetween(h, g, p, l, r, n) ==
  /\ h.parent = [g.parent EXCEPT ![n] = p]
  /\ h.first = [g.first EXCEPT ![p] = IF l = Null THEN n ELSE @]
  /\ h.last = [g.last EXCEPT ![p] = IF r = Null THEN n ELSE @]
  /\ \A m \in Parent : h.next[m] = IF m = n THEN r ELSE IF m = l THEN n ELSE g.next[m]
  /\ \A m \in Parent : h.prev[m] = IF m = n THEN l ELSE IF m = r THEN n ELSE g.prev[m]

(* The list a node is put into is laid out with it. *)
LEMMA SpliceHere ==
  ASSUME NEW g \in Heap, NEW h \in Heap, NEW p \in Parent, NEW s \in Seq(Node), NEW j \in 1 .. Len(s) + 1,
         NEW n \in Node, g.parent[n] = Null, Chain(g, p, s),
         LinkedBetween(h, g, p, ItemAt(s, j - 1), ItemAt(s, j), n)
  PROVE  Chain(h, p, Inserted(s, j, n))
<1> DEFINE t == Inserted(s, j, n)
           l == ItemAt(s, j - 1)
           r == ItemAt(s, j)
<1>1. /\ Len(s) \in Nat /\ n # Null /\ n \in Parent
      /\ \A k \in 1 .. Len(s) : s[k] \in Node /\ s[k] \in Parent /\ s[k] # Null
  BY HeapAssumption DEF Parent
<1>2. /\ t \in Seq(Node) /\ Len(t) = Len(s) + 1
      /\ \A k \in 1 .. Len(s) + 1 : t[k] = IF k < j THEN s[k] ELSE IF k = j THEN n ELSE s[k - 1]
  <2>1. PutInto(t, Node, s, j, n)
    BY InsertedSeq
  <2> QED
    BY <2>1 DEF PutInto
<1>3. \A k \in 1 .. Len(s) : s[k] # n
  <2>1. \A k \in 1 .. Len(s) : g.parent[s[k]] = p
    BY DEF Chain
  <2>2. p # Null
    BY HeapAssumption DEF Parent
  <2> QED
    BY <2>1, <2>2
<1> HIDE DEF t
<1>4. \A k \in 0 .. Len(s) + 2 :
        ItemAt(t, k) = IF k < j THEN ItemAt(s, k) ELSE IF k = j THEN n ELSE ItemAt(s, k - 1)
  BY <1>1, <1>2 DEF ItemAt
<1>5. ASSUME NEW a \in 1 .. Len(t), NEW b \in 1 .. Len(t), t[a] = t[b] PROVE a = b
  <2>1. CASE a # j /\ b # j
    <3> DEFINE x == IF a < j THEN a ELSE a - 1
               y == IF b < j THEN b ELSE b - 1
    <3>1. x \in 1 .. Len(s) /\ y \in 1 .. Len(s) /\ s[x] = s[y]
      BY <1>1, <1>2, <1>5, <2>1
    <3>2. x = y
      <4> HIDE DEF x, y
      <4> QED
        BY <3>1 DEF Chain
    <3> QED
      BY <1>1, <1>2, <2>1, <3>2
  <2>2. ASSUME NEW c \in 1 .. Len(t), c # j PROVE t[c] # n
    <3>1. \E k \in 1 .. Len(s) : t[c] = s[k]
      <4> DEFINE x == IF c < j THEN c ELSE c - 1
      <4>1. x \in 1 .. Len(s) /\ t[c] = s[x]
        BY <1>1, <1>2, <2>2
      <4> QED
        BY <4>1
    <3> QED
      BY <1>3, <3>1
  <2>3. t[j] = n
    BY <1>1, <1>2
  <2> QED
    BY <1>5, <2>1, <2>2, <2>3
<1>6. h.first[p] = ItemAt(t, 1)
  <2>1. h.first[p] = IF l = Null THEN n ELSE g.first[p]
    BY DEF LinkedBetween, Heap
  <2>2. g.first[p] = ItemAt(s, 1) /\ (l = Null <=> j = 1)
    BY <1>1 DEF Chain, ItemAt
  <2>3. ItemAt(t, 1) = IF 1 < j THEN ItemAt(s, 1) ELSE n
    BY <1>1, <1>4
  <2> QED
    BY <2>1, <2>2, <2>3
<1>7. h.last[p] = ItemAt(t, Len(t))
  <2>1. h.last[p] = IF r = Null THEN n ELSE g.last[p]
    BY DEF LinkedBetween, Heap
  <2>2. g.last[p] = ItemAt(s, Len(s)) /\ (r = Null <=> j = Len(s) + 1)
    BY <1>1 DEF Chain, ItemAt
  <2>3. ItemAt(t, Len(t)) = IF Len(s) + 1 = j THEN n ELSE ItemAt(s, Len(s))
    BY <1>1, <1>2, <1>4
  <2> QED
    BY <2>1, <2>2, <2>3
<1>8. ASSUME NEW k \in 1 .. Len(t), k = j
      PROVE  /\ h.parent[t[k]] = p
             /\ h.next[t[k]] = ItemAt(t, k + 1)
             /\ h.prev[t[k]] = ItemAt(t, k - 1)
  <2>1. /\ t[k] = n /\ ItemAt(t, k + 1) = r /\ ItemAt(t, k - 1) = l
    BY <1>1, <1>2, <1>4, <1>8
  <2>2. h.parent[n] = p /\ h.next[n] = r /\ h.prev[n] = l
    BY <1>1 DEF LinkedBetween, Heap
  <2> QED
    BY <2>1, <2>2
<1>9. ASSUME NEW k \in 1 .. Len(t), k # j
      PROVE  /\ h.parent[t[k]] = p
             /\ h.next[t[k]] = ItemAt(t, k + 1)
             /\ h.prev[t[k]] = ItemAt(t, k - 1)
  <2> DEFINE x == IF k < j THEN k ELSE k - 1
  <2>1. x \in 1 .. Len(s) /\ t[k] = s[x] /\ s[x] # n /\ s[x] \in Parent
    BY <1>1, <1>2, <1>3, <1>9
  <2>2. /\ h.parent[s[x]] = g.parent[s[x]]
        /\ h.next[s[x]] = IF s[x] = l THEN n ELSE g.next[s[x]]
        /\ h.prev[s[x]] = IF s[x] = r THEN n ELSE g.prev[s[x]]
    <3> HIDE DEF x
    <3> QED
      BY <2>1 DEF LinkedBetween, Heap
  <2>3. /\ g.parent[s[x]] = p
        /\ g.next[s[x]] = ItemAt(s, x + 1)
        /\ g.prev[s[x]] = ItemAt(s, x - 1)
    <3> HIDE DEF x
    <3> QED
      BY <2>1 DEF Chain
  <2>4. /\ s[x] = l <=> x = j - 1
        /\ s[x] = r <=> x = j
    <3> HIDE DEF x
    <3> QED
      BY <1>1, <2>1 DEF Chain, ItemAt
  <2>5. /\ ItemAt(t, k + 1) = IF x = j - 1 THEN n ELSE ItemAt(s, x + 1)
        /\ ItemAt(t, k - 1) = IF x = j THEN n ELSE ItemAt(s, x - 1)
    BY <1>1, <1>2, <1>4, <1>9
  <2> HIDE DEF x, l, r
  <2> QED
    BY <2>1, <2>2, <2>3, <2>4, <2>5
<1> QED
  BY <1>5, <1>6, <1>7, <1>8, <1>9 DEF Chain, t

(* The other lists stay as they are. *)
LEMMA SpliceElsewhere ==
  ASSUME NEW g \in Heap, NEW h \in Heap, NEW p \in Parent, NEW s \in Seq(Node), NEW j \in 1 .. Len(s) + 1,
         NEW n \in Node, g.parent[n] = Null, Chain(g, p, s),
         LinkedBetween(h, g, p, ItemAt(s, j - 1), ItemAt(s, j), n),
         NEW q \in Parent, q # p, NEW u \in Seq(Node), Chain(g, q, u)
  PROVE  Chain(h, q, u)
<1>1. /\ \A k \in 1 .. Len(u) : u[k] \in Node /\ u[k] \in Parent /\ u[k] # Null
      /\ \A k \in 1 .. Len(s) : s[k] \in Node /\ s[k] # Null
  BY HeapAssumption DEF Parent
<1>2. ASSUME NEW a \in 1 .. Len(u), NEW b \in 1 .. Len(s) PROVE u[a] # s[b]
  <2>1. g.parent[u[a]] = q /\ g.parent[s[b]] = p
    BY DEF Chain
  <2> QED
    BY <2>1
<1>3. ASSUME NEW a \in 1 .. Len(u) PROVE u[a] # n
  <2>1. g.parent[u[a]] = q /\ q # Null
    BY HeapAssumption DEF Chain, Parent
  <2> QED
    BY <2>1
<1>4. \A a \in 1 .. Len(u) : u[a] # ItemAt(s, j - 1) /\ u[a] # ItemAt(s, j)
  BY <1>1, <1>2 DEF ItemAt
<1>5. h.first[q] = g.first[q] /\ h.last[q] = g.last[q]
  BY DEF LinkedBetween, Heap
<1>6. \A a \in 1 .. Len(u) : /\ h.parent[u[a]] = g.parent[u[a]]
                             /\ h.next[u[a]] = g.next[u[a]]
                             /\ h.prev[u[a]] = g.prev[u[a]]
  BY <1>1, <1>3, <1>4 DEF LinkedBetween, Heap
<1> QED
  BY <1>5, <1>6 DEF Chain

(* An insert puts a node that hangs nowhere into one list. *)
LEMMA Splice ==
  ASSUME NEW g \in Heap, NEW kids, Laid(g, kids), NEW h \in Heap,
         NEW p \in Parent, NEW j \in 1 .. Len(kids[p]) + 1, NEW n \in Node, g.parent[n] = Null,
         LinkedBetween(h, g, p, ItemAt(kids[p], j - 1), ItemAt(kids[p], j), n)
  PROVE  Laid(h, [kids EXCEPT ![p] = Inserted(kids[p], j, n)])
<1> DEFINE s == kids[p]
           t == Inserted(s, j, n)
           new == [kids EXCEPT ![p] = t]
<1>1. s \in Seq(Node) /\ Len(s) \in Nat /\ Chain(g, p, s) /\ n \in Parent
  BY DEF Laid, Parent
<1> HIDE DEF s, t
<1>2. t \in Seq(Node) /\ Len(t) = Len(s) + 1
      /\ \A k \in 1 .. Len(s) + 1 : t[k] = IF k < j THEN s[k] ELSE IF k = j THEN n ELSE s[k - 1]
  <2>1. j \in 1 .. Len(s) + 1
    BY DEF s
  <2>2. PutInto(t, Node, s, j, n)
    BY <1>1, <2>1, InsertedSeq DEF t
  <2> QED
    BY <2>2 DEF PutInto
<1>3. kids \in [Parent -> Seq(Node)] /\ \A q \in Parent : Chain(g, q, kids[q])
  BY DEF Laid
<1>4. new \in [Parent -> Seq(Node)] /\ new[p] = t /\ \A q \in Parent : q # p => new[q] = kids[q]
  BY <1>2, <1>3
<1> HIDE DEF new
<1>5. ASSUME NEW q \in Parent PROVE Chain(h, q, new[q])
  <2>1. j \in 1 .. Len(s) + 1 /\ LinkedBetween(h, g, p, ItemAt(s, j - 1), ItemAt(s, j), n)
    BY DEF s
  <2>2. CASE q = p
    BY <1>1, <1>4, <2>1, <2>2, SpliceHere DEF t
  <2>3. CASE q # p
    BY <1>1, <1>3, <1>4, <2>1, <2>3, SpliceElsewhere
  <2> QED
    BY <2>2, <2>3
<1>6. ASSUME NEW m \in Parent, h.parent[m] # Null
      PROVE  \E k \in 1 .. Len(new[h.parent[m]]) : new[h.parent[m]][k] = m
  <2>1. CASE m = n
    <3>1. h.parent[m] = p
      BY <1>1, <2>1 DEF LinkedBetween, Heap
    <3>2. j \in 1 .. Len(t) /\ t[j] = n
      <4>1. j \in 1 .. Len(s) + 1
        BY DEF s
      <4> QED
        BY <1>1, <1>2, <4>1
    <3> QED
      BY <1>4, <2>1, <3>1, <3>2
  <2>2. CASE m # n
    <3>1. h.parent[m] = g.parent[m] /\ g.parent[m] \in Parent
      BY <1>6, <2>2 DEF LinkedBetween, Heap
    <3>2. PICK k \in 1 .. Len(kids[g.parent[m]]) : kids[g.parent[m]][k] = m
      BY <1>6, <3>1 DEF Laid
    <3>3. CASE g.parent[m] = p
      <4>1. k \in 1 .. Len(s) /\ s[k] = m
        BY <3>2, <3>3 DEF s
      <4> DEFINE x == IF k < j THEN k ELSE k + 1
      <4>2. x \in 1 .. Len(t) /\ t[x] = m
        <5>1. j \in 1 .. Len(s) + 1
          BY DEF s
        <5> QED
          BY <1>1, <1>2, <4>1, <5>1
      <4> QED
        BY <1>4, <3>1, <3>3, <4>2
    <3>4. CASE g.parent[m] # p
      BY <1>4, <3>1, <3>2, <3>4
    <3> QED
      BY <3>3, <3>4
  <2> QED
    BY <2>1, <2>2
<1> QED
  BY <1>4, <1>5, <1>6 DEF Laid, new, t, s

-----------------------------------------------------------------------------
(* Following the next pointers.                                            *)

\* A node that hangs nowhere is the last of its own chain.
LooseEnds(h) == \A n \in Parent : h.parent[n] = Null => h.next[n] = Null

\* A list from its i-th on.
Suffix(s, i) == [k \in 1 .. Len(s) - i + 1 |-> s[i + k - 1]]

\* f reads off the chain from any node on, as Children does.
Follows(f, h) ==
  f = [n \in Parent \union {Null} |-> IF n = Null THEN <<>> ELSE <<n>> \o f[h.next[n]]]

(* A set of numbers that is not empty has a least one. *)
LEMMA LeastOfNat ==
  ASSUME NEW S \in SUBSET Nat, S # {}
  PROVE  \E w \in S : \A u \in S : w <= u
<1>1. PICK w \in S : \A u \in S : ~ (<<u, w>> \in OpToRel(<, Nat))
  BY NatLessThanWellFounded, WFMin
<1>2. \A u \in S : ~ (u < w)
  BY <1>1 DEF OpToRel
<1> QED
  BY <1>2

(* An item put in front of a list.                                         *)
LEMMA ConsSeq ==
  ASSUME NEW S, NEW x \in S, NEW b \in Seq(S)
  PROVE  /\ <<x>> \o b \in Seq(S)
         /\ Len(<<x>> \o b) = Len(b) + 1
         /\ (<<x>> \o b)[1] = x
         /\ \A k \in 1 .. Len(b) : (<<x>> \o b)[k + 1] = b[k]
<1>1. <<x>> \in Seq(S) /\ Len(<<x>>) = 1 /\ <<x>>[1] = x /\ Len(b) \in Nat
  OBVIOUS
<1>2. /\ <<x>> \o b \in Seq(S)
      /\ Len(<<x>> \o b) = Len(<<x>>) + Len(b)
      /\ \A k \in 1 .. Len(<<x>>) + Len(b) :
           (<<x>> \o b)[k] = IF k <= Len(<<x>>) THEN <<x>>[k] ELSE b[k - Len(<<x>>)]
  BY <1>1, ConcatProperties
<1>3. ASSUME NEW k \in 1 .. Len(b) PROVE (<<x>> \o b)[k + 1] = b[k]
  <2>1. k + 1 \in 1 .. Len(<<x>>) + Len(b) /\ ~(k + 1 <= Len(<<x>>)) /\ (k + 1) - Len(<<x>>) = k
    BY <1>1
  <2> QED
    BY <1>2, <2>1
<1>4. (<<x>> \o b)[1] = x
  <2>1. 1 \in 1 .. Len(<<x>>) + Len(b) /\ 1 <= Len(<<x>>)
    BY <1>1
  <2> QED
    BY <1>1, <1>2, <2>1
<1> QED
  BY <1>1, <1>2, <1>3, <1>4

(* What is left of a list from its i-th item on.                           *)
LEMMA SuffixSeq ==
  ASSUME NEW S, NEW s \in Seq(S)
  PROVE  \A i \in 1 .. Len(s) + 1 :
           /\ Suffix(s, i) \in Seq(S) /\ Len(Suffix(s, i)) = Len(s) - i + 1
           /\ \A k \in 1 .. Len(s) - i + 1 : Suffix(s, i)[k] = s[i + k - 1]
<1> TAKE i \in 1 .. Len(s) + 1
<1>1. Len(s) \in Nat /\ \A k \in 1 .. Len(s) : s[k] \in S
  OBVIOUS
<1>2. Len(s) - i + 1 \in Nat
  BY <1>1
<1>3. Suffix(s, i) \in [1 .. Len(s) - i + 1 -> S]
  BY <1>1 DEF Suffix
<1> QED
  BY <1>2, <1>3 DEF Suffix

(* The rest of a list is its next item and the rest behind that.           *)
LEMMA SuffixCons ==
  ASSUME NEW S, NEW s \in Seq(S), NEW i \in 1 .. Len(s)
  PROVE  Suffix(s, i) = <<s[i]>> \o Suffix(s, i + 1)
<1> DEFINE a == Suffix(s, i)
           b == Suffix(s, i + 1)
           c == <<s[i]>> \o b
<1>1. Len(s) \in Nat /\ s[i] \in S /\ i \in 1 .. Len(s) + 1 /\ i + 1 \in 1 .. Len(s) + 1
  OBVIOUS
<1>2. /\ a \in Seq(S) /\ Len(a) = Len(s) - i + 1
      /\ \A k \in 1 .. Len(s) - i + 1 : a[k] = s[i + k - 1]
  BY <1>1, SuffixSeq
<1>3. /\ b \in Seq(S) /\ Len(b) = Len(s) - i
      /\ \A k \in 1 .. Len(s) - i : b[k] = s[i + k]
  <2>1. /\ b \in Seq(S) /\ Len(b) = Len(s) - (i + 1) + 1
        /\ \A k \in 1 .. Len(s) - (i + 1) + 1 : b[k] = s[(i + 1) + k - 1]
    BY <1>1, SuffixSeq
  <2>2. Len(s) - (i + 1) + 1 = Len(s) - i
    BY <1>1
  <2> HIDE DEF b
  <2>3. ASSUME NEW k \in 1 .. Len(s) - i PROVE b[k] = s[i + k]
    <3>1. k \in 1 .. Len(s) - (i + 1) + 1 /\ (i + 1) + k - 1 = i + k
      BY <1>1, <2>2
    <3> QED
      BY <2>1, <3>1
  <2> QED
    BY <2>1, <2>2, <2>3
<1> HIDE DEF a, b
<1>4. /\ c \in Seq(S) /\ Len(c) = Len(b) + 1 /\ c[1] = s[i]
      /\ \A k \in 1 .. Len(b) : c[k + 1] = b[k]
  <2> DEFINE x == s[i]
  <2>1. x \in S /\ b \in Seq(S)
    BY <1>1, <1>3
  <2> HIDE DEF x
  <2>2. /\ <<x>> \o b \in Seq(S)
        /\ Len(<<x>> \o b) = Len(b) + 1
        /\ (<<x>> \o b)[1] = x
        /\ \A k \in 1 .. Len(b) : (<<x>> \o b)[k + 1] = b[k]
    BY <2>1, ConsSeq
  <2> QED
    BY <2>2, Zenon DEF x
<1> HIDE DEF c
<1>5. ASSUME NEW k \in 1 .. Len(a) PROVE a[k] = c[k]
  <2>1. CASE k = 1
    BY <1>1, <1>2, <1>4, <2>1
  <2>2. CASE k # 1
    <3>1. k - 1 \in 1 .. Len(b) /\ (k - 1) + 1 = k /\ i + (k - 1) = i + k - 1
      BY <1>1, <1>2, <1>3, <2>2
    <3> QED
      BY <1>2, <1>3, <1>4, <3>1
  <2> QED
    BY <2>1, <2>2
<1>6. Len(a) = Len(c)
  BY <1>1, <1>2, <1>3, <1>4
<1>7. a = c
  BY <1>2, <1>4, <1>5, <1>6, SeqEqual
<1> QED
  BY <1>7 DEF a, b, c

(* From its first item on a list is whole, from beyond its last empty.     *)
LEMMA SuffixWhole ==
  ASSUME NEW S, NEW s \in Seq(S)
  PROVE  Suffix(s, 1) = s /\ Suffix(s, Len(s) + 1) = <<>>
<1>1. Len(s) \in Nat /\ 1 \in 1 .. Len(s) + 1 /\ Len(s) + 1 \in 1 .. Len(s) + 1
  OBVIOUS
<1> DEFINE a == Suffix(s, 1)
           b == Suffix(s, Len(s) + 1)
<1>2. a \in Seq(S) /\ Len(a) = Len(s) /\ \A k \in 1 .. Len(s) : a[k] = s[k]
  <2>1. /\ a \in Seq(S) /\ Len(a) = Len(s) - 1 + 1
        /\ \A k \in 1 .. Len(s) - 1 + 1 : a[k] = s[1 + k - 1]
    BY <1>1, SuffixSeq
  <2> HIDE DEF a
  <2> QED
    BY <1>1, <2>1
<1>3. b \in Seq(S) /\ Len(b) = 0
  <2>1. b \in Seq(S) /\ Len(b) = Len(s) - (Len(s) + 1) + 1
    BY <1>1, SuffixSeq
  <2> HIDE DEF b
  <2> QED
    BY <1>1, <2>1
<1> HIDE DEF a, b
<1>4. a = s
  BY <1>2, SeqEqual
<1>5. b = <<>>
  BY <1>3, EmptySeq
<1> QED
  BY <1>4, <1>5 DEF a, b

(* Where the pointers lay out lists there is such a function. *)
LEMMA SomeFollow ==
  ASSUME NEW h \in Heap, NEW kids, Laid(h, kids), LooseEnds(h)
  PROVE  \E f : Follows(f, h)
<1> DEFINE place(n) == CHOOSE i \in 1 .. Len(kids[h.parent[n]]) : kids[h.parent[n]][i] = n
           from(n) == IF n = Null THEN <<>>
                      ELSE IF h.parent[n] = Null THEN <<n>>
                           ELSE Suffix(kids[h.parent[n]], place(n))
           f == [n \in Parent \union {Null} |-> from(n)]
<1>1. ASSUME NEW n \in Parent PROVE from(n) = <<n>> \o from(h.next[n])
  <2>1. n # Null /\ from(Null) = <<>>
    BY HeapAssumption DEF Parent
  <2>2. CASE h.parent[n] = Null
    <3>1. h.next[n] = Null /\ from(n) = <<n>>
      BY <2>1, <2>2 DEF LooseEnds
    <3>2. <<n>> \o <<>> = <<n>>
      OBVIOUS
    <3> HIDE DEF from
    <3> QED
      BY <2>1, <3>1, <3>2
  <2>3. CASE h.parent[n] # Null
    <3> DEFINE p == h.parent[n]
               s == kids[p]
               i == place(n)
    <3>1. p \in Parent /\ p # Null /\ s \in Seq(Node) /\ Chain(h, p, s)
      BY <2>3 DEF Laid, Heap
    <3>2. i \in 1 .. Len(s) /\ s[i] = n
      BY <2>3 DEF Laid
    <3>3. from(n) = Suffix(s, i)
      BY <2>1, <2>3
    <3>4. from(h.next[n]) = Suffix(s, i + 1)
      <4>1. h.next[n] = ItemAt(s, i + 1)
        <5> HIDE DEF p, s, i
        <5> QED
          BY <3>1, <3>2 DEF Chain
      <4>2. CASE i = Len(s)
        <5>1. h.next[n] = Null /\ Suffix(s, i + 1) = <<>>
          <6> HIDE DEF p, s, i
          <6> QED
            BY <3>1, <3>2, <4>1, <4>2, SuffixWhole DEF ItemAt
        <5> QED
          BY <2>1, <5>1
      <4>3. CASE i # Len(s)
        <5> DEFINE m == h.next[n]
        <5>1. m = s[i + 1] /\ i + 1 \in 1 .. Len(s) /\ h.parent[m] = p /\ m # Null
          <6> HIDE DEF p, s, i
          <6> QED
            BY <3>1, <3>2, <4>1, <4>3, HeapAssumption DEF ItemAt, Chain
        <5>2. place(m) = i + 1
          <6>1. \A k \in 1 .. Len(s) : s[k] = m => k = i + 1
            <7> HIDE DEF p, s, i, m
            <7> QED
              BY <3>1, <5>1 DEF Chain
          <6>2. place(m) \in 1 .. Len(s) /\ s[place(m)] = m
            BY <5>1
          <6> HIDE DEF place, s, i, m
          <6> QED
            BY <6>1, <6>2
        <5>3. from(m) = Suffix(kids[h.parent[m]], place(m))
          BY <3>1, <5>1
        <5> HIDE DEF place, from
        <5> QED
          BY <5>1, <5>2, <5>3
      <4> QED
        BY <4>2, <4>3
    <3>5. Suffix(s, i) = <<s[i]>> \o Suffix(s, i + 1)
      <4> HIDE DEF s, i
      <4> QED
        BY <3>1, <3>2, SuffixCons
    <3> HIDE DEF p, s, i, from
    <3> QED
      BY <3>2, <3>3, <3>4, <3>5
  <2> QED
    BY <2>2, <2>3
<1>2. ASSUME NEW n \in Parent \union {Null}
      PROVE  f[n] = IF n = Null THEN <<>> ELSE <<n>> \o f[h.next[n]]
  <2>1. from(Null) = <<>>
    OBVIOUS
  <2>2. n # Null => h.next[n] \in Parent \union {Null}
    BY DEF Heap, Parent
  <2> HIDE DEF from
  <2> QED
    BY <1>1, <2>1, <2>2
<1>3. Follows(f, h)
  <2>1. f = [n \in Parent \union {Null} |-> f[n]]
    OBVIOUS
  <2> HIDE DEF f
  <2> QED
    BY <1>2, <2>1 DEF Follows
<1> QED
  BY <1>3

(* Any such function reads the lists off, from any place in them. *)
LEMMA FollowsList ==
  ASSUME NEW h \in Heap, NEW kids, Laid(h, kids), NEW f, Follows(f, h), NEW p \in Parent
  PROVE  f[h.first[p]] = kids[p]
<1> DEFINE s == kids[p]
           wrong == {d \in 0 .. Len(s) : f[ItemAt(s, Len(s) + 1 - d)] # Suffix(s, Len(s) + 1 - d)}
<1>1. s \in Seq(Node) /\ Chain(h, p, s)
  BY DEF Laid
<1>2. Len(s) \in Nat /\ \A k \in 1 .. Len(s) : s[k] \in Parent /\ s[k] # Null
  BY <1>1, HeapAssumption DEF Parent
<1>3. /\ f[Null] = <<>>
      /\ \A n \in Parent : n # Null => f[n] = <<n>> \o f[h.next[n]]
  BY DEF Follows
<1> HIDE DEF s
<1>4. wrong = {}
  <2> SUFFICES ASSUME wrong # {} PROVE FALSE
    OBVIOUS
  <2>1. wrong \in SUBSET Nat
    OBVIOUS
  <2>2. PICK d \in wrong : \A e \in wrong : d <= e
    BY <2>1, LeastOfNat
  <2> DEFINE i == Len(s) + 1 - d
  <2>3. d \in 0 .. Len(s) /\ i \in 1 .. Len(s) + 1 /\ f[ItemAt(s, i)] # Suffix(s, i)
    BY <1>2
  <2>4. CASE d = 0
    <3>1. i = Len(s) + 1
      BY <1>2, <2>4
    <3>2. ItemAt(s, i) = Null
      BY <1>2, <3>1 DEF ItemAt
    <3>3. Suffix(s, i) = <<>>
      BY <1>1, <3>1, SuffixWhole
    <3> QED
      BY <1>3, <2>3, <3>2, <3>3
  <2>5. CASE d # 0
    <3>1. d - 1 \in 0 .. Len(s) /\ d - 1 \notin wrong
      <4>1. d - 1 \in 0 .. Len(s) /\ ~(d <= d - 1)
        BY <1>2, <2>3, <2>5
      <4> HIDE DEF wrong
      <4> QED
        BY <2>2, <4>1
    <3>2. Len(s) + 1 - (d - 1) = i + 1 /\ i \in 1 .. Len(s)
      BY <1>2, <2>3, <2>5
    <3>3. f[ItemAt(s, i + 1)] = Suffix(s, i + 1)
      BY <3>1, <3>2
    <3>4. f[s[i]] = <<s[i]>> \o f[h.next[s[i]]]
      BY <1>2, <1>3, <3>2
    <3>5. h.next[s[i]] = ItemAt(s, i + 1) /\ ItemAt(s, i) = s[i]
      BY <1>1, <3>2 DEF Chain, ItemAt
    <3>6. Suffix(s, i) = <<s[i]>> \o Suffix(s, i + 1)
      BY <1>1, <3>2, SuffixCons
    <3> HIDE DEF i
    <3> QED
      BY <2>3, <3>3, <3>4, <3>5, <3>6
  <2> QED
    BY <2>4, <2>5
<1>5. f[ItemAt(s, 1)] = Suffix(s, 1)
  <2>1. Len(s) \in 0 .. Len(s) /\ Len(s) + 1 - Len(s) = 1
    BY <1>2
  <2> QED
    BY <1>4, <2>1
<1> QED
  BY <1>1, <1>5, SuffixWhole DEF Chain, s

(* What a reader finds below p is the list. *)
LEMMA ChildrenListed ==
  ASSUME NEW h \in Heap, NEW kids, Laid(h, kids), LooseEnds(h), NEW p \in Parent
  PROVE  Children(h, p) = kids[p]
<1> DEFINE from == CHOOSE f : f = [n \in Parent \union {Null} |-> IF n = Null THEN <<>> ELSE <<n>> \o f[h.next[n]]]
<1>1. Children(h, p) = from[h.first[p]]
  BY DEF Children
<1>2. Follows(from, h)
  BY SomeFollow DEF Follows
<1> HIDE DEF from
<1> QED
  BY <1>1, <1>2, FollowsList

-----------------------------------------------------------------------------
(* Walking the tree: a node, what hangs below it and its siblings behind.  *)

\* No walk along first and next comes back to where it was: among any nodes
\* there is one from which neither leads to another of them.
Grounded(h) ==
  \A X \in SUBSET Node : X # {} => \E m \in X : h.first[m] \notin X /\ h.next[m] \notin X

\* What From says of x, where g says it of the nodes that x leads to.
Visited(g, h, x) == IF x = Null THEN <<>> ELSE g[h.first[x]] \o (<<x>> \o g[h.next[x]])

Walks(f, h) == f = [x \in Node \union {Null} |-> Visited(f, h, x)]

\* g does so on D, which no pointer leaves.
WalksOn(g, h, D) ==
  /\ D \subseteq Node \union {Null}
  /\ \A x \in D : x # Null => h.first[x] \in D /\ h.next[x] \in D
  /\ \A x \in D : g[x] = Visited(g, h, x)

(* Two such functions agree where both are defined. *)
LEMMA WalksAgree ==
  ASSUME NEW h \in Heap, Grounded(h), NEW g1, NEW D1, NEW g2, NEW D2,
         WalksOn(g1, h, D1), WalksOn(g2, h, D2)
  PROVE  \A x \in D1 \intersect D2 : g1[x] = g2[x]
<1> DEFINE X == {x \in D1 \intersect D2 : x # Null /\ g1[x] # g2[x]}
<1>1. \A x \in D1 \intersect D2 : x = Null => g1[x] = g2[x]
  BY DEF WalksOn, Visited
<1>2. X = {}
  <2> SUFFICES ASSUME X # {} PROVE FALSE
    OBVIOUS
  <2>1. X \in SUBSET Node
    BY DEF WalksOn
  <2>2. PICK m \in X : h.first[m] \notin X /\ h.next[m] \notin X
    BY <2>1 DEF Grounded
  <2>3. h.first[m] \in D1 \intersect D2 /\ h.next[m] \in D1 \intersect D2
    BY DEF WalksOn
  <2>4. g1[h.first[m]] = g2[h.first[m]] /\ g1[h.next[m]] = g2[h.next[m]]
    BY <1>1, <2>2, <2>3
  <2>5. g1[m] = Visited(g1, h, m) /\ g2[m] = Visited(g2, h, m) /\ m # Null
    BY DEF WalksOn
  <2> QED
    BY <2>4, <2>5 DEF Visited
<1> QED
  BY <1>1, <1>2

(* From every node there is such a function. *)
LEMMA WalksFrom ==
  ASSUME NEW h \in Heap, Grounded(h), NEW x \in Node \union {Null}
  PROVE  \E g, D : WalksOn(g, h, D) /\ x \in D
<1> DEFINE X == {y \in Node : ~ \E g, D : WalksOn(g, h, D) /\ y \in D}
<1>1. \E g, D : WalksOn(g, h, D) /\ Null \in D
  <2> DEFINE g == [y \in {Null} |-> <<>>]
  <2>1. WalksOn(g, h, {Null})
    BY DEF WalksOn, Visited
  <2> QED
    BY <2>1
<1>2. X = {}
  <2> SUFFICES ASSUME X # {} PROVE FALSE
    OBVIOUS
  <2>1. PICK m \in X : h.first[m] \notin X /\ h.next[m] \notin X
    BY DEF Grounded
  <2>2. m \in Node /\ m # Null /\ h.first[m] \in Node \union {Null} /\ h.next[m] \in Node \union {Null}
    BY HeapAssumption DEF Heap, Parent
  <2>3. PICK g1, D1 : WalksOn(g1, h, D1) /\ h.first[m] \in D1
    BY <1>1, <2>1, <2>2
  <2>4. PICK g2, D2 : WalksOn(g2, h, D2) /\ h.next[m] \in D2
    BY <1>1, <2>1, <2>2
  <2> DEFINE D == D1 \union D2 \union {m}
             all == g1[h.first[m]] \o (<<m>> \o g2[h.next[m]])
             g == [y \in D |-> IF y \in D1 THEN g1[y] ELSE IF y \in D2 THEN g2[y] ELSE all]
  <2>5. \A y \in D1 \intersect D2 : g1[y] = g2[y]
    BY <2>3, <2>4, WalksAgree
  <2>6. /\ \A y \in D1 : g[y] = g1[y]
        /\ \A y \in D2 : g[y] = g2[y]
        /\ m \notin D1 \union D2 => g[m] = all
    BY <2>5
  <2>7. D \subseteq Node \union {Null} /\ \A y \in D : y # Null => h.first[y] \in D /\ h.next[y] \in D
    BY <2>2, <2>3, <2>4 DEF WalksOn
  <2>8. ASSUME NEW y \in D PROVE g[y] = Visited(g, h, y)
    <3> HIDE DEF g, all
    <3>1. CASE y \in D1
      <4>1. g1[y] = Visited(g1, h, y) /\ (y # Null => h.first[y] \in D1 /\ h.next[y] \in D1)
        BY <2>3, <3>1 DEF WalksOn
      <4> QED
        BY <2>6, <3>1, <4>1 DEF Visited
    <3>2. CASE y \in D2
      <4>1. g2[y] = Visited(g2, h, y) /\ (y # Null => h.first[y] \in D2 /\ h.next[y] \in D2)
        BY <2>4, <3>2 DEF WalksOn
      <4> QED
        BY <2>6, <3>2, <4>1 DEF Visited
    <3>3. CASE y \notin D1 \union D2
      <4>1. y = m /\ g[m] = all
        BY <2>6, <3>3
      <4>2. g[h.first[m]] = g1[h.first[m]] /\ g[h.next[m]] = g2[h.next[m]]
        BY <2>3, <2>4, <2>6
      <4> QED
        BY <2>2, <4>1, <4>2 DEF Visited, all
    <3> QED
      BY <3>1, <3>2, <3>3
  <2>9. WalksOn(g, h, D) /\ m \in D
    BY <2>7, <2>8 DEF WalksOn
  <2> QED
    BY <2>9
<1> QED
  BY <1>1, <1>2

(* So there is a function that walks everything.                           *)
LEMMA SomeWalk ==
  ASSUME NEW h \in Heap, Grounded(h)
  PROVE  \E f : Walks(f, h)
<1> DEFINE said(x) == CHOOSE g : \E D : WalksOn(g, h, D) /\ x \in D
           f == [x \in Node \union {Null} |-> said(x)[x]]
<1>1. \A x \in Node \union {Null} : \E D : WalksOn(said(x), h, D) /\ x \in D
  BY WalksFrom
<1> HIDE DEF said
<1>2. ASSUME NEW x \in Node \union {Null} PROVE f[x] = Visited(f, h, x)
  <2>1. PICK D : WalksOn(said(x), h, D) /\ x \in D
    BY <1>1
  <2>2. said(x)[x] = Visited(said(x), h, x)
    BY <2>1 DEF WalksOn
  <2>3. ASSUME NEW y \in D PROVE f[y] = said(x)[y]
    <3>1. y \in Node \union {Null}
      BY <2>1 DEF WalksOn
    <3>2. PICK E : WalksOn(said(y), h, E) /\ y \in E
      BY <1>1, <3>1
    <3>3. \A z \in D \intersect E : said(x)[z] = said(y)[z]
      BY <2>1, <3>2, WalksAgree
    <3> QED
      BY <3>1, <3>2, <3>3
  <2> HIDE DEF f
  <2>4. x # Null => h.first[x] \in D /\ h.next[x] \in D
    BY <2>1 DEF WalksOn
  <2> QED
    BY <2>1, <2>2, <2>3, <2>4 DEF Visited
<1>3. f = [x \in Node \union {Null} |-> f[x]]
  OBVIOUS
<1> HIDE DEF f
<1> QED
  BY <1>2, <1>3, Zenon DEF Walks

(* A list, an item and a list behind one another, place by place.          *)
LEMMA JoinSeq ==
  ASSUME NEW S, NEW a \in Seq(S), NEW x \in S, NEW b \in Seq(S)
  PROVE  /\ a \o (<<x>> \o b) \in Seq(S)
         /\ Len(a \o (<<x>> \o b)) = Len(a) + 1 + Len(b)
         /\ \A k \in 1 .. Len(a) : (a \o (<<x>> \o b))[k] = a[k]
         /\ (a \o (<<x>> \o b))[Len(a) + 1] = x
         /\ \A k \in 1 .. Len(b) : (a \o (<<x>> \o b))[Len(a) + 1 + k] = b[k]
<1> DEFINE c == <<x>> \o b
           d == a \o c
<1>1. Len(a) \in Nat /\ Len(b) \in Nat
  OBVIOUS
<1>2. /\ c \in Seq(S) /\ Len(c) = Len(b) + 1 /\ c[1] = x
      /\ \A k \in 1 .. Len(b) : c[k + 1] = b[k]
  BY ConsSeq
<1> HIDE DEF c
<1>3. /\ d \in Seq(S) /\ Len(d) = Len(a) + Len(c)
      /\ \A k \in 1 .. Len(a) + Len(c) : d[k] = IF k <= Len(a) THEN a[k] ELSE c[k - Len(a)]
  BY <1>2, ConcatProperties
<1> HIDE DEF d
<1>4. ASSUME NEW k \in 1 .. Len(a) PROVE d[k] = a[k]
  BY <1>1, <1>2, <1>3
<1>5. ASSUME NEW k \in 1 .. Len(c) PROVE d[Len(a) + k] = c[k]
  <2>1. Len(a) + k \in 1 .. Len(a) + Len(c) /\ ~(Len(a) + k <= Len(a)) /\ Len(a) + k - Len(a) = k
    BY <1>1, <1>2
  <2> QED
    BY <1>3, <2>1
<1>6. d[Len(a) + 1] = x
  <2>1. 1 \in 1 .. Len(c)
    BY <1>1, <1>2
  <2> QED
    BY <1>2, <1>5, <2>1
<1>7. ASSUME NEW k \in 1 .. Len(b) PROVE d[Len(a) + 1 + k] = b[k]
  <2>1. k + 1 \in 1 .. Len(c) /\ Len(a) + (k + 1) = Len(a) + 1 + k
    BY <1>1, <1>2
  <2> QED
    BY <1>2, <1>5, <2>1
<1>8. Len(d) = Len(a) + 1 + Len(b)
  BY <1>1, <1>2, <1>3
<1> QED
  BY <1>3, <1>4, <1>6, <1>7, <1>8 DEF c, d

\* The items of a list.
Items(s) == {s[i] : i \in 1 .. Len(s)}

Distinct(s) == \A i, j \in 1 .. Len(s) : s[i] = s[j] => i = j

(* What they contain, and when none of it comes twice.                     *)
LEMMA JoinItems ==
  ASSUME NEW S, NEW a \in Seq(S), NEW x \in S, NEW b \in Seq(S)
  PROVE  /\ Items(a \o (<<x>> \o b)) = Items(a) \union {x} \union Items(b)
         /\ Distinct(a) /\ Distinct(b) /\ x \notin Items(a) /\ x \notin Items(b)
              /\ Items(a) \intersect Items(b) = {} => Distinct(a \o (<<x>> \o b))
<1> DEFINE d == a \o (<<x>> \o b)
           m == Len(a)
           n == Len(b)
<1>1. /\ d \in Seq(S) /\ Len(d) = m + 1 + n
      /\ \A k \in 1 .. m : d[k] = a[k]
      /\ d[m + 1] = x
      /\ \A k \in 1 .. n : d[m + 1 + k] = b[k]
  BY JoinSeq
<1>2. m \in Nat /\ n \in Nat
  OBVIOUS
<1> HIDE DEF d, m, n
<1>3. ASSUME NEW k \in 1 .. Len(d)
      PROVE  \/ k \in 1 .. m /\ d[k] = a[k]
             \/ k = m + 1 /\ d[k] = x
             \/ k - m - 1 \in 1 .. n /\ d[k] = b[k - m - 1]
  <2>1. CASE k \in 1 .. m
    BY <1>1, <2>1
  <2>2. CASE k = m + 1
    BY <1>1, <2>2
  <2>3. CASE k > m + 1
    <3>1. k - m - 1 \in 1 .. n /\ m + 1 + (k - m - 1) = k
      BY <1>1, <1>2, <2>3
    <3> QED
      BY <1>1, <3>1
  <2> QED
    BY <1>1, <1>2, <2>1, <2>2, <2>3
<1>4. Items(d) \subseteq Items(a) \union {x} \union Items(b)
  BY <1>3 DEF Items, m, n
<1>5. Items(a) \union {x} \union Items(b) \subseteq Items(d)
  <2>1. \A k \in 1 .. m : k \in 1 .. Len(d)
    BY <1>1, <1>2
  <2>2. m + 1 \in 1 .. Len(d)
    BY <1>1, <1>2
  <2>3. \A k \in 1 .. n : m + 1 + k \in 1 .. Len(d)
    BY <1>1, <1>2
  <2>4. Items(a) \subseteq Items(d)
    BY <1>1, <2>1 DEF Items, m
  <2>5. x \in Items(d)
    BY <1>1, <2>2 DEF Items
  <2>6. Items(b) \subseteq Items(d)
    BY <1>1, <2>3 DEF Items, n
  <2> QED
    BY <2>4, <2>5, <2>6
<1>6. ASSUME Distinct(a), Distinct(b), x \notin Items(a), x \notin Items(b), Items(a) \intersect Items(b) = {},
             NEW j \in 1 .. Len(d), NEW k \in 1 .. Len(d), d[j] = d[k]
      PROVE  j = k
  <2> DEFINE jj == j - m - 1
             kk == k - m - 1
  <2>1. \/ j \in 1 .. m /\ d[j] = a[j]
        \/ j = m + 1 /\ d[j] = x
        \/ jj \in 1 .. n /\ d[j] = b[jj]
    BY <1>3
  <2>2. \/ k \in 1 .. m /\ d[k] = a[k]
        \/ k = m + 1 /\ d[k] = x
        \/ kk \in 1 .. n /\ d[k] = b[kk]
    BY <1>3
  <2>3. jj = kk => j = k
    BY <1>1, <1>2
  <2> HIDE DEF jj, kk
  <2>4. \A i \in 1 .. m : a[i] \in Items(a)
    BY DEF Items, m
  <2>5. \A i \in 1 .. n : b[i] \in Items(b)
    BY DEF Items, n
  <2>6. \A i, l \in 1 .. m : a[i] = a[l] => i = l
    BY <1>6 DEF Distinct, m
  <2>7. \A i, l \in 1 .. n : b[i] = b[l] => i = l
    BY <1>6 DEF Distinct, n
  <2> QED
    BY <1>6, <2>1, <2>2, <2>3, <2>4, <2>5, <2>6, <2>7
<1>7. Items(d) = Items(a) \union {x} \union Items(b)
  BY <1>4, <1>5
<1>8. Distinct(a) /\ Distinct(b) /\ x \notin Items(a) /\ x \notin Items(b)
              /\ Items(a) \intersect Items(b) = {} => Distinct(d)
  BY <1>6 DEF Distinct
<1> QED
  BY <1>7, <1>8 DEF d

\* The nodes that f names from x on, f a walk of h.
Named(f, x) == Items(f[x])

(* A walk names each node it meets, after those below it. *)
LEMMA WalkNames ==
  ASSUME NEW h \in Heap, Grounded(h), NEW f, Walks(f, h)
  PROVE  /\ \A x \in Node \union {Null} : f[x] \in Seq(Node)
         /\ Named(f, Null) = {}
         /\ \A x \in Node : Named(f, x) = Named(f, h.first[x]) \union {x} \union Named(f, h.next[x])
<1> DEFINE X == {x \in Node : f[x] \notin Seq(Node)}
<1>1. /\ f[Null] = <<>>
      /\ \A x \in Node : f[x] = f[h.first[x]] \o (<<x>> \o f[h.next[x]])
  BY HeapAssumption DEF Walks, Visited
<1>2. \A x \in Node : h.first[x] \in Node \union {Null} /\ h.next[x] \in Node \union {Null}
  BY DEF Heap, Parent
<1>3. X = {}
  <2> SUFFICES ASSUME X # {} PROVE FALSE
    OBVIOUS
  <2>1. PICK m \in X : h.first[m] \notin X /\ h.next[m] \notin X
    BY DEF Grounded
  <2> DEFINE a == f[h.first[m]]
             b == f[h.next[m]]
  <2>2. m \in Node /\ a \in Seq(Node) /\ b \in Seq(Node)
    <3>1. f[Null] \in Seq(Node)
      BY <1>1
    <3> QED
      BY <1>2, <2>1, <3>1
  <2>3. f[m] = a \o (<<m>> \o b)
    BY <1>1, <2>2
  <2> HIDE DEF a, b
  <2>4. a \o (<<m>> \o b) \in Seq(Node)
    BY <2>2, JoinSeq
  <2> QED
    BY <2>3, <2>4
<1>4. \A x \in Node \union {Null} : f[x] \in Seq(Node)
  <2>1. f[Null] \in Seq(Node)
    BY <1>1
  <2> QED
    BY <1>3, <2>1
<1>5. Named(f, Null) = {}
  BY <1>1 DEF Named, Items
<1>6. ASSUME NEW x \in Node
      PROVE  Named(f, x) = Named(f, h.first[x]) \union {x} \union Named(f, h.next[x])
  <2> DEFINE a == f[h.first[x]]
             b == f[h.next[x]]
  <2>1. a \in Seq(Node) /\ b \in Seq(Node) /\ f[x] = a \o (<<x>> \o b)
    BY <1>1, <1>2, <1>4
  <2> HIDE DEF a, b
  <2>2. Items(a \o (<<x>> \o b)) = Items(a) \union {x} \union Items(b)
    BY <2>1, JoinItems
  <2> QED
    BY <2>1, <2>2 DEF Named, a, b
<1> QED
  BY <1>4, <1>5, <1>6

(* Whatever two pointers lead to from what it names, it names as well. *)
LEMMA NamedClosed ==
  ASSUME NEW h \in Heap, Grounded(h), NEW f, Walks(f, h), NEW x \in Node \union {Null}, NEW y \in Named(f, x)
  PROVE  /\ y \in Node
         /\ {h.first[y], h.next[y]} \subseteq Named(f, x) \union {Null}
         /\ Named(f, y) \subseteq Named(f, x)
         /\ y \in Named(f, y)
<1> DEFINE Fine(u) == \A v \in Named(f, u) : /\ v \in Node
                                              /\ {h.first[v], h.next[v]} \subseteq Named(f, u) \union {Null}
                                              /\ Named(f, v) \subseteq Named(f, u)
           X == {u \in Node : ~Fine(u)}
<1>1. /\ Named(f, Null) = {}
      /\ \A u \in Node : Named(f, u) = Named(f, h.first[u]) \union {u} \union Named(f, h.next[u])
  BY WalkNames
<1>2. \A u \in Node : h.first[u] \in Node \union {Null} /\ h.next[u] \in Node \union {Null}
  BY DEF Heap, Parent
<1>3. Fine(Null)
  BY <1>1
<1>4. X = {}
  <2> SUFFICES ASSUME X # {} PROVE FALSE
    OBVIOUS
  <2>1. PICK m \in X : h.first[m] \notin X /\ h.next[m] \notin X
    BY DEF Grounded
  <2>2. m \in Node /\ ~Fine(m) /\ Fine(h.first[m]) /\ Fine(h.next[m])
    <3> HIDE DEF Fine
    <3> QED
      BY <1>2, <1>3, <2>1
  <2>3. Named(f, m) = Named(f, h.first[m]) \union {m} \union Named(f, h.next[m])
    BY <1>1, <2>2
  <2>4. h.first[m] \in Named(f, m) \union {Null} /\ h.next[m] \in Named(f, m) \union {Null}
    BY <1>1, <1>2, <2>2, <2>3
  <2>5. Fine(m)
    BY <2>2, <2>3, <2>4
  <2> QED
    BY <2>2, <2>5
<1>5. Fine(x)
  <2> HIDE DEF Fine
  <2> QED
    BY <1>3, <1>4
<1> QED
  BY <1>1, <1>5

(* No walk returns to its first node. *)
LEMMA NoReturn ==
  ASSUME NEW h \in Heap, Grounded(h), NEW f, Walks(f, h), NEW x \in Node
  PROVE  x \notin Named(f, h.first[x]) /\ x \notin Named(f, h.next[x])
<1>1. /\ Named(f, Null) = {}
      /\ \A u \in Node : Named(f, u) = Named(f, h.first[u]) \union {u} \union Named(f, h.next[u])
  BY WalkNames
<1>2. \A u \in Node : h.first[u] \in Node \union {Null} /\ h.next[u] \in Node \union {Null}
  BY DEF Heap, Parent
<1>3. ASSUME NEW v \in {h.first[x], h.next[x]}, x \in Named(f, v) PROVE FALSE
  <2> DEFINE C == {y \in Node : x \in Named(f, y) /\ y \in Named(f, v)}
  <2>1. v \in Node
    BY <1>1, <1>2, <1>3
  <2>2. x \in C
    BY <1>1, <1>3
  <2>3. v \in C
    BY <1>1, <1>3, <2>1
  <2>4. PICK y \in C : h.first[y] \notin C /\ h.next[y] \notin C
    BY <2>2 DEF Grounded
  <2>5. y # x
    BY <2>3, <2>4
  <2>6. PICK u \in {h.first[y], h.next[y]} : x \in Named(f, u)
    BY <1>1, <2>4, <2>5
  <2>7. u \in Node
    BY <1>1, <1>2, <2>4, <2>6
  <2>8. u \in Named(f, v)
    <3>1. {h.first[y], h.next[y]} \subseteq Named(f, v) \union {Null}
      BY <2>1, <2>4, NamedClosed
    <3> QED
      BY <2>6, <2>7, <3>1, HeapAssumption
  <2> QED
    BY <2>4, <2>6, <2>7, <2>8
<1> QED
  BY <1>3

(* What the pointers at two ends of a link say of each other. *)
LEMMA Pointed ==
  ASSUME NEW h \in Heap, NEW kids, Laid(h, kids)
  PROVE  /\ \A p \in Parent : h.first[p] # Null => h.parent[h.first[p]] = p /\ h.prev[h.first[p]] = Null
         /\ \A n \in Parent : h.parent[n] # Null =>
              /\ n \in Node
              /\ h.next[n] # Null => h.parent[h.next[n]] = h.parent[n] /\ h.prev[h.next[n]] = n
              /\ h.prev[n] # Null => h.parent[h.prev[n]] = h.parent[n] /\ h.next[h.prev[n]] = n
              /\ h.prev[n] = Null => h.first[h.parent[n]] = n
              /\ h.next[n] = Null => h.last[h.parent[n]] = n
<1>1. \A p \in Parent : kids[p] \in Seq(Node) /\ Chain(h, p, kids[p])
  BY DEF Laid
<1>2. ASSUME NEW p \in Parent, h.first[p] # Null
      PROVE  h.parent[h.first[p]] = p /\ h.prev[h.first[p]] = Null
  <2> DEFINE s == kids[p]
  <2>1. s \in Seq(Node) /\ Chain(h, p, s)
    BY <1>1
  <2> HIDE DEF s
  <2>2. h.first[p] = s[1] /\ 1 \in 1 .. Len(s)
    BY <1>2, <2>1 DEF Chain, ItemAt
  <2>3. h.prev[s[1]] = ItemAt(s, 1 - 1) /\ h.parent[s[1]] = p
    BY <2>1, <2>2 DEF Chain
  <2> QED
    BY <2>2, <2>3 DEF ItemAt
<1>3. ASSUME NEW n \in Parent, h.parent[n] # Null
      PROVE  /\ n \in Node
             /\ h.next[n] # Null => h.parent[h.next[n]] = h.parent[n] /\ h.prev[h.next[n]] = n
             /\ h.prev[n] # Null => h.parent[h.prev[n]] = h.parent[n] /\ h.next[h.prev[n]] = n
             /\ h.prev[n] = Null => h.first[h.parent[n]] = n
             /\ h.next[n] = Null => h.last[h.parent[n]] = n
  <2> DEFINE p == h.parent[n]
             s == kids[p]
  <2>1. p \in Parent
    BY <1>3 DEF Heap
  <2>2. s \in Seq(Node) /\ Chain(h, p, s) /\ \E i \in 1 .. Len(s) : s[i] = n
    BY <1>1, <1>3, <2>1 DEF Laid
  <2>3. PICK i \in 1 .. Len(s) : s[i] = n
    BY <2>2
  <2> HIDE DEF p, s
  <2>4. Len(s) \in Nat /\ \A k \in 1 .. Len(s) : s[k] \in Node /\ s[k] # Null
    BY <2>2, HeapAssumption
  <2>5. h.next[n] = ItemAt(s, i + 1) /\ h.prev[n] = ItemAt(s, i - 1)
    BY <2>2, <2>3 DEF Chain
  <2>6. /\ ItemAt(s, i + 1) # Null => i + 1 \in 1 .. Len(s) /\ ItemAt(s, i + 1) = s[i + 1]
        /\ ItemAt(s, i + 1) = Null => i = Len(s)
        /\ ItemAt(s, i - 1) # Null => i - 1 \in 1 .. Len(s) /\ ItemAt(s, i - 1) = s[i - 1]
        /\ ItemAt(s, i - 1) = Null => i = 1
        /\ ItemAt(s, i) = s[i]
    BY <2>4 DEF ItemAt
  <2>7. ASSUME h.next[n] # Null PROVE h.parent[h.next[n]] = p /\ h.prev[h.next[n]] = n
    <3>1. i + 1 \in 1 .. Len(s) /\ h.next[n] = s[i + 1]
      BY <2>5, <2>6, <2>7
    <3>2. h.parent[s[i + 1]] = p /\ h.prev[s[i + 1]] = ItemAt(s, (i + 1) - 1)
      BY <2>2, <3>1 DEF Chain
    <3>3. (i + 1) - 1 = i
      OBVIOUS
    <3> QED
      BY <2>3, <2>6, <3>1, <3>2, <3>3
  <2>8. ASSUME h.prev[n] # Null PROVE h.parent[h.prev[n]] = p /\ h.next[h.prev[n]] = n
    <3>1. i - 1 \in 1 .. Len(s) /\ h.prev[n] = s[i - 1]
      BY <2>5, <2>6, <2>8
    <3>2. h.parent[s[i - 1]] = p /\ h.next[s[i - 1]] = ItemAt(s, (i - 1) + 1)
      BY <2>2, <3>1 DEF Chain
    <3>3. (i - 1) + 1 = i
      OBVIOUS
    <3> QED
      BY <2>3, <2>6, <3>1, <3>2, <3>3
  <2>9. h.first[p] = ItemAt(s, 1) /\ h.last[p] = ItemAt(s, Len(s))
    BY <2>2 DEF Chain
  <2> QED
    BY <2>2, <2>3, <2>4, <2>5, <2>6, <2>7, <2>8, <2>9 DEF p
<1> QED
  BY <1>2, <1>3

(* What is met on a walk hangs where the walk began, or below what was met. *)
LEMMA NamedParents ==
  ASSUME NEW h \in Heap, NEW kids, Laid(h, kids), Grounded(h), NEW f, Walks(f, h),
         NEW x \in Node, h.parent[x] # Null, NEW y \in Named(f, x)
  PROVE  /\ h.parent[y] # Null
         /\ h.parent[y] = h.parent[x] \/ h.parent[y] \in Named(f, x)
<1> DEFINE Fine(u) == h.parent[u] # Null =>
                        \A v \in Named(f, u) : h.parent[v] = h.parent[u] \/ h.parent[v] \in Named(f, u)
           X == {u \in Node : ~Fine(u)}
<1>1. /\ Named(f, Null) = {}
      /\ \A u \in Node : Named(f, u) = Named(f, h.first[u]) \union {u} \union Named(f, h.next[u])
  BY WalkNames
<1>2. \A u \in Node : h.first[u] \in Node \union {Null} /\ h.next[u] \in Node \union {Null}
  BY DEF Heap, Parent
<1>3. X = {}
  <2> SUFFICES ASSUME X # {} PROVE FALSE
    OBVIOUS
  <2>1. PICK m \in X : h.first[m] \notin X /\ h.next[m] \notin X
    BY DEF Grounded
  <2>2. m \in Node /\ m \in Parent /\ m # Null /\ h.parent[m] # Null
    BY HeapAssumption DEF Parent
  <2>3. ASSUME NEW v \in Named(f, h.first[m]) PROVE h.parent[v] = m \/ h.parent[v] \in Named(f, h.first[m])
    <3>1. h.first[m] \in Node
      BY <1>1, <1>2, <2>2
    <3>2. h.first[m] # Null
      BY <3>1, HeapAssumption
    <3>3. h.parent[h.first[m]] = m
      BY <2>2, <3>2, Pointed
    <3> QED
      BY <2>1, <2>2, <3>1, <3>3
  <2>4. ASSUME NEW v \in Named(f, h.next[m])
        PROVE  h.parent[v] = h.parent[m] \/ h.parent[v] \in Named(f, h.next[m])
    <3>1. h.next[m] \in Node
      BY <1>1, <1>2, <2>2
    <3>2. h.next[m] # Null
      BY <3>1, HeapAssumption
    <3>3. h.parent[h.next[m]] = h.parent[m]
      BY <2>2, <3>2, Pointed
    <3> QED
      BY <2>1, <2>2, <3>1, <3>3
  <2>5. Fine(m)
    BY <1>1, <2>2, <2>3, <2>4
  <2> QED
    BY <2>1, <2>5
<1>4. Null \notin Named(f, x)
  BY NamedClosed, HeapAssumption
<1> QED
  BY <1>3, <1>4

(* A walk reaches a node through a pointer of one it has met. *)
LEMMA NamedReached ==
  ASSUME NEW h \in Heap, Grounded(h), NEW f, Walks(f, h),
         NEW x \in Node, NEW y \in Named(f, x), y # x
  PROVE  \E z \in Named(f, x) : y = h.first[z] \/ y = h.next[z]
<1> DEFINE Fine(u) == \A v \in Named(f, u) : v # u => \E z \in Named(f, u) : v = h.first[z] \/ v = h.next[z]
           X == {u \in Node : ~Fine(u)}
<1>1. /\ Named(f, Null) = {}
      /\ \A u \in Node : Named(f, u) = Named(f, h.first[u]) \union {u} \union Named(f, h.next[u])
  BY WalkNames
<1>2. \A u \in Node : h.first[u] \in Node \union {Null} /\ h.next[u] \in Node \union {Null}
  BY DEF Heap, Parent
<1>3. X = {}
  <2> SUFFICES ASSUME X # {} PROVE FALSE
    OBVIOUS
  <2>1. PICK m \in X : h.first[m] \notin X /\ h.next[m] \notin X
    BY DEF Grounded
  <2>2. ASSUME NEW w \in {h.first[m], h.next[m]}, NEW v \in Named(f, w)
        PROVE  v = w \/ \E z \in Named(f, w) : v = h.first[z] \/ v = h.next[z]
    <3>1. w \in Node /\ Fine(w)
      BY <1>1, <1>2, <2>1, <2>2
    <3> QED
      BY <2>2, <3>1
  <2>3. Fine(m)
    BY <1>1, <2>1, <2>2
  <2> QED
    BY <2>1, <2>3
<1> QED
  BY <1>3

(* What hangs below a node and what is behind it are different nodes. *)
LEMMA NamedApart ==
  ASSUME NEW h \in Heap, NEW kids, Laid(h, kids), Grounded(h), NEW f, Walks(f, h),
         NEW x \in Node, h.parent[x] # Null
  PROVE  Named(f, h.first[x]) \intersect Named(f, h.next[x]) = {}
<1> DEFINE a == h.first[x]
           b == h.next[x]
<1> SUFFICES ASSUME NEW y \in Named(f, a), y \in Named(f, b) PROVE FALSE
  OBVIOUS
<1> DEFINE C == {w \in Node : w \in Named(f, a) /\ y \in Named(f, w) /\ w \notin Named(f, b)}
<1>1. /\ Named(f, Null) = {}
      /\ \A u \in Node : Named(f, u) = Named(f, h.first[u]) \union {u} \union Named(f, h.next[u])
  BY WalkNames
<1>2. \A u \in Node : h.first[u] \in Node \union {Null} /\ h.next[u] \in Node \union {Null}
  BY DEF Heap, Parent
<1>3. a \in Node /\ b \in Node /\ a # Null /\ b # Null /\ x # Null
  BY <1>1, <1>2, HeapAssumption
<1>4. \A u \in Node : u \in Parent /\ u # Null
  BY HeapAssumption DEF Parent
<1>5. /\ h.parent[a] = x /\ h.prev[a] = Null
      /\ h.parent[b] = h.parent[x] /\ h.prev[b] = x
  BY <1>3, <1>4, Pointed
<1>6. x \notin Named(f, a) /\ x \notin Named(f, b)
  BY NoReturn
<1> HIDE DEF a, b
<1>7. \A v \in Named(f, a) : v \in Node /\ h.parent[v] # Null
  BY <1>3, <1>4, <1>5, NamedParents, NamedClosed
<1>8. \A v \in Named(f, b) : v \in Node /\ h.parent[v] # Null
  BY <1>3, <1>5, NamedParents, NamedClosed
<1>9. \A z \in Node : h.parent[z] # Null =>
        /\ h.first[z] # Null => h.parent[h.first[z]] = z /\ h.prev[h.first[z]] = Null
        /\ h.next[z] # Null => h.prev[h.next[z]] = z
  BY <1>4, Pointed
<1>10. \A v \in Named(f, b) : v # b => \E z \in Named(f, b) : v = h.first[z] \/ v = h.next[z]
  BY <1>3, NamedReached
<1>11. a \in C
  <2>1. a \in Named(f, a)
    BY <1>1, <1>3
  <2>2. ASSUME a \in Named(f, b) PROVE FALSE
    <3>1. a # b
      BY <1>3, <1>5
    <3>2. PICK z \in Named(f, b) : a = h.first[z] \/ a = h.next[z]
      BY <1>10, <2>2, <3>1
    <3>3. z = x
      BY <1>3, <1>4, <1>5, <1>8, <1>9, <3>2
    <3> QED
      BY <1>6, <3>2, <3>3
  <2> QED
    BY <1>3, <2>1, <2>2
<1>12. PICK w \in C : h.first[w] \notin C /\ h.next[w] \notin C
  BY <1>11 DEF Grounded
<1>13. PICK u \in {h.first[w], h.next[w]} : y \in Named(f, u)
  BY <1>1, <1>12
<1>14. u \in Node /\ u # Null
  BY <1>1, <1>2, <1>4, <1>12, <1>13
<1>15. u \in Named(f, a)
  <2>1. {h.first[w], h.next[w]} \subseteq Named(f, a) \union {Null}
    BY <1>3, <1>12, NamedClosed
  <2> QED
    BY <1>13, <1>14, <2>1
<1>16. u \in Named(f, b)
  BY <1>12, <1>13, <1>14, <1>15
<1>17. h.parent[w] # Null
  BY <1>7, <1>12
<1>18. u # b
  BY <1>3, <1>5, <1>6, <1>9, <1>12, <1>13, <1>14, <1>17
<1>19. PICK z \in Named(f, b) : u = h.first[z] \/ u = h.next[z]
  BY <1>10, <1>16, <1>18
<1>20. z = w
  BY <1>4, <1>8, <1>9, <1>12, <1>13, <1>14, <1>17, <1>19
<1> QED
  BY <1>12, <1>19, <1>20

(* A walk from a node that hangs below another meets no node twice.        *)
LEMMA WalkDistinct ==
  ASSUME NEW h \in Heap, NEW kids, Laid(h, kids), Grounded(h), NEW f, Walks(f, h),
         NEW x \in Node, h.parent[x] # Null
  PROVE  Distinct(f[x])
<1> DEFINE Fine(u) == h.parent[u] # Null => Distinct(f[u])
           X == {u \in Node : ~Fine(u)}
<1>1. \A u \in Node \union {Null} : f[u] \in Seq(Node)
  BY WalkNames
<1>2. \A u \in Node : h.first[u] \in Node \union {Null} /\ h.next[u] \in Node \union {Null}
  BY DEF Heap, Parent
<1>3. /\ f[Null] = <<>>
      /\ \A u \in Node : f[u] = f[h.first[u]] \o (<<u>> \o f[h.next[u]])
  BY HeapAssumption DEF Walks, Visited
<1>4. Distinct(f[Null])
  BY <1>3 DEF Distinct
<1>5. X = {}
  <2> SUFFICES ASSUME X # {} PROVE FALSE
    OBVIOUS
  <2>1. PICK m \in X : h.first[m] \notin X /\ h.next[m] \notin X
    BY DEF Grounded
  <2> DEFINE a == h.first[m]
             b == h.next[m]
  <2>2. m \in Node /\ m \in Parent /\ h.parent[m] # Null /\ ~Distinct(f[m])
    BY DEF Parent
  <2>3. a # Null => h.parent[a] = m /\ m # Null
    BY <2>2, Pointed, HeapAssumption
  <2>4. b # Null => h.parent[b] = h.parent[m]
    BY <2>2, Pointed
  <2>5. Distinct(f[a]) /\ Distinct(f[b])
    BY <1>2, <1>4, <2>1, <2>2, <2>3, <2>4
  <2>6. m \notin Items(f[a]) /\ m \notin Items(f[b])
    BY <2>2, NoReturn DEF Named
  <2>7. Items(f[a]) \intersect Items(f[b]) = {}
    BY <2>2, NamedApart DEF Named
  <2>8. f[a] \in Seq(Node) /\ f[b] \in Seq(Node) /\ f[m] = f[a] \o (<<m>> \o f[b])
    BY <1>1, <1>2, <1>3, <2>2
  <2> DEFINE c == f[a]
             d == f[b]
  <2> HIDE DEF c, d
  <2>9. Distinct(c \o (<<m>> \o d))
    <3>1. /\ c \in Seq(Node) /\ d \in Seq(Node) /\ Distinct(c) /\ Distinct(d)
          /\ m \notin Items(c) /\ m \notin Items(d) /\ Items(c) \intersect Items(d) = {}
      BY <2>5, <2>6, <2>7, <2>8 DEF c, d
    <3> QED
      BY <2>2, <3>1, JoinItems
  <2> QED
    BY <2>2, <2>8, <2>9 DEF c, d
<1> QED
  BY <1>5

(* The walk that starts at the first child of p is a list of all that hangs *)
(* below p, each node once.                                                 *)
LEMMA BelowFacts ==
  ASSUME NEW h \in Heap, NEW kids, Laid(h, kids), Grounded(h), NEW p \in Parent
  PROVE  /\ Below(h, p) \in Seq(Node)
         /\ Distinct(Below(h, p))
         /\ p \notin Items(Below(h, p))
         /\ \A m \in Node : m \in Items(Below(h, p)) <=> h.parent[m] \in Items(Below(h, p)) \union {p}
<1> DEFINE f == CHOOSE g : g = [x \in Node \union {Null} |->
                                  IF x = Null THEN <<>> ELSE g[h.first[x]] \o (<<x>> \o g[h.next[x]])]
           a == h.first[p]
           I == Items(f[a])
<1>1. Below(h, p) = f[a]
  BY DEF Below, From
<1>2. Walks(f, h)
  BY SomeWalk DEF Walks, Visited
<1> HIDE DEF f
<1>3. a \in Node \union {Null} /\ (a # Null => h.parent[a] = p)
  <2>1. h.first \in [Parent -> Node \union {Null}]
    BY DEF Heap
  <2>2. a # Null => h.parent[a] = p
    BY Pointed
  <2> QED
    BY <2>1, <2>2
<1>4. /\ \A u \in Node \union {Null} : f[u] \in Seq(Node)
      /\ Named(f, Null) = {}
      /\ f[Null] = <<>>
  BY <1>2, WalkNames DEF Walks, Visited
<1>5. p # Null /\ (p \in Node \/ p = Doc)
  BY HeapAssumption DEF Parent
<1>6. Distinct(f[a])
  <2>1. CASE a = Null
    BY <1>4, <2>1 DEF Distinct
  <2>2. CASE a # Null
    BY <1>2, <1>3, <1>5, <2>2, WalkDistinct
  <2> QED
    BY <2>1, <2>2
<1>7. I = Named(f, a)
  BY DEF Named
<1> HIDE DEF I
<1>8. \A y \in I : y \in Node /\ {h.first[y], h.next[y]} \subseteq I \union {Null}
  BY <1>2, <1>3, <1>7, NamedClosed
<1>9. p \notin I
  <2>1. CASE p \in Node
    BY <1>2, <1>7, <2>1, NoReturn
  <2>2. CASE p = Doc
    BY <1>8, <2>2, HeapAssumption
  <2> QED
    BY <1>5, <2>1, <2>2
<1>10. ASSUME NEW m \in I PROVE h.parent[m] \in I \union {p}
  <2>1. a # Null
    BY <1>4, <1>7
  <2>2. a \in Node /\ h.parent[a] = p
    BY <1>3, <2>1
  <2> QED
    BY <1>2, <1>5, <1>7, <2>2, NamedParents
<1>11. ASSUME NEW q \in I \union {p}, NEW i \in 1 .. Len(kids[q]) PROVE kids[q][i] \in I
  <2> DEFINE s == kids[q]
             wrong == {k \in 1 .. Len(s) : s[k] \notin I}
  <2>1. q \in Parent /\ s \in Seq(Node) /\ Chain(h, q, s)
    <3>1. q \in Parent
      BY <1>8 DEF Parent
    <3> QED
      BY <3>1 DEF Laid
  <2> HIDE DEF s
  <2>2. Len(s) \in Nat /\ \A k \in 1 .. Len(s) : s[k] \in Node /\ s[k] # Null
    BY <2>1, HeapAssumption
  <2>3. wrong = {}
    <3> SUFFICES ASSUME wrong # {} PROVE FALSE
      OBVIOUS
    <3>1. wrong \in SUBSET Nat
      OBVIOUS
    <3>2. PICK k \in wrong : \A l \in wrong : k <= l
      BY <3>1, LeastOfNat
    <3>3. k \in 1 .. Len(s) /\ s[k] \notin I
      OBVIOUS
    <3>4. CASE k = 1
      <4>1. h.first[q] = s[1] /\ s[1] # Null
        BY <2>1, <2>2, <3>3, <3>4 DEF Chain, ItemAt
      <4>2. a \in Node => a \in I
        BY <1>2, <1>7, WalkNames
      <4>3. CASE q = p
        <5>1. a = s[1] /\ a # Null
          BY <4>1, <4>3
        <5> HIDE DEF a
        <5> QED
          BY <1>3, <3>3, <3>4, <4>2, <5>1
      <4>4. CASE q # p
        BY <1>8, <3>3, <3>4, <4>1, <4>4
      <4> QED
        BY <4>3, <4>4
    <3>5. CASE k # 1
      <4>1. k - 1 \in 1 .. Len(s) /\ ~(k <= k - 1) /\ (k - 1) + 1 = k
        BY <2>2, <3>3, <3>5
      <4>2. k - 1 \notin wrong
        <5> HIDE DEF wrong
        <5> QED
          BY <3>2, <4>1
      <4>3. s[k - 1] \in I
        BY <4>1, <4>2
      <4>4. h.next[s[k - 1]] = s[k] /\ s[k] # Null
        <5>1. h.next[s[k - 1]] = ItemAt(s, (k - 1) + 1)
          BY <2>1, <4>1 DEF Chain
        <5> QED
          BY <2>2, <3>3, <4>1, <5>1 DEF ItemAt
      <4> QED
        BY <1>8, <3>3, <4>3, <4>4
    <3> QED
      BY <3>4, <3>5
  <2> QED
    BY <2>3 DEF s
<1>12. ASSUME NEW m \in Node, h.parent[m] \in I \union {p} PROVE m \in I
  <2>1. h.parent[m] # Null /\ m \in Parent
    BY <1>5, <1>8, <1>12, HeapAssumption DEF Parent
  <2>2. \E i \in 1 .. Len(kids[h.parent[m]]) : kids[h.parent[m]][i] = m
    BY <2>1 DEF Laid
  <2> QED
    BY <1>11, <1>12, <2>2
<1>13. f[a] \in Seq(Node)
  BY <1>3, <1>4
<1> HIDE DEF a
<1> QED
  BY <1>1, <1>6, <1>9, <1>10, <1>12, <1>13 DEF I

(* It is the least such set: whatever contains p, and with each node those  *)
(* that hang below it, contains all of it.                                 *)
LEMMA BelowReached ==
  ASSUME NEW h \in Heap, NEW kids, Laid(h, kids), Grounded(h), NEW p \in Parent,
         NEW S \in SUBSET Parent, p \in S, \A m \in Node : h.parent[m] \in S => m \in S
  PROVE  Items(Below(h, p)) \subseteq S
<1> DEFINE f == CHOOSE g : g = [x \in Node \union {Null} |->
                                  IF x = Null THEN <<>> ELSE g[h.first[x]] \o (<<x>> \o g[h.next[x]])]
           X == {u \in Node : h.parent[u] \in S /\ ~(Named(f, u) \subseteq S)}
<1>1. Items(Below(h, p)) = Named(f, h.first[p])
  BY DEF Below, From, Named
<1>2. Walks(f, h)
  BY SomeWalk DEF Walks, Visited
<1> HIDE DEF f
<1>3. /\ Named(f, Null) = {}
      /\ \A x \in Node : Named(f, x) = Named(f, h.first[x]) \union {x} \union Named(f, h.next[x])
  BY <1>2, WalkNames
<1>4. Null \notin S /\ \A m \in Node : m \in Parent
  BY HeapAssumption DEF Parent
<1>5. /\ \A q \in Parent : h.first[q] # Null => h.first[q] \in Node /\ h.parent[h.first[q]] = q
      /\ \A m \in Parent : h.next[m] # Null /\ h.parent[m] # Null =>
           h.next[m] \in Node /\ h.parent[h.next[m]] = h.parent[m]
  <2>1. \A q \in Parent : h.first[q] \in Node \union {Null} /\ h.next[q] \in Node \union {Null}
    BY DEF Heap
  <2> QED
    BY <2>1, Pointed
<1>6. X = {}
  <2> SUFFICES ASSUME X # {} PROVE FALSE
    OBVIOUS
  <2>1. PICK m \in X : h.first[m] \notin X /\ h.next[m] \notin X
    <3>1. X \in SUBSET Node
      OBVIOUS
    <3> QED
      BY <3>1 DEF Grounded
  <2>2. m \in Node /\ m \in S /\ h.parent[m] \in S /\ h.parent[m] # Null /\ ~(Named(f, m) \subseteq S)
    BY <1>4, <2>1
  <2>3. Named(f, h.first[m]) \subseteq S
    BY <1>3, <1>4, <1>5, <2>1, <2>2
  <2>4. Named(f, h.next[m]) \subseteq S
    BY <1>3, <1>4, <1>5, <2>1, <2>2
  <2> QED
    BY <1>3, <2>2, <2>3, <2>4
<1>7. Named(f, h.first[p]) \subseteq S
  BY <1>3, <1>5, <1>6
<1> QED
  BY <1>1, <1>7

-----------------------------------------------------------------------------
(* The pools. *)

\* x is the k-th item of the b-th block for some k.
InBlock(x, source, b) == \E k \in 1 .. Len(source[b]) : source[b][k] = x

\* No item is in the free list twice, and each lies in a block in use.
PoolOK(pool, source) ==
  /\ pool.blocks \in 0 .. Len(source)
  /\ Distinct(pool.root)
  /\ \A x \in Items(pool.root) : \E b \in 1 .. pool.blocks : InBlock(x, source, b)

PoolsOK(h) ==
  /\ PoolOK(h.pool["element"], ElementBlocks)
  /\ PoolOK(h.pool["leaf"], LeafBlocks)

\* x is free: it is in the free list or in a block to come.
IsFree(x, pool, source) ==
  x \in Items(pool.root) \/ \E b \in pool.blocks + 1 .. Len(source) : InBlock(x, source, b)

(* This is what XMLHeap's FreeItems contains.                              *)
LEMMA FreeMeans ==
  ASSUME NEW h \in Heap, NEW p \in {"element", "leaf"}, NEW x
  PROVE  x \in FreeItems(h, p) <=> IsFree(x, h.pool[p], SourceOf(p))
<1>1. h.pool[p] \in Pool
  BY DEF Heap, Kind
<1>2. h.pool[p].root \in Seq(Node) /\ h.pool[p].blocks \in Nat
  BY <1>1 DEF Pool
<1>3. ToSet(h.pool[p].root) = Items(h.pool[p].root)
  BY <1>2 DEF ToSet, Items
<1>4. SourceOf(p) \in Seq(Seq(Element)) \/ SourceOf(p) \in Seq(Seq(Leaf))
  BY HeapAssumption DEF SourceOf
<1>5. ASSUME NEW b \in h.pool[p].blocks + 1 .. Len(SourceOf(p))
      PROVE  x \in ToSet(SourceOf(p)[b]) <=> InBlock(x, SourceOf(p), b)
  <2>1. b \in 1 .. Len(SourceOf(p))
    BY <1>2, <1>4, <1>5
  <2>2. SourceOf(p)[b] \in Seq(Element) \/ SourceOf(p)[b] \in Seq(Leaf)
    BY <1>4, <2>1
  <2>3. DOMAIN SourceOf(p)[b] = 1 .. Len(SourceOf(p)[b])
    BY <2>2
  <2> QED
    BY <2>3 DEF ToSet, InBlock
<1> QED
  BY <1>3, <1>5 DEF FreeItems, IsFree

(* Each item is where the assumption puts it. *)
LEMMA Blocks ==
  /\ \A x \in Element : \E b \in 1 .. Len(ElementBlocks) : InBlock(x, ElementBlocks, b)
  /\ \A x \in Leaf : \E b \in 1 .. Len(LeafBlocks) : InBlock(x, LeafBlocks, b)
<1>1. ASSUME NEW x \in Element PROVE \E b \in 1 .. Len(ElementBlocks) : InBlock(x, ElementBlocks, b)
  <2>1. PICK b \in DOMAIN ElementBlocks : x \in ToSet(ElementBlocks[b])
    BY DEF Element, ToSet
  <2>2. b \in 1 .. Len(ElementBlocks) /\ ElementBlocks[b] \in Seq(Element)
    BY <2>1, HeapAssumption
  <2> QED
    BY <2>1, <2>2 DEF ToSet, InBlock
<1>2. ASSUME NEW x \in Leaf PROVE \E b \in 1 .. Len(LeafBlocks) : InBlock(x, LeafBlocks, b)
  <2>1. PICK b \in DOMAIN LeafBlocks : x \in ToSet(LeafBlocks[b])
    BY DEF Leaf, ToSet
  <2>2. b \in 1 .. Len(LeafBlocks) /\ LeafBlocks[b] \in Seq(Leaf)
    BY <2>1, HeapAssumption
  <2> QED
    BY <2>1, <2>2 DEF ToSet, InBlock
<1> QED
  BY <1>1, <1>2

(* Giving back an item that is not free. *)
LEMMA ReleaseOK ==
  ASSUME NEW S, NEW source \in Seq(Seq(S)), NEW pool \in Pool, PoolOK(pool, source),
         NEW n \in Node, ~IsFree(n, pool, source), NEW b \in 1 .. Len(source), InBlock(n, source, b)
  PROVE  /\ Release(pool, n) \in Pool
         /\ PoolOK(Release(pool, n), source)
         /\ \A x : IsFree(x, Release(pool, n), source) <=> x = n \/ IsFree(x, pool, source)
<1> DEFINE r == pool.root
           t == <<n>> \o r
           q == Release(pool, n)
<1>1. r \in Seq(Node) /\ pool.blocks \in Nat /\ Len(r) \in Nat /\ Len(source) \in Nat
  BY DEF Pool
<1>2. /\ t \in Seq(Node) /\ Len(t) = Len(r) + 1 /\ t[1] = n
      /\ \A k \in 1 .. Len(r) : t[k + 1] = r[k]
  <2> HIDE DEF r
  <2> QED
    BY <1>1, ConsSeq
<1>3. q \in Pool /\ q.root = t /\ q.blocks = pool.blocks
  <2>1. q = [pool EXCEPT !.root = t, !.current = @ - 1]
    BY DEF Release
  <2>2. t \in Seq(Node)
    BY <1>2
  <2> HIDE DEF q, t
  <2>3. pool.current \in Int /\ pool.blocks \in Nat /\ pool.untracked \in Int
    BY DEF Pool
  <2>4. q = [root |-> t, blocks |-> pool.blocks, current |-> pool.current - 1, untracked |-> pool.untracked]
    BY <2>1 DEF Pool
  <2> QED
    BY <2>2, <2>3, <2>4 DEF Pool
<1> HIDE DEF t, q
<1>4. \A k \in 1 .. Len(t) : k = 1 \/ (k - 1 \in 1 .. Len(r) /\ t[k] = r[k - 1])
  <2> SUFFICES ASSUME NEW k \in 1 .. Len(t), k # 1 PROVE k - 1 \in 1 .. Len(r) /\ t[k] = r[k - 1]
    OBVIOUS
  <2>1. k - 1 \in 1 .. Len(r) /\ (k - 1) + 1 = k
    BY <1>1, <1>2
  <2> QED
    BY <1>2, <2>1
<1>5. Items(t) = {n} \union Items(r)
  <2>1. ASSUME NEW k \in 1 .. Len(t) PROVE t[k] \in {n} \union Items(r)
    BY <1>2, <1>4 DEF Items
  <2>2. \A k \in 1 .. Len(r) : k + 1 \in 1 .. Len(t)
    BY <1>1, <1>2
  <2>3. Items(r) \subseteq Items(t)
    BY <1>2, <2>2 DEF Items
  <2>4. 1 \in 1 .. Len(t)
    BY <1>1, <1>2
  <2>5. n \in Items(t)
    BY <1>2, <2>4 DEF Items
  <2>6. Items(t) \subseteq {n} \union Items(r)
    BY <2>1 DEF Items
  <2> QED
    BY <2>3, <2>5, <2>6
<1>6. n \notin Items(r)
  BY DEF IsFree
<1>7. Distinct(t)
  <2> SUFFICES ASSUME NEW i \in 1 .. Len(t), NEW j \in 1 .. Len(t), t[i] = t[j] PROVE i = j
    BY DEF Distinct
  <2> DEFINE ii == i - 1
             jj == j - 1
  <2>1. (i = 1 \/ (ii \in 1 .. Len(r) /\ t[i] = r[ii])) /\ (j = 1 \/ (jj \in 1 .. Len(r) /\ t[j] = r[jj]))
    BY <1>4
  <2>2. ii = jj => i = j
    BY <1>1, <1>2
  <2> HIDE DEF ii, jj, r
  <2>3. \A k \in 1 .. Len(r) : r[k] \in Items(r)
    BY DEF Items
  <2>4. Distinct(r)
    BY DEF PoolOK, r
  <2> QED
    BY <1>2, <1>6, <2>1, <2>2, <2>3, <2>4 DEF Distinct
<1>8. b \in 1 .. pool.blocks
  <2>1. b \notin pool.blocks + 1 .. Len(source)
    BY DEF IsFree
  <2> QED
    BY <1>1, <2>1
<1>9. PoolOK(q, source)
  BY <1>3, <1>5, <1>7, <1>8 DEF PoolOK
<1>10. \A x : IsFree(x, q, source) <=> x = n \/ IsFree(x, pool, source)
  BY <1>3, <1>5 DEF IsFree
<1> QED
  BY <1>3, <1>9, <1>10 DEF q

(* Taking an item. *)
LEMMA AllocOK ==
  ASSUME NEW S, S \subseteq Node, NEW source \in Seq(Seq(S)), Apart(source),
         NEW pool \in Pool, PoolOK(pool, source), HasRoom(pool, source)
  PROVE  /\ Alloc(pool, source) \in Pool
         /\ PoolOK(Alloc(pool, source), source)
         /\ Head(Free(pool, source)) \in Node
         /\ IsFree(Head(Free(pool, source)), pool, source)
         /\ \E b \in 1 .. Len(source) : InBlock(Head(Free(pool, source)), source, b)
         /\ \A x : IsFree(x, Alloc(pool, source), source) <=>
                     x # Head(Free(pool, source)) /\ IsFree(x, pool, source)
<1> DEFINE r == pool.root
           s == Free(pool, source)
           n == Head(s)
           t == Tail(s)
           c == IF r = <<>> THEN pool.blocks + 1 ELSE pool.blocks
           q == Alloc(pool, source)
<1>1. r \in Seq(Node) /\ pool.blocks \in 0 .. Len(source) /\ Len(r) \in Nat /\ Len(source) \in Nat /\ Distinct(r)
  BY DEF Pool, PoolOK
<1>2. r = <<>> => /\ pool.blocks + 1 \in 1 .. Len(source)
                  /\ source[pool.blocks + 1] \in Seq(S) /\ source[pool.blocks + 1] # <<>>
  <2> SUFFICES ASSUME r = <<>>
               PROVE  /\ pool.blocks + 1 \in 1 .. Len(source)
                      /\ source[pool.blocks + 1] \in Seq(S) /\ source[pool.blocks + 1] # <<>>
    OBVIOUS
  <2>1. pool.blocks + 1 \in 1 .. Len(source)
    BY <1>1 DEF HasRoom
  <2> QED
    BY <2>1 DEF Apart
<1>3. s \in Seq(Node) /\ s # <<>>
  <2>1. ASSUME r = <<>> PROVE s \in Seq(Node)
    <3> DEFINE u == source[pool.blocks + 1]
    <3>1. s = u /\ u \in Seq(S)
      BY <1>2, <2>1 DEF Free
    <3> HIDE DEF u
    <3> QED
      BY <3>1
  <2>2. r # <<>> => s = r
    BY DEF Free
  <2> QED
    BY <1>1, <1>2, <2>1, <2>2 DEF Free
<1>4. Distinct(s)
  <2>1. ASSUME r = <<>> PROVE Distinct(s)
    <3>1. s = source[pool.blocks + 1] /\ pool.blocks + 1 \in DOMAIN source /\ DOMAIN s = 1 .. Len(s)
      BY <1>2, <1>3, <2>1 DEF Free
    <3> QED
      BY <3>1 DEF Apart, Distinct
  <2> QED
    BY <1>1, <2>1 DEF Free
<1>5. \A x \in Items(s) : \E b \in 1 .. c : InBlock(x, source, b)
  <2>1. CASE r = <<>>
    <3>1. s = source[pool.blocks + 1] /\ c = pool.blocks + 1 /\ c \in 1 .. c
      BY <1>1, <2>1 DEF Free
    <3> HIDE DEF s, c
    <3> QED
      BY <3>1 DEF Items, InBlock
  <2>2. CASE r # <<>>
    BY <2>2 DEF Free, PoolOK
  <2> QED
    BY <2>1, <2>2
<1>6. c \in 0 .. Len(source)
  BY <1>1, <1>2
<1>7. \A x : IsFree(x, pool, source) <=>
        x \in Items(s) \/ \E b \in c + 1 .. Len(source) : InBlock(x, source, b)
  <2>1. CASE r = <<>>
    <3>1. Items(r) = {}
      BY <2>1 DEF Items
    <3>2. s = source[pool.blocks + 1] /\ c = pool.blocks + 1
      BY <2>1 DEF Free
    <3>3. \A b : b \in pool.blocks + 1 .. Len(source) <=> b = pool.blocks + 1 \/ b \in c + 1 .. Len(source)
      BY <1>1, <1>2, <2>1
    <3>4. \A x : InBlock(x, source, pool.blocks + 1) <=> x \in Items(s)
      BY <3>2 DEF InBlock, Items
    <3> HIDE DEF s, c
    <3> QED
      BY <3>1, <3>3, <3>4 DEF IsFree
  <2>2. CASE r # <<>>
    BY <2>2 DEF Free, IsFree
  <2> QED
    BY <2>1, <2>2
<1>8. q \in Pool /\ q.root = t /\ q.blocks = c
  <2>1. t \in Seq(Node)
    <3> HIDE DEF s
    <3> QED
      BY <1>3
  <2>2. q = [pool EXCEPT !.root = t, !.blocks = c, !.current = @ + 1, !.untracked = @ + 1]
    BY DEF Alloc
  <2>3. c \in Nat
    BY <1>6
  <2> HIDE DEF q, t, c
  <2>4. pool.current \in Int /\ pool.untracked \in Int
    BY DEF Pool
  <2>5. q = [root |-> t, blocks |-> c, current |-> pool.current + 1, untracked |-> pool.untracked + 1]
    BY <2>2 DEF Pool
  <2> QED
    BY <2>1, <2>3, <2>4, <2>5 DEF Pool
<1> HIDE DEF s, c, q
<1>9. /\ n = s[1] /\ n \in Node /\ t \in Seq(Node) /\ Len(t) = Len(s) - 1 /\ Len(s) \in Nat \ {0}
      /\ \A k \in 1 .. Len(t) : t[k] = s[k + 1]
  BY <1>3
<1>10. \A k \in 1 .. Len(t) : k + 1 \in 1 .. Len(s)
  BY <1>9
<1> HIDE DEF n, t
<1>11. Distinct(t)
  <2>1. ASSUME NEW k \in 1 .. Len(t), NEW l \in 1 .. Len(t), t[k] = t[l] PROVE k = l
    <3>1. s[k + 1] = s[l + 1]
      BY <1>9, <2>1
    <3>2. k + 1 = l + 1
      BY <1>4, <1>10, <3>1 DEF Distinct
    <3> QED
      BY <3>2
  <2> QED
    BY <2>1 DEF Distinct
<1>12. Items(t) = Items(s) \ {n}
  <2>1. ASSUME NEW k \in 1 .. Len(t) PROVE t[k] \in Items(s) \ {n}
    <3>1. t[k] = s[k + 1] /\ k + 1 \in 1 .. Len(s) /\ k + 1 # 1 /\ 1 \in 1 .. Len(s)
      BY <1>9, <1>10
    <3> QED
      BY <1>4, <1>9, <3>1 DEF Items, Distinct
  <2>2. ASSUME NEW x \in Items(s), x # n PROVE x \in Items(t)
    <3>1. PICK k \in 1 .. Len(s) : s[k] = x
      BY DEF Items
    <3>2. k # 1
      BY <1>9, <2>2, <3>1
    <3>3. k - 1 \in 1 .. Len(t) /\ (k - 1) + 1 = k
      BY <1>9, <3>2
    <3>4. t[k - 1] = x
      BY <1>9, <3>1, <3>3
    <3> QED
      BY <3>3, <3>4 DEF Items
  <2>3. Items(t) \subseteq Items(s) \ {n}
    BY <2>1 DEF Items
  <2> QED
    BY <2>2, <2>3
<1>13. PoolOK(q, source)
  BY <1>5, <1>6, <1>8, <1>11, <1>12 DEF PoolOK
<1>14. n \in Items(s)
  BY <1>9 DEF Items
<1>15. PICK b \in 1 .. c : InBlock(n, source, b)
  BY <1>5, <1>14
<1>16. \A d \in c + 1 .. Len(source) : ~InBlock(n, source, d)
  <2> SUFFICES ASSUME NEW d \in c + 1 .. Len(source), InBlock(n, source, d) PROVE FALSE
    OBVIOUS
  <2>1. b \in 1 .. Len(source) /\ d \in 1 .. Len(source) /\ b # d
    BY <1>1, <1>6
  <2>2. /\ DOMAIN source = 1 .. Len(source)
        /\ DOMAIN source[b] = 1 .. Len(source[b]) /\ DOMAIN source[d] = 1 .. Len(source[d])
    BY <2>1
  <2>3. PICK k \in DOMAIN source[b], l \in DOMAIN source[d] : source[b][k] = source[d][l]
    BY <1>15, <2>2 DEF InBlock
  <2> QED
    BY <2>1, <2>2, <2>3 DEF Apart
<1>17. \A x : IsFree(x, q, source) <=> x # n /\ IsFree(x, pool, source)
  BY <1>7, <1>8, <1>12, <1>16 DEF IsFree
<1>18. b \in 1 .. Len(source)
  BY <1>1, <1>6
<1>19. IsFree(n, pool, source)
  BY <1>7, <1>14
<1> QED
  BY <1>8, <1>9, <1>13, <1>15, <1>17, <1>18, <1>19 DEF n, q, s

-----------------------------------------------------------------------------
(* Cutting off and destroying. *)

(* Where a pointer that led to n leads to what is behind n, no walk closes. *)
LEMMA Rerouted ==
  ASSUME NEW h \in Heap, Grounded(h), NEW g \in Heap, NEW n \in Node,
         \A m \in Node : /\ g.first[m] = h.first[m] \/ (h.first[m] = n /\ g.first[m] = h.next[n])
                         /\ g.next[m] = h.next[m] \/ (h.next[m] = n /\ g.next[m] = h.next[n])
  PROVE  Grounded(g)
<1> SUFFICES ASSUME NEW X \in SUBSET Node, X # {}
             PROVE  \E m \in X : g.first[m] \notin X /\ g.next[m] \notin X
  BY DEF Grounded
<1>1. PICK m \in X : h.first[m] \notin X /\ h.next[m] \notin X
  BY DEF Grounded
<1>2. CASE n \in X
  BY <1>1, <1>2
<1>3. CASE n \notin X
  <2>1. X \union {n} \in SUBSET Node
    OBVIOUS
  <2>2. PICK k \in X \union {n} : h.first[k] \notin X \union {n} /\ h.next[k] \notin X \union {n}
    BY <2>1 DEF Grounded
  <2>3. CASE k = n
    BY <1>1, <2>2, <2>3
  <2>4. CASE k # n
    BY <2>2, <2>4
  <2> QED
    BY <2>3, <2>4
<1> QED
  BY <1>2, <1>3

Detach(h, n) == IF h.parent[n] # Null THEN Unlink(h, n) ELSE h

(* Detaching a node leaves every parent a list, and all else as it was.    *)
LEMMA Detached ==
  ASSUME NEW h \in Heap, NEW kids, Laid(h, kids), Grounded(h), NEW n \in Node
  PROVE  /\ Detach(h, n) \in Heap
         /\ Detach(h, n).parent = [h.parent EXCEPT ![n] = Null]
         /\ Detach(h, n).attr = h.attr /\ Detach(h, n).pool = h.pool /\ Detach(h, n).crashed = h.crashed
         /\ \E new : Laid(Detach(h, n), new)
         /\ Grounded(Detach(h, n))
         /\ \A m \in Parent : h.parent[m] = Null /\ h.next[m] = Null => Detach(h, n).next[m] = Null
         /\ \A q \in Parent, r \in Seq(Node) :
              Chain(h, q, r) /\ h.parent[n] # q => Chain(Detach(h, n), q, r)
<1>1. n \in Parent /\ n # Null
  BY HeapAssumption DEF Parent
<1>2. CASE h.parent[n] = Null
  <2>1. Detach(h, n) = h
    BY <1>2 DEF Detach
  <2>2. h.parent = [h.parent EXCEPT ![n] = Null]
    BY <1>1, <1>2 DEF Heap
  <2> QED
    BY <2>1, <2>2
<1>3. CASE h.parent[n] # Null
  <2> DEFINE g == Unlink(h, n)
             p == h.parent[n]
  <2>1. Detach(h, n) = g
    BY <1>3 DEF Detach
  <2>2. g \in Heap /\ UnlinkedFrom(g, h, p, n) /\ \E new : Laid(g, new)
    BY <1>3, Cut
  <2>3. g.attr = h.attr /\ g.pool = h.pool /\ g.crashed = h.crashed
    BY DEF Unlink, Heap
  <2>4. p \in Parent
    BY <1>1, <1>3 DEF Heap
  <2> HIDE DEF g
  <2>5. ASSUME NEW m \in Node
        PROVE  /\ g.first[m] = h.first[m] \/ (h.first[m] = n /\ g.first[m] = h.next[n])
               /\ g.next[m] = h.next[m] \/ (h.next[m] = n /\ g.next[m] = h.next[n])
    <3>1. m \in Parent /\ m # Null
      BY HeapAssumption DEF Parent
    <3>2. g.first[m] = IF m = p THEN IF h.first[p] = n THEN h.next[n] ELSE h.first[p] ELSE h.first[m]
      BY <2>2, <2>4, <3>1 DEF UnlinkedFrom, Heap
    <3>3. g.next[m] = IF m = h.prev[n] THEN h.next[n] ELSE h.next[m]
      BY <2>2, <3>1 DEF UnlinkedFrom
    <3>4. m = h.prev[n] => h.next[m] = n
      BY <1>1, <1>3, <3>1, Pointed
    <3> QED
      BY <3>2, <3>3, <3>4
  <2>6. Grounded(g)
    BY <2>2, <2>5, Rerouted
  <2>7. ASSUME NEW m \in Parent, h.parent[m] = Null, h.next[m] = Null PROVE g.next[m] = Null
    <3>1. g.next[m] = IF m = h.prev[n] THEN h.next[n] ELSE h.next[m]
      BY <2>2 DEF UnlinkedFrom
    <3>2. m = h.prev[n] => m = Null \/ h.parent[m] = h.parent[n]
      BY <1>1, <1>3, Pointed
    <3> QED
      BY <1>3, <2>7, <3>1, <3>2, HeapAssumption DEF Parent
  <2>8. g.parent = [h.parent EXCEPT ![n] = Null]
    BY <2>2 DEF UnlinkedFrom
  <2>9. ASSUME NEW q \in Parent, NEW r \in Seq(Node), Chain(h, q, r), q # p PROVE Chain(g, q, r)
    <3> DEFINE s == kids[p]
    <3>1. s \in Seq(Node) /\ Chain(h, p, s) /\ \E i \in 1 .. Len(s) : s[i] = n
      BY <1>1, <1>3, <2>4 DEF Laid
    <3> HIDE DEF p, s
    <3>2. PICK i \in 1 .. Len(s) : s[i] = n
      BY <3>1
    <3> QED
      BY <2>2, <2>4, <2>9, <3>1, <3>2, CutElsewhere
  <2> QED
    BY <2>1, <2>2, <2>3, <2>6, <2>7, <2>8, <2>9
<1> QED
  BY <1>2, <1>3

(* A pool stays a pool, whatever its counters say.                         *)
LEMMA Counted ==
  ASSUME NEW a \in Pool, NEW d \in Int
  PROVE  /\ [a EXCEPT !.current = d] \in Pool
         /\ [a EXCEPT !.current = d].current = d
         /\ [a EXCEPT !.current = d].untracked = a.untracked
         /\ [a EXCEPT !.untracked = d] \in Pool
         /\ [a EXCEPT !.untracked = d].untracked = d
         /\ [a EXCEPT !.untracked = d].current = a.current
<1>1. a.root \in Seq(Node) /\ a.blocks \in Nat /\ a.current \in Int /\ a.untracked \in Int
  BY DEF Pool
<1>2. [a EXCEPT !.current = d] = [root |-> a.root, blocks |-> a.blocks, current |-> d, untracked |-> a.untracked]
  BY DEF Pool
<1>3. [a EXCEPT !.untracked = d] = [root |-> a.root, blocks |-> a.blocks, current |-> a.current, untracked |-> d]
  BY DEF Pool
<1> QED
  BY <1>1, <1>2, <1>3 DEF Pool

(* An element that goes gives back as many attributes as its list is long    *)
(* (XMLElement::~XMLElement); another node has none.                        *)
LEMMA AttributesDropped ==
  ASSUME NEW u \in Heap, NEW n \in Node
  PROVE  /\ DropAttributes(u, n) \in Heap
         /\ DropAttributes(u, n).parent = u.parent
         /\ DropAttributes(u, n).first = u.first /\ DropAttributes(u, n).last = u.last
         /\ DropAttributes(u, n).prev = u.prev /\ DropAttributes(u, n).next = u.next
         /\ DropAttributes(u, n).crashed = u.crashed
         /\ DropAttributes(u, n).pool["element"] = u.pool["element"]
         /\ DropAttributes(u, n).pool["leaf"] = u.pool["leaf"]
         /\ DropAttributes(u, n).attr = IF n \in Element THEN [u.attr EXCEPT ![n] = <<>>] ELSE u.attr
         /\ DropAttributes(u, n).pool["attribute"].current =
              IF n \in Element THEN u.pool["attribute"].current - Len(u.attr[n])
                               ELSE u.pool["attribute"].current
<1> DEFINE v == DropAttributes(u, n)
<1>1. CASE n \in Element
  <2> DEFINE a == u.pool["attribute"]
             b == [a EXCEPT !.current = @ - Len(u.attr[n])]
             d == a.current - Len(u.attr[n])
  <2>1. v = [u EXCEPT !.attr = [@ EXCEPT ![n] = <<>>], !.pool = [@ EXCEPT !["attribute"] = b]]
    BY <1>1 DEF DropAttributes
  <2>2. a \in Pool /\ u.attr[n] \in Seq(Name) /\ u.attr \in [Element -> Seq(Name)] /\ u.pool \in [Kind -> Pool]
    BY <1>1 DEF Heap, Kind
  <2>3. d \in Int
    <3>1. a.current \in Int
      <4> HIDE DEF a
      <4> QED
        BY <2>2 DEF Pool
    <3>2. Len(u.attr[n]) \in Nat
      BY <2>2
    <3> DEFINE c == a.current
    <3> HIDE DEF c
    <3>3. c - Len(u.attr[n]) \in Int
      BY <3>1, <3>2 DEF c
    <3> QED
      BY <3>3 DEF c
  <2>4. b = [a EXCEPT !.current = d]
    OBVIOUS
  <2> HIDE DEF a, b, d
  <2>5. b \in Pool /\ b.current = d
    BY <2>2, <2>3, <2>4, Counted
  <2> HIDE DEF v
  <2> DEFINE at == [u.attr EXCEPT ![n] = <<>>]
             po == [u.pool EXCEPT !["attribute"] = b]
  <2>6. at \in [Element -> Seq(Name)]
    <3>1. <<>> \in Seq(Name)
      OBVIOUS
    <3> QED
      BY <2>2, <3>1
  <2>7. /\ po \in [Kind -> Pool] /\ po["element"] = u.pool["element"] /\ po["leaf"] = u.pool["leaf"]
        /\ po["attribute"] = b
    BY <2>2, <2>5 DEF Kind
  <2>8. v = [u EXCEPT !.attr = at, !.pool = po]
    BY <2>1
  <2> HIDE DEF po
  <2>9. v.attr = at /\ v.pool = po
    BY <2>8 DEF Heap
  <2> HIDE DEF at
  <2>10. /\ v \in Heap /\ v.parent = u.parent /\ v.first = u.first /\ v.last = u.last
         /\ v.prev = u.prev /\ v.next = u.next /\ v.crashed = u.crashed
    BY <2>6, <2>7, <2>8 DEF Heap
  <2> QED
    BY <1>1, <2>5, <2>7, <2>9, <2>10 DEF v, at, a, d
<1>2. CASE n \notin Element
  BY <1>2 DEF DropAttributes
<1> QED
  BY <1>1, <1>2

(* Destroying a node that is in use. *)
LEMMA Destroyed ==
  ASSUME NEW h \in Heap, NEW kids, Laid(h, kids), Grounded(h), PoolsOK(h), NEW n \in Alive(h)
  PROVE  /\ Destroy(h, n) \in Heap
         /\ Destroy(h, n).parent = [h.parent EXCEPT ![n] = Null]
         /\ Destroy(h, n).crashed = h.crashed
         /\ \E new : Laid(Destroy(h, n), new)
         /\ Grounded(Destroy(h, n))
         /\ PoolsOK(Destroy(h, n))
         /\ Alive(Destroy(h, n)) = Alive(h) \ {n}
         /\ \A m \in Parent : m = n \/ (h.parent[m] = Null /\ h.next[m] = Null) => Destroy(h, n).next[m] = Null
         /\ \A q \in Parent, r \in Seq(Node) :
              Chain(h, q, r) /\ h.parent[n] # q => Chain(Destroy(h, n), q, r)
<1> DEFINE u == Detach(h, n)
           v == DropAttributes(u, n)
           k == PoolOf(n)
           g == [v EXCEPT !.prev[n] = Null, !.next[n] = Null, !.pool[k] = Release(@, n)]
<1>1. Destroy(h, n) = g
  BY DEF Destroy, Detach
<1>2. n \in Node /\ n \in Parent /\ n # Null /\ n \notin FreeItems(h, k)
  BY HeapAssumption DEF Alive, Parent
<1>3. /\ u \in Heap /\ u.parent = [h.parent EXCEPT ![n] = Null]
      /\ u.attr = h.attr /\ u.pool = h.pool /\ u.crashed = h.crashed
      /\ Grounded(u)
      /\ \A m \in Parent : h.parent[m] = Null /\ h.next[m] = Null => u.next[m] = Null
      /\ \A q \in Parent, r \in Seq(Node) : Chain(h, q, r) /\ h.parent[n] # q => Chain(u, q, r)
  BY <1>2, Detached
<1>4. PICK new : Laid(u, new)
  BY <1>2, Detached
<1> HIDE DEF u
<1>5. /\ v \in Heap /\ v.parent = u.parent /\ v.first = u.first /\ v.last = u.last /\ v.prev = u.prev
      /\ v.next = u.next /\ v.crashed = u.crashed
      /\ v.pool["element"] = u.pool["element"] /\ v.pool["leaf"] = u.pool["leaf"]
  BY <1>2, <1>3, AttributesDropped
<1> HIDE DEF v
<1> DEFINE source == SourceOf(k)
           pool == h.pool[k]
           rest == Release(pool, n)
<1>6. k \in {"element", "leaf"} /\ v.pool[k] = pool /\ pool \in Pool /\ PoolOK(pool, source)
  BY <1>3, <1>5 DEF PoolOf, SourceOf, PoolsOK, Heap, Kind
<1>7. /\ \E S : source \in Seq(Seq(S))
      /\ \E b \in 1 .. Len(source) : InBlock(n, source, b)
  <2>1. CASE n \in Element
    BY <2>1, HeapAssumption, Blocks DEF PoolOf, SourceOf
  <2>2. CASE n \notin Element
    <3>1. n \in Leaf
      BY <1>2, <2>2 DEF Node
    <3> QED
      BY <2>2, <3>1, HeapAssumption, Blocks DEF PoolOf, SourceOf
  <2> QED
    BY <2>1, <2>2
<1>8. ~IsFree(n, pool, source)
  BY <1>2, <1>6, FreeMeans
<1> HIDE DEF k, source, pool, rest
<1>9. /\ rest \in Pool /\ PoolOK(rest, source)
      /\ \A x : IsFree(x, rest, source) <=> x = n \/ IsFree(x, pool, source)
  BY <1>2, <1>6, <1>7, <1>8, ReleaseOK DEF rest
<1>10. /\ g \in Heap /\ g.parent = u.parent /\ g.first = u.first /\ g.last = u.last /\ g.crashed = h.crashed
       /\ g.prev = [u.prev EXCEPT ![n] = Null] /\ g.next = [u.next EXCEPT ![n] = Null]
       /\ g.pool = [v.pool EXCEPT ![k] = rest]
  <2> DEFINE pr == [u.prev EXCEPT ![n] = Null]
             ne == [u.next EXCEPT ![n] = Null]
             po == [v.pool EXCEPT ![k] = rest]
  <2>1. g = [v EXCEPT !.prev = pr, !.next = ne, !.pool = po]
    BY <1>5, <1>6 DEF rest
  <2>2. pr \in [Parent -> Node \union {Null}] /\ ne \in [Parent -> Node \union {Null}] /\ po \in [Kind -> Pool]
    BY <1>2, <1>3, <1>5, <1>6, <1>9 DEF Heap, Kind
  <2> HIDE DEF g, pr, ne, po
  <2>3. /\ g \in Heap /\ g.parent = v.parent /\ g.first = v.first /\ g.last = v.last /\ g.crashed = v.crashed
        /\ g.prev = pr /\ g.next = ne /\ g.pool = po
    BY <1>5, <2>1, <2>2 DEF Heap
  <2> QED
    BY <1>3, <1>5, <2>3 DEF pr, ne, po
<1> HIDE DEF g
<1>11. v.pool \in [Kind -> Pool]
  BY <1>5 DEF Heap
<1>12. \A p \in {"element", "leaf"} : g.pool[p] = IF p = k THEN rest ELSE h.pool[p]
  BY <1>3, <1>5, <1>10, <1>11 DEF Kind
<1>13. PoolsOK(g)
  <2>1. \A p \in {"element", "leaf"} : PoolOK(h.pool[p], SourceOf(p))
    BY DEF PoolsOK, SourceOf
  <2>2. \A p \in {"element", "leaf"} : PoolOK(g.pool[p], SourceOf(p))
    BY <1>6, <1>9, <1>12, <2>1 DEF source
  <2> QED
    BY <2>2 DEF PoolsOK, SourceOf
<1>14. Alive(g) = Alive(h) \ {n}
  <2>1. ASSUME NEW m \in Node PROVE m \in FreeItems(g, PoolOf(m)) <=> m = n \/ m \in FreeItems(h, PoolOf(m))
    <3>1. PoolOf(m) \in {"element", "leaf"}
      BY DEF PoolOf
    <3>2. /\ m \in FreeItems(g, PoolOf(m)) <=> IsFree(m, g.pool[PoolOf(m)], SourceOf(PoolOf(m)))
          /\ m \in FreeItems(h, PoolOf(m)) <=> IsFree(m, h.pool[PoolOf(m)], SourceOf(PoolOf(m)))
      BY <1>10, <3>1, FreeMeans
    <3>3. CASE PoolOf(m) = k
      BY <1>9, <1>12, <3>1, <3>2, <3>3 DEF source, pool
    <3>4. CASE PoolOf(m) # k
      BY <1>12, <3>1, <3>2, <3>4 DEF k
    <3> QED
      BY <3>3, <3>4
  <2> QED
    BY <2>1 DEF Alive
<1>15. u.parent[n] = Null /\ u.prev \in [Parent -> Node \union {Null}] /\ u.next \in [Parent -> Node \union {Null}]
  BY <1>2, <1>3 DEF Heap
<1>15a. ASSUME NEW p \in Parent, NEW s \in Seq(Node), Chain(u, p, s) PROVE Chain(g, p, s)
  <2>1. p # Null
    BY HeapAssumption DEF Parent
  <2>2. \A i \in 1 .. Len(s) : s[i] # n /\ s[i] \in Parent
    BY <1>15, <1>15a, <2>1 DEF Chain, Parent
  <2>3. \A i \in 1 .. Len(s) : g.next[s[i]] = u.next[s[i]] /\ g.prev[s[i]] = u.prev[s[i]]
    BY <1>10, <1>15, <2>2
  <2> QED
    BY <1>10, <1>15a, <2>3 DEF Chain
<1>16. Laid(g, new)
  <2>1. new \in [Parent -> Seq(Node)] /\ \A p \in Parent : Chain(u, p, new[p])
    BY <1>4 DEF Laid
  <2>2. \A p \in Parent : Chain(g, p, new[p])
    BY <1>15a, <2>1
  <2> QED
    BY <1>4, <1>10, <2>1, <2>2 DEF Laid
<1>17. Grounded(g)
  <2> SUFFICES ASSUME NEW X \in SUBSET Node, X # {}
               PROVE  \E m \in X : g.first[m] \notin X /\ g.next[m] \notin X
    BY DEF Grounded
  <2>1. PICK m \in X : u.first[m] \notin X /\ u.next[m] \notin X
    BY <1>3 DEF Grounded
  <2>2. g.next[m] = u.next[m] \/ g.next[m] = Null
    BY <1>2, <1>10, <1>15, <2>1 DEF Parent
  <2> QED
    BY <1>10, <2>1, <2>2, HeapAssumption
<1>18. ASSUME NEW m \in Parent, m = n \/ (h.parent[m] = Null /\ h.next[m] = Null) PROVE g.next[m] = Null
  BY <1>3, <1>10, <1>15, <1>18
<1>19. ASSUME NEW q \in Parent, NEW r \in Seq(Node), Chain(h, q, r), h.parent[n] # q PROVE Chain(g, q, r)
  BY <1>3, <1>15a, <1>19
<1> QED
  BY <1>1, <1>3, <1>10, <1>13, <1>14, <1>16, <1>17, <1>18, <1>19

-----------------------------------------------------------------------------
(* Counting. *)

\* Those of T that lie in the pool p.
Of(T, p) == {n \in T : PoolOf(n) = p}

\* The pools count what is in use, and no element has an attribute twice.
Books(h) ==
  /\ IsFiniteSet(Alive(h))
  /\ \A p \in {"element", "leaf"} : h.pool[p].current = Cardinality(Of(Alive(h), p))
  /\ IsFiniteSet(AttributeItems(h))
  /\ h.pool["attribute"].current = Cardinality(AttributeItems(h))
  /\ \A e \in Element : Distinct(h.attr[e]) /\ (e \in Alive(h) \/ h.attr[e] = <<>>)

(* A set with one member more or less has one more or less in its pool.    *)
LEMMA OneMore ==
  ASSUME NEW T, IsFiniteSet(T), NEW n, NEW p
  PROVE  /\ n \notin T => Cardinality(Of(T \union {n}, p)) =
                            IF p = PoolOf(n) THEN Cardinality(Of(T, p)) + 1 ELSE Cardinality(Of(T, p))
         /\ n \in T => Cardinality(Of(T \ {n}, p)) =
                         IF p = PoolOf(n) THEN Cardinality(Of(T, p)) - 1 ELSE Cardinality(Of(T, p))
<1> DEFINE U == Of(T, p)
<1>1. U \subseteq T
  BY DEF Of
<1>2. IsFiniteSet(U)
  BY <1>1, FS_Subset
<1>3. n \in U <=> n \in T /\ p = PoolOf(n)
  BY DEF Of
<1>4. /\ Of(T \union {n}, p) = IF p = PoolOf(n) THEN U \union {n} ELSE U
      /\ Of(T \ {n}, p) = IF p = PoolOf(n) THEN U \ {n} ELSE U
  <2>1. CASE p = PoolOf(n)
    BY <2>1 DEF Of
  <2>2. CASE p # PoolOf(n)
    BY <2>2 DEF Of
  <2> QED
    BY <2>1, <2>2
<1> HIDE DEF U
<1>5. /\ Cardinality(U \union {n}) = IF n \in U THEN Cardinality(U) ELSE Cardinality(U) + 1
      /\ Cardinality(U \ {n}) = IF n \in U THEN Cardinality(U) - 1 ELSE Cardinality(U)
  BY <1>2, FS_AddElement, FS_RemoveElement
<1>6. ASSUME n \notin T
      PROVE  Cardinality(Of(T \union {n}, p)) = IF p = PoolOf(n) THEN Cardinality(U) + 1 ELSE Cardinality(U)
  BY <1>3, <1>4, <1>5, <1>6
<1>7. ASSUME n \in T
      PROVE  Cardinality(Of(T \ {n}, p)) = IF p = PoolOf(n) THEN Cardinality(U) - 1 ELSE Cardinality(U)
  BY <1>3, <1>4, <1>5, <1>7
<1> QED
  BY <1>6, <1>7 DEF U

(* The attributes of one element are as many as its list is long.          *)
LEMMA OwnAttributes ==
  ASSUME NEW e, NEW m \in Nat
  PROVE  IsFiniteSet({e} \X (1 .. m)) /\ Cardinality({e} \X (1 .. m)) = m
<1>1. IsFiniteSet({e}) /\ Cardinality({e}) = 1
  BY FS_Singleton
<1>2. IsFiniteSet(1 .. m) /\ Cardinality(1 .. m) = m
  BY FS_Interval
<1>3. IsFiniteSet({e} \X (1 .. m)) /\ Cardinality({e} \X (1 .. m)) = Cardinality({e}) * Cardinality(1 .. m)
  BY <1>1, <1>2, FS_Product
<1> QED
  BY <1>1, <1>2, <1>3

(* Another list for one element.                                           *)
LEMMA Relisted ==
  ASSUME NEW h \in Heap, IsFiniteSet(AttributeItems(h)), NEW e \in Element, NEW s \in Seq(Name),
         NEW g, g.attr = [h.attr EXCEPT ![e] = s]
  PROVE  /\ IsFiniteSet(AttributeItems(g))
         /\ Cardinality(AttributeItems(g)) = Cardinality(AttributeItems(h)) - Len(h.attr[e]) + Len(s)
<1> DEFINE r == h.attr[e]
           A == AttributeItems(h)
           B == {e} \X (1 .. Len(r))
           C == {e} \X (1 .. Len(s))
           R == A \ B
<1>1. h.attr \in [Element -> Seq(Name)] /\ r \in Seq(Name) /\ Len(r) \in Nat /\ Len(s) \in Nat
  BY DEF Heap
<1>2. /\ \A x : x \in A <=> \E d \in Element : x \in {d} \X (1 .. Len(h.attr[d]))
      /\ \A x : x \in AttributeItems(g) <=> \E d \in Element : x \in {d} \X (1 .. Len(g.attr[d]))
  <2>1. \A d \in Element : DOMAIN h.attr[d] = 1 .. Len(h.attr[d]) /\ DOMAIN g.attr[d] = 1 .. Len(g.attr[d])
    BY <1>1
  <2>2. \A x : x \in A <=> \E d \in Element : x \in {d} \X DOMAIN h.attr[d]
    BY DEF AttributeItems
  <2>3. \A x : x \in AttributeItems(g) <=> \E d \in Element : x \in {d} \X DOMAIN g.attr[d]
    BY DEF AttributeItems
  <2> QED
    BY <2>1, <2>2, <2>3
<1>3. B \subseteq A
  BY <1>2
<1>4. \A d \in Element : g.attr[d] = IF d = e THEN s ELSE h.attr[d]
  BY <1>1
<1>5. \A d : \A x \in {d} \X (1 .. Len(g.attr[d])) : x[1] = d
  OBVIOUS
<1>6. \A d : \A x \in {d} \X (1 .. Len(h.attr[d])) : x[1] = d
  OBVIOUS
<1>7. (\A x \in B : x[1] = e) /\ (\A x \in C : x[1] = e)
  OBVIOUS
<1>8. AttributeItems(g) = R \union C
  <2>1. ASSUME NEW x \in AttributeItems(g) PROVE x \in R \union C
    <3>1. PICK d \in Element : x \in {d} \X (1 .. Len(g.attr[d]))
      BY <1>2
    <3>2. CASE d = e
      BY <1>4, <3>1, <3>2
    <3>3. CASE d # e
      BY <1>2, <1>4, <1>5, <1>7, <3>1, <3>3
    <3> QED
      BY <3>2, <3>3
  <2>2. ASSUME NEW x \in R PROVE x \in AttributeItems(g)
    <3>1. PICK d \in Element : x \in {d} \X (1 .. Len(h.attr[d]))
      BY <1>2
    <3>2. d # e
      BY <3>1
    <3> QED
      BY <1>2, <1>4, <3>1, <3>2
  <2>3. ASSUME NEW x \in C PROVE x \in AttributeItems(g)
    BY <1>2, <1>4
  <2> HIDE DEF R, C
  <2> QED
    BY <2>1, <2>2, <2>3
<1>9. R \intersect C = {}
  <2> SUFFICES ASSUME NEW x \in R, x \in C PROVE FALSE
    OBVIOUS
  <2>1. PICK d \in Element : x \in {d} \X (1 .. Len(h.attr[d]))
    BY <1>2
  <2>2. d = e
    BY <1>6, <1>7, <2>1
  <2> QED
    BY <2>1, <2>2
<1>10. /\ IsFiniteSet(C) /\ Cardinality(C) = Len(s)
       /\ Cardinality(B) = Len(r)
  BY <1>1, OwnAttributes
<1> HIDE DEF B, C
<1>11. IsFiniteSet(R) /\ Cardinality(R) = Cardinality(A) - Cardinality(A \intersect B)
  BY FS_Difference
<1>12. A \intersect B = B
  BY <1>3
<1> HIDE DEF A, R
<1>13. IsFiniteSet(R \union C) /\ Cardinality(R \union C) = Cardinality(R) + Cardinality(C) - Cardinality(R \intersect C)
  BY <1>10, <1>11, FS_Union
<1>14. Cardinality(R \intersect C) = 0
  BY <1>9, FS_EmptySet
<1>15. Cardinality(R) \in Nat /\ Cardinality(A) \in Nat
  BY <1>11, FS_CardinalityType DEF A
<1>16. Cardinality(R \union C) = Cardinality(A) - Len(r) + Len(s)
  <2> DEFINE a == Cardinality(A)
             c == Cardinality(R)
             l == Len(r)
             m == Len(s)
  <2>1. /\ a \in Nat /\ c \in Nat /\ l \in Nat /\ m \in Nat
        /\ c = a - l /\ Cardinality(R \union C) = c + m - 0
    BY <1>1, <1>10, <1>11, <1>12, <1>13, <1>14, <1>15
  <2> HIDE DEF a, c, l, m
  <2>2. Cardinality(R \union C) = a - l + m
    BY <2>1
  <2> QED
    BY <2>2 DEF a, l, m
<1> QED
  BY <1>8, <1>13, <1>16 DEF A

(* What a destruction does to the counters: the books stay right, and nothing *)
(* becomes tracked or untracked by it (MemPoolT::Free).                      *)
LEMMA DestroyedCounts ==
  ASSUME NEW h \in Heap, NEW kids, Laid(h, kids), Grounded(h), PoolsOK(h), NEW n \in Alive(h)
  PROVE  /\ Books(h) => Books(Destroy(h, n))
         /\ \A p \in {"element", "leaf"} : Destroy(h, n).pool[p].untracked = h.pool[p].untracked
<1> DEFINE u == Detach(h, n)
           v == DropAttributes(u, n)
           k == PoolOf(n)
           a == v.pool[k]
           b == Release(a, n)
           g == Destroy(h, n)
<1>1. n \in Node /\ k \in {"element", "leaf"} /\ k \in Kind
  BY DEF Alive, PoolOf, Kind
<1>2. u \in Heap /\ u.attr = h.attr /\ u.pool = h.pool
  BY <1>1, Detached
<1>3. g = [v EXCEPT !.prev[n] = Null, !.next[n] = Null, !.pool[k] = b]
  BY DEF Destroy, Detach
<1>4. Alive(g) = Alive(h) \ {n}
  BY Destroyed
<1> HIDE DEF u
<1>5. /\ v \in Heap
      /\ v.pool["element"] = h.pool["element"] /\ v.pool["leaf"] = h.pool["leaf"]
      /\ v.attr = IF n \in Element THEN [h.attr EXCEPT ![n] = <<>>] ELSE h.attr
      /\ v.pool["attribute"].current =
           IF n \in Element THEN h.pool["attribute"].current - Len(h.attr[n]) ELSE h.pool["attribute"].current
  BY <1>1, <1>2, AttributesDropped
<1> HIDE DEF v, g
<1>6. a \in Pool /\ v.pool \in [Kind -> Pool]
  BY <1>1, <1>5 DEF Heap
<1> HIDE DEF a, k
<1>7. b.current = a.current - 1 /\ b.untracked = a.untracked
  BY <1>6 DEF Release, Pool
<1> HIDE DEF b
<1>8. g.attr = v.attr /\ g.pool = [v.pool EXCEPT ![k] = b]
  BY <1>3, <1>5 DEF Heap
<1>9. \A p \in Kind : g.pool[p] = IF p = k THEN b ELSE v.pool[p]
  BY <1>1, <1>6, <1>8
<1>10. \A p \in {"element", "leaf"} : g.pool[p].untracked = h.pool[p].untracked
  BY <1>1, <1>5, <1>7, <1>9 DEF Kind, a
<1>11. ASSUME Books(h) PROVE Books(g)
  <2>1. IsFiniteSet(Alive(h)) /\ IsFiniteSet(Alive(g))
    BY <1>4, <1>11, FS_RemoveElement DEF Books
  <2>2. ASSUME NEW p \in {"element", "leaf"} PROVE g.pool[p].current = Cardinality(Of(Alive(g), p))
    <3>1. Cardinality(Of(Alive(h) \ {n}, p)) =
            IF p = k THEN Cardinality(Of(Alive(h), p)) - 1 ELSE Cardinality(Of(Alive(h), p))
      BY <2>1, OneMore DEF k
    <3>2. h.pool[p].current = Cardinality(Of(Alive(h), p)) /\ v.pool[p] = h.pool[p] /\ p \in Kind
      BY <1>5, <1>11 DEF Books, Kind
    <3> QED
      BY <1>4, <1>7, <1>9, <3>1, <3>2 DEF a
  <2>3. g.pool["attribute"] = v.pool["attribute"]
    BY <1>1, <1>9 DEF Kind
  <2>4. CASE n \in Element
    <3>1. <<>> \in Seq(Name) /\ Len(<<>>) = 0
      OBVIOUS
    <3>2. g.attr = [h.attr EXCEPT ![n] = <<>>]
      BY <1>5, <1>8, <2>4
    <3>3. /\ IsFiniteSet(AttributeItems(g))
          /\ Cardinality(AttributeItems(g)) = Cardinality(AttributeItems(h)) - Len(h.attr[n]) + Len(<<>>)
      <4>1. IsFiniteSet(AttributeItems(h))
        BY <1>11 DEF Books
      <4> QED
        BY <2>4, <3>1, <3>2, <4>1, Relisted
    <3>4. Cardinality(AttributeItems(h)) \in Nat /\ Len(h.attr[n]) \in Nat
      <4>1. IsFiniteSet(AttributeItems(h))
        BY <1>11 DEF Books
      <4>2. h.attr[n] \in Seq(Name)
        BY <2>4 DEF Heap
      <4> QED
        BY <4>1, <4>2, FS_CardinalityType
    <3>5. g.pool["attribute"].current = Cardinality(AttributeItems(h)) - Len(h.attr[n])
      BY <1>5, <1>11, <2>3, <2>4 DEF Books
    <3>6. g.pool["attribute"].current = Cardinality(AttributeItems(g))
      BY <3>1, <3>3, <3>4, <3>5
    <3>7. \A e \in Element : Distinct(g.attr[e]) /\ (e \in Alive(g) \/ g.attr[e] = <<>>)
      <4>1. Distinct(<<>>)
        BY DEF Distinct
      <4>2. h.attr \in [Element -> Seq(Name)]
        BY DEF Heap
      <4>3. \A e \in Element : g.attr[e] = IF e = n THEN <<>> ELSE h.attr[e]
        BY <3>2, <4>2
      <4> QED
        BY <1>4, <1>11, <4>1, <4>3 DEF Books
    <3> QED
      BY <2>1, <2>2, <3>3, <3>6, <3>7 DEF Books
  <2>5. CASE n \notin Element
    <3>1. g.attr = h.attr /\ g.pool["attribute"].current = h.pool["attribute"].current
      BY <1>5, <1>8, <2>3, <2>5
    <3>2. AttributeItems(g) = AttributeItems(h)
      BY <3>1 DEF AttributeItems
    <3>3. \A e \in Element : Distinct(g.attr[e]) /\ (e \in Alive(g) \/ g.attr[e] = <<>>)
      BY <1>4, <1>11, <2>5, <3>1 DEF Books
    <3> QED
      BY <1>11, <2>1, <2>2, <3>1, <3>2, <3>3 DEF Books
  <2> QED
    BY <2>4, <2>5
<1> QED
  BY <1>10, <1>11 DEF g

\* The heap g is h without the nodes D, which are destroyed.
Without(g, h, D) ==
  /\ g \in Heap
  /\ g.crashed = h.crashed
  /\ \E kids : Laid(g, kids)
  /\ Grounded(g)
  /\ PoolsOK(g)
  /\ Alive(g) = Alive(h) \ D
  /\ \A m \in Parent : g.parent[m] = IF m \in D THEN Null ELSE h.parent[m]
  /\ \A m \in Parent : m \in D \/ (h.parent[m] = Null /\ h.next[m] = Null) => g.next[m] = Null
  /\ \A q \in Parent, r \in Seq(Node) : Chain(h, q, r) /\ (\A m \in D : h.parent[m] # q) => Chain(g, q, r)
  /\ Books(h) => Books(g)
  /\ \A p \in {"element", "leaf"} : g.pool[p].untracked = h.pool[p].untracked

(* Destroying one more node.                                               *)
LEMMA OneMoreGone ==
  ASSUME NEW h, NEW g, NEW D, Without(g, h, D), NEW n \in Alive(h), n \notin D
  PROVE  Without(Destroy(g, n), h, D \union {n})
<1> DEFINE k == Destroy(g, n)
<1>1. PICK kids : Laid(g, kids)
  BY DEF Without
<1>2. g \in Heap /\ Grounded(g) /\ PoolsOK(g) /\ n \in Alive(g)
  BY DEF Without
<1>3. /\ k \in Heap
      /\ k.parent = [g.parent EXCEPT ![n] = Null]
      /\ k.crashed = g.crashed
      /\ \E new : Laid(k, new)
      /\ Grounded(k)
      /\ PoolsOK(k)
      /\ Alive(k) = Alive(g) \ {n}
      /\ \A m \in Parent : m = n \/ (g.parent[m] = Null /\ g.next[m] = Null) => k.next[m] = Null
      /\ \A q \in Parent, r \in Seq(Node) : Chain(g, q, r) /\ g.parent[n] # q => Chain(k, q, r)
  BY <1>1, <1>2, Destroyed
<1>3a. /\ Books(g) => Books(k)
      /\ \A p \in {"element", "leaf"} : k.pool[p].untracked = g.pool[p].untracked
  BY <1>1, <1>2, DestroyedCounts
<1> HIDE DEF k
<1>4. ASSUME NEW m \in Parent
      PROVE  k.parent[m] = IF m \in D \union {n} THEN Null ELSE h.parent[m]
  <2>1. g.parent \in [Parent -> Parent \union {Null}]
    BY <1>2 DEF Heap
  <2>2. g.parent[m] = IF m \in D THEN Null ELSE h.parent[m]
    BY DEF Without
  <2> QED
    BY <1>3, <2>1, <2>2
<1>5. ASSUME NEW m \in Parent, m \in D \union {n} \/ (h.parent[m] = Null /\ h.next[m] = Null)
      PROVE  k.next[m] = Null
  <2>1. CASE m = n
    BY <1>3, <2>1
  <2>2. CASE m # n
    <3>1. g.parent[m] = Null /\ g.next[m] = Null
      BY <1>5, <2>2 DEF Without
    <3> QED
      BY <1>3, <3>1
  <2> QED
    BY <2>1, <2>2
<1>6. Alive(k) = Alive(h) \ (D \union {n})
  BY <1>3 DEF Without
<1>7. k.crashed = h.crashed
  BY <1>3 DEF Without
<1>8. /\ Books(h) => Books(k)
      /\ \A p \in {"element", "leaf"} : k.pool[p].untracked = h.pool[p].untracked
  BY <1>3a DEF Without
<1>9. ASSUME NEW q \in Parent, NEW r \in Seq(Node), Chain(h, q, r), \A m \in D \union {n} : h.parent[m] # q
      PROVE  Chain(k, q, r)
  <2>1. g.parent[n] # q
    BY <1>9 DEF Without, Alive, Parent
  <2>2. Chain(g, q, r)
    BY <1>9 DEF Without
  <2> QED
    BY <1>3, <2>1, <2>2
<1> QED
  BY <1>3, <1>4, <1>5, <1>6, <1>7, <1>8, <1>9 DEF Without, k

\* g tells the heaps up to the k-th destruction.
Destroying(g, h, s, k) == \A i \in 0 .. k : g[i] = IF i = 0 THEN h ELSE Destroy(g[i - 1], s[i])

(* There is a sequence of heaps that tells every destruction of a list.    *)
LEMMA SomeDestroying ==
  ASSUME NEW h, NEW s \in Seq(Node)
  PROVE  \E f : f = [i \in 0 .. Len(s) |-> IF i = 0 THEN h ELSE Destroy(f[i - 1], s[i])]
<1> DEFINE n == Len(s)
           wrong == {k \in 0 .. n : ~ \E g : Destroying(g, h, s, k)}
<1>1. n \in Nat
  OBVIOUS
<1> HIDE DEF n
<1>2. wrong = {}
  <2> SUFFICES ASSUME wrong # {} PROVE FALSE
    OBVIOUS
  <2>1. wrong \in SUBSET Nat
    OBVIOUS
  <2>2. PICK k \in wrong : \A l \in wrong : k <= l
    BY <2>1, LeastOfNat
  <2>3. k \in 0 .. n /\ ~ \E g : Destroying(g, h, s, k)
    OBVIOUS
  <2>4. CASE k = 0
    <3> DEFINE g == [i \in {0} |-> h]
    <3>1. g[0] = h
      OBVIOUS
    <3> HIDE DEF g
    <3>2. Destroying(g, h, s, 0)
      BY <3>1 DEF Destroying
    <3> QED
      BY <2>3, <2>4, <3>2
  <2>5. CASE k # 0
    <3>1. k - 1 \in 0 .. n /\ ~(k <= k - 1)
      BY <1>1, <2>3, <2>5
    <3>2. k - 1 \notin wrong
      <4> HIDE DEF wrong
      <4> QED
        BY <2>2, <3>1
    <3>3. PICK g : Destroying(g, h, s, k - 1)
      BY <3>1, <3>2
    <3> DEFINE x == Destroy(g[k - 1], s[k])
               f == [i \in 0 .. k |-> IF i = k THEN x ELSE g[i]]
    <3> HIDE DEF x
    <3>4. f[k] = x /\ \A i \in 0 .. k - 1 : f[i] = g[i]
      BY <1>1, <2>3
    <3> HIDE DEF f
    <3>5. ASSUME NEW i \in 0 .. k PROVE f[i] = IF i = 0 THEN h ELSE Destroy(f[i - 1], s[i])
      <4>1. CASE i = k
        <5>1. f[k - 1] = g[k - 1]
          BY <1>1, <2>3, <2>5, <3>4
        <5> QED
          BY <2>5, <3>4, <4>1, <5>1 DEF x
      <4>2. CASE i # k
        <5>1. i \in 0 .. k - 1 /\ (i # 0 => i - 1 \in 0 .. k - 1)
          BY <1>1, <2>3, <4>2
        <5>2. f[i] = g[i] /\ (i # 0 => f[i - 1] = g[i - 1])
          BY <3>4, <5>1
        <5> QED
          BY <3>3, <5>1, <5>2 DEF Destroying
      <4> QED
        BY <4>1, <4>2
    <3>6. Destroying(f, h, s, k)
      BY <3>5 DEF Destroying
    <3> QED
      BY <2>3, <3>6
  <2> QED
    BY <2>4, <2>5
<1>3. PICK g : Destroying(g, h, s, n)
  <2>1. n \in 0 .. n
    BY <1>1
  <2> QED
    BY <1>2, <2>1
<1> DEFINE f == [i \in 0 .. n |-> g[i]]
<1>4. ASSUME NEW i \in 0 .. n PROVE f[i] = IF i = 0 THEN h ELSE Destroy(f[i - 1], s[i])
  <2>1. i # 0 => i - 1 \in 0 .. n
    BY <1>1
  <2>2. f[i] = g[i] /\ (i # 0 => f[i - 1] = g[i - 1])
    BY <2>1
  <2> HIDE DEF f
  <2> QED
    BY <1>3, <2>2 DEF Destroying
<1>5. f = [i \in 0 .. n |-> f[i]]
  OBVIOUS
<1> HIDE DEF f
<1>6. f = [i \in 0 .. n |-> IF i = 0 THEN h ELSE Destroy(f[i - 1], s[i])]
  BY <1>4, <1>5
<1> QED
  BY <1>6 DEF n

(* Destroying nodes in use, one after the other. *)
LEMMA AllGone ==
  ASSUME NEW h \in Heap, NEW kids, Laid(h, kids), Grounded(h), PoolsOK(h),
         NEW s \in Seq(Node), Distinct(s), Items(s) \subseteq Alive(h)
  PROVE  Without(DestroyAll(h, s), h, Items(s))
<1> DEFINE n == Len(s)
           f == CHOOSE g : g = [i \in 0 .. Len(s) |-> IF i = 0 THEN h ELSE Destroy(g[i - 1], s[i])]
           so_far(k) == {s[i] : i \in 1 .. k}
           wrong == {k \in 0 .. n : ~Without(f[k], h, so_far(k))}
<1>1. DestroyAll(h, s) = f[n]
  BY DEF DestroyAll
<1>2. f = [i \in 0 .. n |-> IF i = 0 THEN h ELSE Destroy(f[i - 1], s[i])]
  BY SomeDestroying
<1> HIDE DEF f
<1>3. n \in Nat
  OBVIOUS
<1>4. f[0] = h /\ \A i \in 1 .. n : f[i] = Destroy(f[i - 1], s[i])
  <2> HIDE DEF n
  <2>1. 0 \in 0 .. n /\ \A i \in 1 .. n : i \in 0 .. n /\ i # 0
    BY <1>3
  <2> QED
    BY <1>2, <2>1
<1>5. Without(h, h, {})
  BY DEF Without
<1> HIDE DEF n
<1>6. wrong = {}
  <2> SUFFICES ASSUME wrong # {} PROVE FALSE
    OBVIOUS
  <2>1. wrong \in SUBSET Nat
    OBVIOUS
  <2>2. PICK k \in wrong : \A l \in wrong : k <= l
    BY <2>1, LeastOfNat
  <2>3. k \in 0 .. n /\ ~Without(f[k], h, so_far(k))
    OBVIOUS
  <2>4. CASE k = 0
    <3>1. so_far(0) = {}
      OBVIOUS
    <3> HIDE DEF so_far
    <3> QED
      BY <1>4, <1>5, <2>3, <2>4, <3>1
  <2>5. CASE k # 0
    <3>1. k - 1 \in 0 .. n /\ ~(k <= k - 1) /\ k \in 1 .. n
      BY <1>3, <2>3, <2>5
    <3>2. k - 1 \notin wrong
      <4> HIDE DEF wrong
      <4> QED
        BY <2>2, <3>1
    <3>3. Without(f[k - 1], h, so_far(k - 1))
      <4> HIDE DEF so_far
      <4> QED
        BY <3>1, <3>2
    <3>4. s[k] \in Alive(h)
      BY <3>1 DEF Items, n
    <3>5. s[k] \notin so_far(k - 1)
      <4>1. \A i \in 1 .. k - 1 : i \in 1 .. n /\ i # k
        BY <1>3, <3>1
      <4>2. \A i \in 1 .. k - 1 : s[i] # s[k]
        BY <3>1, <4>1 DEF Distinct, n
      <4> QED
        BY <4>2
    <3>6. so_far(k) = so_far(k - 1) \union {s[k]}
      <4>1. \A i : i \in 1 .. k <=> i \in 1 .. k - 1 \/ i = k
        BY <1>3, <3>1
      <4> QED
        BY <4>1
    <3> HIDE DEF so_far
    <3>7. Without(Destroy(f[k - 1], s[k]), h, so_far(k - 1) \union {s[k]})
      BY <3>3, <3>4, <3>5, OneMoreGone
    <3> QED
      BY <1>4, <2>3, <3>1, <3>6, <3>7
  <2> QED
    BY <2>4, <2>5
<1>7. Without(f[n], h, so_far(n))
  <2>1. n \in 0 .. n
    BY <1>3
  <2> HIDE DEF so_far
  <2> QED
    BY <1>6, <2>1
<1>8. so_far(n) = Items(s)
  BY DEF Items, n
<1> QED
  BY <1>1, <1>7, <1>8

-----------------------------------------------------------------------------
(* The invariant. *)

\* What hangs is in use, and hangs on what is in use.
Housed(h) ==
  \A n \in Parent : h.parent[n] # Null => n \in Alive(h) /\ h.parent[n] \in Alive(h) \union {Doc}

\* What every step keeps, also between the calls that an operation makes.
Sound(h) ==
  /\ h \in Heap
  /\ ~h.crashed
  /\ \E kids : Laid(h, kids)
  /\ Grounded(h)
  /\ PoolsOK(h)
  /\ Housed(h)

\* What every operation keeps: besides, what hangs nowhere has no sibling.
TreeInv(h) == Sound(h) /\ LooseEnds(h)

(* Destroying nodes with all that hangs below them. *)
LEMMA Pruned ==
  ASSUME NEW h, Sound(h), NEW s \in Seq(Node), Distinct(s), Items(s) \subseteq Alive(h),
         \A m \in Node : h.parent[m] \in Items(s) => m \in Items(s),
         \A m \in Parent : m \notin Items(s) /\ h.parent[m] = Null => h.next[m] = Null
  PROVE  TreeInv(DestroyAll(h, s)) /\ Alive(DestroyAll(h, s)) = Alive(h) \ Items(s)
<1> DEFINE g == DestroyAll(h, s)
<1>1. PICK kids : Laid(h, kids)
  BY DEF Sound
<1>2. Without(g, h, Items(s))
  BY <1>1, AllGone DEF Sound
<1> HIDE DEF g
<1>3. ASSUME NEW m \in Parent, g.parent[m] # Null
      PROVE  m \in Alive(g) /\ g.parent[m] \in Alive(g) \union {Doc}
  <2>1. m \notin Items(s) /\ g.parent[m] = h.parent[m] /\ h.parent[m] # Null
    BY <1>2, <1>3 DEF Without
  <2>2. m \in Node
    BY <1>1, <2>1, Pointed DEF Sound
  <2>3. h.parent[m] \notin Items(s)
    BY <2>1, <2>2
  <2>4. m \in Alive(h) /\ h.parent[m] \in Alive(h) \union {Doc}
    BY <2>1 DEF Sound, Housed
  <2> QED
    BY <1>2, <2>1, <2>3, <2>4 DEF Without
<1>4. LooseEnds(g)
  BY <1>2 DEF Without, LooseEnds
<1>5. Housed(g)
  BY <1>3 DEF Housed
<1>6. ~g.crashed
  BY <1>2 DEF Without, Sound
<1> QED
  BY <1>2, <1>4, <1>5, <1>6 DEF TreeInv, Sound, Without, g

\* The lists, those below C emptied.
Cleared(kids, C) == [q \in Parent |-> IF q \in C THEN <<>> ELSE kids[q]]

(* Where all that hangs below C is destroyed, and nothing that hangs elsewhere, *)
(* only the lists below C change.                                          *)
LEMMA PrunedLists ==
  ASSUME NEW h, Sound(h), NEW kids, Laid(h, kids),
         NEW s \in Seq(Node), Distinct(s), Items(s) \subseteq Alive(h), NEW C,
         \A m \in Node : m \in Items(s) => h.parent[m] \in C \union {Null},
         \A m \in Node : m \notin Items(s) => h.parent[m] \notin C
  PROVE  Laid(DestroyAll(h, s), Cleared(kids, C))
<1> DEFINE g == DestroyAll(h, s)
           new == Cleared(kids, C)
<1>1. Without(g, h, Items(s))
  BY AllGone DEF Sound
<1> HIDE DEF g
<1>2. PICK some : Laid(g, some)
  BY <1>1 DEF Without
<1>3. /\ \A q \in Parent : q # Null /\ kids[q] \in Seq(Node) /\ Chain(h, q, kids[q])
      /\ new \in [Parent -> Seq(Node)]
      /\ \A q \in Parent : new[q] = IF q \in C THEN <<>> ELSE kids[q]
  <2>1. <<>> \in Seq(Node)
    OBVIOUS
  <2> QED
    BY <2>1, HeapAssumption DEF Laid, Cleared, Parent
<1>4. \A m \in Items(s) : m \in Node
  BY DEF Items
<1>5. \A m \in Parent : g.parent[m] = IF m \in Items(s) THEN Null ELSE h.parent[m]
  BY <1>1 DEF Without
<1> HIDE DEF new
<1>6. ASSUME NEW q \in Parent PROVE Chain(g, q, new[q])
  <2>1. CASE q \in C
    <3>1. some[q] \in Seq(Node) /\ Chain(g, q, some[q])
      BY <1>2 DEF Laid
    <3>2. ASSUME NEW i \in 1 .. Len(some[q]) PROVE FALSE
      <4>1. some[q][i] \in Node /\ some[q][i] \in Parent /\ g.parent[some[q][i]] = q
        BY <3>1 DEF Chain, Parent
      <4> QED
        BY <1>3, <1>5, <2>1, <4>1
    <3>3. some[q] = <<>>
      BY <3>1, <3>2
    <3> QED
      BY <1>3, <2>1, <3>1, <3>3
  <2>2. CASE q \notin C
    <3>1. \A m \in Items(s) : h.parent[m] # q
      BY <1>3, <1>4, <2>2
    <3>2. Chain(g, q, kids[q])
      BY <1>1, <1>3, <3>1 DEF Without
    <3> QED
      BY <1>3, <2>2, <3>2
  <2> QED
    BY <2>1, <2>2
<1>7. ASSUME NEW m \in Parent, g.parent[m] # Null
      PROVE  \E i \in 1 .. Len(new[g.parent[m]]) : new[g.parent[m]][i] = m
  <2>1. m \notin Items(s) /\ g.parent[m] = h.parent[m] /\ h.parent[m] # Null
    BY <1>5, <1>7
  <2>2. m \in Node /\ h.parent[m] \in Parent
    BY <2>1, Pointed DEF Sound, Heap
  <2>3. new[g.parent[m]] = kids[h.parent[m]]
    BY <1>3, <2>1, <2>2
  <2> QED
    BY <2>1, <2>3 DEF Laid
<1> QED
  BY <1>3, <1>6, <1>7 DEF Laid, g, new

(* What hangs below p is in use. *)
LEMMA BelowAlive ==
  ASSUME NEW h, Sound(h), NEW p \in Parent
  PROVE  /\ Below(h, p) \in Seq(Node)
         /\ Distinct(Below(h, p))
         /\ p \notin Items(Below(h, p))
         /\ \A m \in Node : m \in Items(Below(h, p)) <=> h.parent[m] \in Items(Below(h, p)) \union {p}
         /\ Items(Below(h, p)) \subseteq Alive(h)
<1>1. PICK kids : Laid(h, kids)
  BY DEF Sound
<1> DEFINE s == Below(h, p)
<1>2. /\ s \in Seq(Node)
      /\ Distinct(s)
      /\ p \notin Items(s)
      /\ \A m \in Node : m \in Items(s) <=> h.parent[m] \in Items(s) \union {p}
  BY <1>1, BelowFacts DEF Sound
<1> HIDE DEF s
<1>3. \A m \in Items(s) : m \in Node
  BY <1>2 DEF Items
<1>4. ASSUME NEW m \in Items(s) PROVE m \in Alive(h)
  <2>1. m \in Parent /\ h.parent[m] # Null
    BY <1>2, <1>3, HeapAssumption DEF Parent
  <2> QED
    BY <2>1 DEF Sound, Housed
<1> QED
  BY <1>2, <1>4 DEF s

(* XMLNode::DeleteChildren keeps the invariant, and empties the lists of p  *)
(* and of all that hangs below it.                                         *)
LEMMA DeleteChildrenKeeps ==
  ASSUME NEW h, TreeInv(h), NEW p \in Parent
  PROVE  /\ TreeInv(DeleteChildren(h, p))
         /\ Alive(DeleteChildren(h, p)) = Alive(h) \ Items(Below(h, p))
         /\ \A kids : Laid(h, kids) =>
              Laid(DeleteChildren(h, p), Cleared(kids, Items(Below(h, p)) \union {p}))
<1> DEFINE s == Below(h, p)
<1>1. /\ s \in Seq(Node) /\ Distinct(s) /\ Items(s) \subseteq Alive(h)
      /\ \A m \in Node : m \in Items(s) <=> h.parent[m] \in Items(s) \union {p}
  BY BelowAlive DEF TreeInv
<1> HIDE DEF s
<1>2. \A m \in Parent : m \notin Items(s) /\ h.parent[m] = Null => h.next[m] = Null
  BY DEF TreeInv, LooseEnds
<1>3. TreeInv(DestroyAll(h, s)) /\ Alive(DestroyAll(h, s)) = Alive(h) \ Items(s)
  BY <1>1, <1>2, Pruned DEF TreeInv
<1>4. ASSUME NEW kids, Laid(h, kids) PROVE Laid(DestroyAll(h, s), Cleared(kids, Items(s) \union {p}))
  <2> DEFINE C == Items(s) \union {p}
  <2>1. \A m \in Node : m \in Items(s) <=> h.parent[m] \in C
    BY <1>1
  <2> HIDE DEF C
  <2>2. Laid(DestroyAll(h, s), Cleared(kids, C))
    BY <1>1, <1>4, <2>1, PrunedLists DEF TreeInv
  <2> QED
    BY <2>2 DEF C
<1> QED
  BY <1>3, <1>4 DEF DeleteChildren, s

(* A node put behind a list that it is not in.                             *)
LEMMA BehindAll ==
  ASSUME NEW b \in Seq(Node), Distinct(b), NEW n \in Node, n \notin Items(b)
  PROVE  /\ Append(b, n) \in Seq(Node)
         /\ Distinct(Append(b, n))
         /\ Items(Append(b, n)) = Items(b) \union {n}
<1> DEFINE s == Append(b, n)
<1>1. /\ s \in Seq(Node) /\ Len(s) = Len(b) + 1 /\ s[Len(b) + 1] = n /\ Len(b) \in Nat
      /\ \A i \in 1 .. Len(b) : s[i] = b[i]
  OBVIOUS
<1> HIDE DEF s
<1>2. \A i : i \in 1 .. Len(s) <=> i \in 1 .. Len(b) \/ i = Len(b) + 1
  BY <1>1
<1>3. Items(s) = Items(b) \union {n}
  BY <1>1, <1>2 DEF Items
<1>4. Distinct(s)
  <2> SUFFICES ASSUME NEW i \in 1 .. Len(s), NEW j \in 1 .. Len(s), s[i] = s[j] PROVE i = j
    BY DEF Distinct
  <2>1. \A k \in 1 .. Len(b) : b[k] \in Items(b)
    BY DEF Items
  <2>2. (i \in 1 .. Len(b) \/ i = Len(b) + 1) /\ (j \in 1 .. Len(b) \/ j = Len(b) + 1)
    BY <1>2
  <2> QED
    BY <1>1, <2>1, <2>2 DEF Distinct
<1> QED
  BY <1>1, <1>3, <1>4 DEF s

(* So does XMLNode::DeleteNode of a node that has been unlinked.           *)
LEMMA DeleteNodeKeeps ==
  ASSUME NEW h, Sound(h), NEW n \in Alive(h), h.parent[n] = Null,
         \A m \in Parent : m # n /\ h.parent[m] = Null => h.next[m] = Null
  PROVE  /\ TreeInv(DeleteNode(h, n))
         /\ Alive(DeleteNode(h, n)) = Alive(h) \ (Items(Below(h, n)) \union {n})
         /\ \A kids : Laid(h, kids) =>
              Laid(DeleteNode(h, n), Cleared(kids, Items(Below(h, n)) \union {n}))
<1> DEFINE b == Below(h, n)
           s == Append(b, n)
<1>1. n \in Node /\ n \in Parent
  BY DEF Alive, Parent
<1>2. /\ b \in Seq(Node) /\ Distinct(b) /\ n \notin Items(b) /\ Items(b) \subseteq Alive(h)
      /\ \A m \in Node : m \in Items(b) <=> h.parent[m] \in Items(b) \union {n}
  BY <1>1, BelowAlive
<1> HIDE DEF b
<1>3. s \in Seq(Node) /\ Distinct(s) /\ Items(s) = Items(b) \union {n}
  BY <1>1, <1>2, BehindAll
<1> HIDE DEF s
<1>4. TreeInv(DestroyAll(h, s)) /\ Alive(DestroyAll(h, s)) = Alive(h) \ Items(s)
  <2>1. Items(s) \subseteq Alive(h) /\ \A m \in Node : h.parent[m] \in Items(s) => m \in Items(s)
    BY <1>2, <1>3
  <2>2. \A m \in Parent : m \notin Items(s) /\ h.parent[m] = Null => h.next[m] = Null
    BY <1>3
  <2> QED
    BY <1>3, <2>1, <2>2, Pruned
<1>5. ASSUME NEW kids, Laid(h, kids) PROVE Laid(DestroyAll(h, s), Cleared(kids, Items(s)))
  <2>1. Items(s) \subseteq Alive(h) /\ \A m \in Node : m \in Items(s) <=> h.parent[m] \in Items(s) \/ m = n
    BY <1>2, <1>3
  <2>2. /\ \A m \in Node : m \notin Items(s) => h.parent[m] \notin Items(s)
        /\ \A m \in Node : m \in Items(s) => h.parent[m] \in Items(s) \union {Null}
    BY <2>1
  <2> QED
    BY <1>3, <1>5, <2>1, <2>2, PrunedLists
<1>6. DeleteNode(h, n) = DestroyAll(h, s)
  BY DEF DeleteNode, PostOrder, s, b
<1> QED
  BY <1>3, <1>4, <1>5, <1>6 DEF b

-----------------------------------------------------------------------------
(* What only counts, or only names. *)

\* The pools hand out the same items.
SamePools(g, h) ==
  \A p \in {"element", "leaf"} : /\ g.pool[p].root = h.pool[p].root
                                 /\ g.pool[p].blocks = h.pool[p].blocks

\* No pointer between nodes differs.
SamePointers(g, h) ==
  /\ g.parent = h.parent /\ g.first = h.first /\ g.last = h.last
  /\ g.prev = h.prev /\ g.next = h.next

(* What is in use is a matter of the free lists alone.                     *)
LEMMA SamePoolsSame ==
  ASSUME NEW h \in Heap, NEW g \in Heap, SamePools(g, h)
  PROVE  Alive(g) = Alive(h) /\ (PoolsOK(h) => PoolsOK(g))
<1>1. \A n : PoolOf(n) \in {"element", "leaf"}
  BY DEF PoolOf
<1>2. Alive(g) = Alive(h)
  BY <1>1 DEF Alive, FreeItems, SamePools
<1>3. PoolsOK(h) => PoolsOK(g)
  BY DEF PoolsOK, PoolOK, SamePools
<1> QED
  BY <1>2, <1>3

(* The same pointers lay out the same lists.                               *)
LEMMA SameLists ==
  ASSUME NEW h, NEW g, SamePointers(g, h), NEW kids, Laid(h, kids)
  PROVE  Laid(g, kids)
BY DEF Laid, Chain, SamePointers

(* A heap that differs in counters and names only is as sound.             *)
LEMMA SameTree ==
  ASSUME NEW h, Sound(h), NEW g \in Heap, SamePools(g, h), SamePointers(g, h), g.crashed = h.crashed
  PROVE  /\ Sound(g)
         /\ Alive(g) = Alive(h)
         /\ LooseEnds(h) => LooseEnds(g)
<1>1. h \in Heap /\ ~h.crashed /\ Grounded(h) /\ PoolsOK(h) /\ Housed(h)
  BY DEF Sound
<1>2. Alive(g) = Alive(h) /\ PoolsOK(g)
  BY <1>1, SamePoolsSame
<1>3. PICK kids : Laid(h, kids)
  BY DEF Sound
<1>4. Laid(g, kids)
  BY <1>3, SameLists
<1>5. Grounded(g)
  BY <1>1 DEF Grounded, SamePointers
<1>6. Housed(g)
  BY <1>1, <1>2 DEF Housed, SamePointers
<1>7. LooseEnds(h) => LooseEnds(g)
  BY DEF LooseEnds, SamePointers
<1> QED
  BY <1>1, <1>2, <1>4, <1>5, <1>6, <1>7 DEF Sound

(* Giving a heap another pool. *)
LEMMA NewPools ==
  ASSUME NEW h \in Heap, NEW k \in Kind, NEW b \in Pool
  PROVE  /\ [h EXCEPT !.pool[k] = b] \in Heap
         /\ SamePointers([h EXCEPT !.pool[k] = b], h)
         /\ [h EXCEPT !.pool[k] = b].crashed = h.crashed
         /\ \A p \in Kind : [h EXCEPT !.pool[k] = b].pool[p] = IF p = k THEN b ELSE h.pool[p]
         /\ [h EXCEPT !.pool[k] = b].attr = h.attr
<1> DEFINE po == [h.pool EXCEPT ![k] = b]
           g == [h EXCEPT !.pool = po]
<1>1. [h EXCEPT !.pool[k] = b] = g
  OBVIOUS
<1>2. po \in [Kind -> Pool] /\ \A p \in Kind : po[p] = IF p = k THEN b ELSE h.pool[p]
  BY DEF Heap
<1> HIDE DEF po
<1>3. g \in Heap /\ SamePointers(g, h) /\ g.crashed = h.crashed /\ g.pool = po /\ g.attr = h.attr
  BY <1>2 DEF Heap, SamePointers
<1> HIDE DEF g
<1> QED
  BY <1>1, <1>2, <1>3

(* Counting a node as tracked changes nothing else (MemPoolT::SetTracked). *)
LEMMA Tracked ==
  ASSUME NEW h, Sound(h), NEW n \in Node
  PROVE  /\ Sound(Track(h, n))
         /\ Alive(Track(h, n)) = Alive(h)
         /\ SamePointers(Track(h, n), h)
         /\ Track(h, n).attr = h.attr
         /\ \A p \in Kind : Track(h, n).pool[p].current = h.pool[p].current
         /\ \A p \in {"element", "leaf"} :
              Track(h, n).pool[p].untracked =
                IF p = PoolOf(n) THEN h.pool[p].untracked - 1 ELSE h.pool[p].untracked
<1> DEFINE k == PoolOf(n)
           a == h.pool[k]
           d == a.untracked - 1
           b == [a EXCEPT !.untracked = d]
           g == [h EXCEPT !.pool[k] = b]
<1>1. Track(h, n) = g
  BY DEF Track, SetTracked
<1>2. h \in Heap /\ k \in Kind /\ k \in {"element", "leaf"}
  BY DEF Sound, PoolOf, Kind
<1>3. a \in Pool
  BY <1>2 DEF Heap
<1> HIDE DEF a, k
<1>4. a.untracked \in Int /\ d \in Int
  BY <1>3 DEF Pool
<1> HIDE DEF d
<1>5. /\ b \in Pool /\ b.root = a.root /\ b.blocks = a.blocks
      /\ b.current = a.current /\ b.untracked = d
  <2>1. b \in Pool /\ b.current = a.current /\ b.untracked = d
    BY <1>3, <1>4, Counted
  <2>2. b.root = a.root /\ b.blocks = a.blocks
    BY <1>3 DEF Pool
  <2> QED
    BY <2>1, <2>2
<1> HIDE DEF b
<1>6. /\ g \in Heap /\ SamePointers(g, h) /\ g.crashed = h.crashed /\ g.attr = h.attr
      /\ \A p \in Kind : g.pool[p] = IF p = k THEN b ELSE h.pool[p]
  BY <1>2, <1>5, NewPools
<1> HIDE DEF g
<1>7. SamePools(g, h)
  BY <1>5, <1>6 DEF SamePools, Kind, a
<1>8. /\ \A p \in Kind : g.pool[p].current = h.pool[p].current
      /\ \A p \in {"element", "leaf"} :
           g.pool[p].untracked = IF p = k THEN h.pool[p].untracked - 1 ELSE h.pool[p].untracked
  BY <1>5, <1>6 DEF Kind, a, d
<1> QED
  BY <1>1, <1>6, <1>7, <1>8, SameTree DEF k

(* Taking a new node out of its pool. *)
LEMMA NewNodeKeeps ==
  ASSUME NEW h, TreeInv(h), NEW p \in {"element", "leaf"}, CanAllocate(h, p)
  PROVE  /\ TreeInv(NewNode(h, p))
         /\ NewAddress(h, p) \in Alive(NewNode(h, p)) \ Alive(h)
         /\ Alive(h) \subseteq Alive(NewNode(h, p))
         /\ SamePointers(NewNode(h, p), h)
         /\ Alive(NewNode(h, p)) = Alive(h) \union {NewAddress(h, p)}
         /\ PoolOf(NewAddress(h, p)) = p
         /\ NewNode(h, p).attr = h.attr
         /\ \A k \in Kind : NewNode(h, p).pool[k] =
                              IF k = p THEN Alloc(h.pool[p], SourceOf(p)) ELSE h.pool[k]
<1> DEFINE source == SourceOf(p)
           a == h.pool[p]
           b == Alloc(a, source)
           x == Head(Free(a, source))
           g == [h EXCEPT !.pool[p] = b]
<1>1. NewNode(h, p) = g /\ NewAddress(h, p) = x
  BY DEF NewNode, NewAddress
<1>2. h \in Heap /\ p \in Kind /\ PoolsOK(h)
  BY DEF TreeInv, Sound, Kind
<1>3. a \in Pool /\ PoolOK(a, source) /\ HasRoom(a, source)
  BY <1>2 DEF Heap, PoolsOK, CanAllocate, SourceOf
<1> DEFINE own == IF p = "element" THEN Element ELSE Leaf
<1>4. own \subseteq Node /\ source \in Seq(Seq(own)) /\ Apart(source)
  BY HeapAssumption DEF SourceOf, Node
<1> HIDE DEF a, source, own
<1>5. /\ b \in Pool
      /\ PoolOK(b, source)
      /\ x \in Node
      /\ IsFree(x, a, source)
      /\ \E c \in 1 .. Len(source) : InBlock(x, source, c)
      /\ \A y : IsFree(y, b, source) <=> y # x /\ IsFree(y, a, source)
  BY <1>3, <1>4, AllocOK
<1> HIDE DEF b, x
<1>6. /\ g \in Heap /\ SamePointers(g, h) /\ g.crashed = h.crashed /\ g.attr = h.attr
      /\ \A k \in Kind : g.pool[k] = IF k = p THEN b ELSE h.pool[k]
  BY <1>2, <1>5, NewPools
<1> HIDE DEF g
<1>7. PoolOf(x) = p
  <2>1. PICK c \in 1 .. Len(source) : InBlock(x, source, c)
    BY <1>5
  <2>2. source[c] \in Seq(own)
    BY <1>4
  <2>3. x \in own
    BY <2>1, <2>2 DEF InBlock
  <2> QED
    BY <2>3, HeapAssumption DEF own, PoolOf
<1>8. ASSUME NEW m \in Node PROVE m \in FreeItems(g, PoolOf(m)) <=> m # x /\ m \in FreeItems(h, PoolOf(m))
  <2>1. PoolOf(m) \in {"element", "leaf"} /\ PoolOf(m) \in Kind
    BY DEF PoolOf, Kind
  <2>2. /\ m \in FreeItems(g, PoolOf(m)) <=> IsFree(m, g.pool[PoolOf(m)], SourceOf(PoolOf(m)))
        /\ m \in FreeItems(h, PoolOf(m)) <=> IsFree(m, h.pool[PoolOf(m)], SourceOf(PoolOf(m)))
    BY <1>2, <1>6, <2>1, FreeMeans
  <2>3. CASE PoolOf(m) = p
    BY <1>5, <1>6, <2>1, <2>2, <2>3 DEF source, a
  <2>4. CASE PoolOf(m) # p
    BY <1>6, <1>7, <2>1, <2>2, <2>4
  <2> QED
    BY <2>3, <2>4
<1>9. Alive(h) \subseteq Alive(g) /\ x \in Alive(g) /\ Alive(g) = Alive(h) \union {x}
  BY <1>5, <1>8 DEF Alive
<1>10. x \notin Alive(h)
  <2>1. x \in FreeItems(h, PoolOf(x))
    BY <1>2, <1>5, <1>7, FreeMeans DEF a, source
  <2> QED
    BY <2>1 DEF Alive
<1>11. PoolsOK(g)
  <2>1. \A k \in {"element", "leaf"} : PoolOK(h.pool[k], SourceOf(k))
    BY <1>2 DEF PoolsOK, SourceOf
  <2>2. \A k \in {"element", "leaf"} : PoolOK(g.pool[k], SourceOf(k))
    BY <1>5, <1>6, <2>1 DEF source, Kind
  <2> QED
    BY <2>2 DEF PoolsOK, SourceOf
<1>12. PICK kids : Laid(h, kids)
  BY DEF TreeInv, Sound
<1>13. Laid(g, kids)
  BY <1>6, <1>12 DEF Laid, Chain, SamePointers
<1>14. Grounded(g)
  BY <1>6 DEF TreeInv, Sound, Grounded, SamePointers
<1>15. Housed(g)
  BY <1>6, <1>9 DEF TreeInv, Sound, Housed, SamePointers
<1>16. LooseEnds(g)
  BY <1>6 DEF TreeInv, LooseEnds, SamePointers
<1>17. TreeInv(g)
  BY <1>6, <1>11, <1>13, <1>14, <1>15, <1>16 DEF TreeInv, Sound
<1> QED
  BY <1>1, <1>6, <1>7, <1>9, <1>10, <1>17 DEF a, b, source

\* A heap with another list for an element, and another count of their pool.
WithAttributes(h, e, s, d) == [h EXCEPT !.attr[e] = s, !.pool["attribute"].current = d]

\* No node is made, moved or destroyed between h and k.
Unmoved(k, h) == TreeInv(k) /\ Alive(k) = Alive(h) /\ SamePointers(k, h)

(* The attributes of an element are reached from nowhere else. *)
LEMMA NewAttributes ==
  ASSUME NEW h, TreeInv(h), NEW e \in Element, NEW s \in Seq(Name), NEW d \in Int
  PROVE  LET k == WithAttributes(h, e, s, d)
         IN /\ Unmoved(k, h)
            /\ k.attr = [h.attr EXCEPT ![e] = s]
            /\ k.pool["attribute"].current = d
            /\ k.pool["element"] = h.pool["element"] /\ k.pool["leaf"] = h.pool["leaf"]
<1> DEFINE a == h.pool["attribute"]
           b == [a EXCEPT !.current = d]
           g == [h EXCEPT !.pool["attribute"] = b]
           at == [h.attr EXCEPT ![e] = s]
           k == [g EXCEPT !.attr = at]
<1>1. h \in Heap /\ "attribute" \in Kind
  BY DEF TreeInv, Sound, Kind
<1>2. WithAttributes(h, e, s, d) = k
  BY <1>1 DEF WithAttributes, Heap
<1>3. a \in Pool
  BY <1>1 DEF Heap
<1> HIDE DEF a
<1>4. b \in Pool /\ b.current = d
  BY <1>3, Counted
<1> HIDE DEF b
<1>5. /\ g \in Heap /\ SamePointers(g, h) /\ g.crashed = h.crashed /\ g.attr = h.attr
      /\ \A p \in Kind : g.pool[p] = IF p = "attribute" THEN b ELSE h.pool[p]
  BY <1>1, <1>4, NewPools
<1> HIDE DEF g
<1>6. at \in [Element -> Seq(Name)]
  BY <1>1 DEF Heap
<1> HIDE DEF at
<1>7. k \in Heap /\ SamePointers(k, h) /\ k.crashed = h.crashed /\ k.pool = g.pool /\ k.attr = at
  BY <1>5, <1>6 DEF Heap, SamePointers
<1> HIDE DEF k
<1>8. SamePools(k, h)
  BY <1>5, <1>7 DEF SamePools, Kind
<1>9. TreeInv(k) /\ Alive(k) = Alive(h)
  BY <1>7, <1>8, SameTree DEF TreeInv
<1>10. /\ k.pool["attribute"].current = d
       /\ k.pool["element"] = h.pool["element"] /\ k.pool["leaf"] = h.pool["leaf"]
  BY <1>4, <1>5, <1>7 DEF Kind
<1> QED
  BY <1>2, <1>7, <1>9, <1>10 DEF at, Unmoved

-----------------------------------------------------------------------------
(* The lists of children as the header's readers see them. *)

(* RemoveFirst takes one item out. *)
LEMMA RemoveFirstIs ==
  ASSUME NEW S, NEW s \in Seq(S), NEW a \in ToSet(s)
  PROVE  \E k \in 1 .. Len(s) : s[k] = a /\ RemoveFirst(s, a) = Removed(s, k)
<1> DEFINE I == {i \in 1 .. Len(s) : s[i] = a}
           k == Min(I)
           b == SubSeq(s, 1, k - 1)
           c == SubSeq(s, k + 1, Len(s))
           t == b \o c
<1>1. I # {} /\ \E i \in 1 .. Len(s) : s[i] = a
  BY DEF ToSet
<1>2. I \in SUBSET Nat
  OBVIOUS
<1>3. k \in I
  BY <1>1, <1>2, LeastOfNat DEF Min
<1>4. RemoveFirst(s, a) = t
  BY <1>1 DEF RemoveFirst, RemoveAt, SelectInSeq
<1>5. k \in 1 .. Len(s) /\ Len(s) \in Nat /\ s[k] = a
  BY <1>3
<1> HIDE DEF k
<1>6. /\ b \in Seq(S) /\ Len(b) = k - 1 /\ \A i \in 1 .. k - 1 : b[i] = s[i]
      /\ c \in Seq(S) /\ Len(c) = Len(s) - k /\ \A i \in 1 .. Len(s) - k : c[i] = s[k + i]
  BY <1>5, SubSeqProperties
<1> HIDE DEF b, c
<1>7. /\ t \in Seq(S) /\ Len(t) = Len(b) + Len(c)
      /\ \A i \in 1 .. Len(b) + Len(c) : t[i] = IF i <= Len(b) THEN b[i] ELSE c[i - Len(b)]
  BY <1>6, ConcatProperties
<1> HIDE DEF t
<1>8. Len(t) = Len(s) - 1
  BY <1>5, <1>6, <1>7
<1>9. \A i \in 1 .. Len(s) - 1 : t[i] = IF i < k THEN s[i] ELSE s[i + 1]
  <2> SUFFICES ASSUME NEW i \in 1 .. Len(s) - 1 PROVE t[i] = IF i < k THEN s[i] ELSE s[i + 1]
    OBVIOUS
  <2>1. CASE i < k
    <3>1. i \in 1 .. k - 1 /\ i <= Len(b) /\ i \in 1 .. Len(b) + Len(c)
      BY <1>5, <1>6, <2>1
    <3>2. t[i] = b[i] /\ b[i] = s[i]
      BY <1>6, <1>7, <3>1
    <3> QED
      BY <2>1, <3>2
  <2>2. CASE ~(i < k)
    <3> DEFINE j == i - Len(b)
    <3>1. j \in 1 .. Len(s) - k /\ k + j = i + 1 /\ ~(i <= Len(b)) /\ i \in 1 .. Len(b) + Len(c)
      BY <1>5, <1>6, <2>2
    <3>2. t[i] = c[j]
      BY <1>7, <3>1
    <3> HIDE DEF j
    <3> QED
      BY <1>6, <2>2, <3>1, <3>2
  <2> QED
    BY <2>1, <2>2
<1>10. t = Removed(s, k)
  <2> DEFINE r == Removed(s, k)
  <2>1. r \in Seq(S) /\ Len(r) = Len(s) - 1 /\ \A i \in 1 .. Len(s) - 1 : r[i] = IF i < k THEN s[i] ELSE s[i + 1]
    BY <1>5, RemovedSeq
  <2> HIDE DEF r
  <2>2. Len(t) = Len(r) /\ \A i \in 1 .. Len(t) : t[i] = r[i]
    BY <1>8, <1>9, <2>1
  <2>3. t = r
    BY <1>7, <2>1, <2>2, SeqEqual
  <2> QED
    BY <2>3 DEF r
<1> QED
  BY <1>4, <1>5, <1>10

(* The list it returns is one shorter and repeats nothing new. *)
LEMMA RemoveFirstSeq ==
  ASSUME NEW S, NEW s \in Seq(S), NEW a \in ToSet(s)
  PROVE  /\ RemoveFirst(s, a) \in Seq(S)
         /\ Len(RemoveFirst(s, a)) = Len(s) - 1
         /\ Distinct(s) => Distinct(RemoveFirst(s, a))
<1>1. PICK k \in 1 .. Len(s) : RemoveFirst(s, a) = Removed(s, k)
  BY RemoveFirstIs
<1> DEFINE t == Removed(s, k)
<1>2. t \in Seq(S) /\ Len(t) = Len(s) - 1 /\ \A i \in 1 .. Len(s) - 1 : t[i] = IF i < k THEN s[i] ELSE s[i + 1]
  BY RemovedSeq
<1>3. Len(s) \in Nat
  OBVIOUS
<1> HIDE DEF t
<1>4. ASSUME Distinct(s), NEW i \in 1 .. Len(t), NEW j \in 1 .. Len(t), t[i] = t[j] PROVE i = j
  <2> DEFINE x == IF i < k THEN i ELSE i + 1
             y == IF j < k THEN j ELSE j + 1
  <2>1. x \in 1 .. Len(s) /\ y \in 1 .. Len(s) /\ s[x] = s[y]
    BY <1>2, <1>3, <1>4
  <2>2. x = y
    <3> HIDE DEF x, y
    <3> QED
      BY <1>4, <2>1 DEF Distinct
  <2> QED
    BY <1>2, <1>3, <2>2
<1>5. Distinct(s) => Distinct(t)
  BY <1>4 DEF Distinct
<1> QED
  BY <1>1, <1>2, <1>5 DEF t

(* What an insert makes of a list, in the words of the sequences' module. *)
LEMMA InsertedIs ==
  ASSUME NEW S, NEW s \in Seq(S), NEW n \in S
  PROVE  /\ Inserted(s, Len(s) + 1, n) = Append(s, n)
         /\ Inserted(s, 1, n) = <<n>> \o s
         /\ \A i \in 1 .. Len(s) :
              Inserted(s, i + 1, n) = SubSeq(s, 1, i) \o <<n>> \o SubSeq(s, i + 1, Len(s))
<1>1. Len(s) \in Nat /\ Len(s) + 1 \in 1 .. Len(s) + 1 /\ 1 \in 1 .. Len(s) + 1
  OBVIOUS
<1>2. ASSUME NEW j \in 1 .. Len(s) + 1 PROVE PutInto(Inserted(s, j, n), S, s, j, n)
  BY InsertedSeq
<1>3. Inserted(s, Len(s) + 1, n) = Append(s, n)
  <2> DEFINE t == Inserted(s, Len(s) + 1, n)
             u == Append(s, n)
  <2>1. /\ t \in Seq(S) /\ Len(t) = Len(s) + 1
        /\ \A k \in 1 .. Len(s) + 1 : t[k] = IF k < Len(s) + 1 THEN s[k] ELSE IF k = Len(s) + 1 THEN n ELSE s[k - 1]
    <3>1. PutInto(t, S, s, Len(s) + 1, n)
      BY <1>1, <1>2
    <3> QED
      BY <3>1 DEF PutInto
  <2>2. /\ u \in Seq(S) /\ Len(u) = Len(s) + 1 /\ u[Len(s) + 1] = n
        /\ \A k \in 1 .. Len(s) : u[k] = s[k]
    OBVIOUS
  <2> HIDE DEF t, u
  <2>3. \A k \in 1 .. Len(t) : t[k] = u[k]
    BY <1>1, <2>1, <2>2
  <2>4. t = u
    BY <2>1, <2>2, <2>3, SeqEqual
  <2> QED
    BY <2>4 DEF t, u
<1>4. Inserted(s, 1, n) = <<n>> \o s
  <2> DEFINE t == Inserted(s, 1, n)
             u == <<n>> \o s
  <2>1. /\ t \in Seq(S) /\ Len(t) = Len(s) + 1
        /\ \A k \in 1 .. Len(s) + 1 : t[k] = IF k < 1 THEN s[k] ELSE IF k = 1 THEN n ELSE s[k - 1]
    <3>1. PutInto(t, S, s, 1, n)
      BY <1>1, <1>2
    <3> QED
      BY <3>1 DEF PutInto
  <2>2. u \in Seq(S) /\ Len(u) = Len(s) + 1 /\ u[1] = n /\ \A k \in 1 .. Len(s) : u[k + 1] = s[k]
    BY ConsSeq
  <2> HIDE DEF t, u
  <2>3. ASSUME NEW k \in 1 .. Len(t) PROVE t[k] = u[k]
    <3>1. CASE k = 1
      BY <1>1, <2>1, <2>2, <3>1
    <3>2. CASE k # 1
      <4>1. k - 1 \in 1 .. Len(s) /\ (k - 1) + 1 = k /\ k \in 1 .. Len(s) + 1 /\ ~(k < 1)
        BY <1>1, <2>1, <3>2
      <4>2. u[(k - 1) + 1] = s[k - 1]
        BY <2>2, <4>1
      <4> QED
        BY <2>1, <3>2, <4>1, <4>2
    <3> QED
      BY <3>1, <3>2
  <2>4. t = u
    BY <2>1, <2>2, <2>3, SeqEqual
  <2> QED
    BY <2>4 DEF t, u
<1>5. ASSUME NEW i \in 1 .. Len(s)
      PROVE  Inserted(s, i + 1, n) = SubSeq(s, 1, i) \o <<n>> \o SubSeq(s, i + 1, Len(s))
  <2> DEFINE t == Inserted(s, i + 1, n)
             a == SubSeq(s, 1, i)
             b == SubSeq(s, i + 1, Len(s))
             m == <<n>>
             am == a \o m
             u == am \o b
  <2>1. /\ t \in Seq(S) /\ Len(t) = Len(s) + 1
        /\ \A k \in 1 .. Len(s) + 1 : t[k] = IF k < i + 1 THEN s[k] ELSE IF k = i + 1 THEN n ELSE s[k - 1]
    <3>1. i + 1 \in 1 .. Len(s) + 1
      BY <1>1
    <3>2. PutInto(t, S, s, i + 1, n)
      BY <1>2, <3>1
    <3> QED
      BY <3>2 DEF PutInto
  <2>2. a \in Seq(S) /\ Len(a) = i /\ \A k \in 1 .. i : a[k] = s[k]
    BY <1>1, SubSeqProperties
  <2>3. b \in Seq(S) /\ Len(b) = Len(s) - i /\ \A k \in 1 .. Len(s) - i : b[k] = s[i + k]
    BY <1>1, SubSeqProperties
  <2>4. m \in Seq(S) /\ Len(m) = 1 /\ m[1] = n
    OBVIOUS
  <2> HIDE DEF a, b, m
  <2>5. /\ am \in Seq(S) /\ Len(am) = i + 1
        /\ \A k \in 1 .. Len(a) + Len(m) : am[k] = IF k <= Len(a) THEN a[k] ELSE m[k - Len(a)]
    <3>1. /\ am \in Seq(S) /\ Len(am) = Len(a) + Len(m)
          /\ \A k \in 1 .. Len(a) + Len(m) : am[k] = IF k <= Len(a) THEN a[k] ELSE m[k - Len(a)]
      BY <2>2, <2>4, ConcatProperties
    <3> QED
      BY <2>2, <2>4, <3>1
  <2> HIDE DEF am
  <2>6. /\ u \in Seq(S) /\ Len(u) = Len(am) + Len(b)
        /\ \A k \in 1 .. Len(am) + Len(b) : u[k] = IF k <= Len(am) THEN am[k] ELSE b[k - Len(am)]
    BY <2>3, <2>5, ConcatProperties
  <2> HIDE DEF t, u
  <2>7. Len(u) = Len(s) + 1
    BY <1>1, <2>3, <2>5, <2>6
  <2>8. ASSUME NEW k \in 1 .. Len(s) + 1 PROVE t[k] = u[k]
    <3>1. CASE k < i + 1
      <4>1. /\ k \in 1 .. i /\ k <= Len(am) /\ k <= Len(a)
            /\ k \in 1 .. Len(am) + Len(b) /\ k \in 1 .. Len(a) + Len(m)
        BY <1>1, <2>2, <2>3, <2>4, <2>5, <3>1
      <4>2. u[k] = am[k] /\ am[k] = a[k] /\ a[k] = s[k]
        BY <2>2, <2>5, <2>6, <4>1
      <4> QED
        BY <2>1, <3>1, <4>2
    <3>2. CASE k = i + 1
      <4>1. /\ k <= Len(am) /\ ~(k <= Len(a)) /\ k - Len(a) = 1 /\ ~(k < i + 1)
            /\ k \in 1 .. Len(am) + Len(b) /\ k \in 1 .. Len(a) + Len(m)
        BY <1>1, <2>2, <2>3, <2>4, <2>5, <3>2
      <4>2. u[k] = am[k] /\ am[k] = m[k - Len(a)]
        BY <2>5, <2>6, <4>1
      <4> QED
        BY <2>1, <2>4, <3>2, <4>1, <4>2
    <3>3. CASE k > i + 1
      <4> DEFINE j == k - Len(am)
      <4>1. /\ ~(k <= Len(am)) /\ j \in 1 .. Len(s) - i /\ i + j = k - 1 /\ ~(k < i + 1) /\ k # i + 1
            /\ k \in 1 .. Len(am) + Len(b)
        BY <1>1, <2>3, <2>5, <3>3
      <4>2. u[k] = b[j]
        BY <2>6, <4>1
      <4> HIDE DEF j
      <4>3. b[j] = s[i + j]
        BY <2>3, <4>1
      <4> QED
        BY <2>1, <4>1, <4>2, <4>3
    <3> QED
      BY <1>1, <3>1, <3>2, <3>3
  <2>9. t = u
    BY <2>1, <2>6, <2>7, <2>8, SeqEqual
  <2> QED
    BY <2>9 DEF t, u, am, a, b, m
<1> QED
  BY <1>3, <1>4, <1>5

\* The lists, n taken out of the one it is in.
Sans(kids, n) == [p \in Parent |-> RemoveFirst(kids[p], n)]

\* The lists, n moved to the end of p's, to its beginning, or behind a.
MovedLast(kids, p, n) == [Sans(kids, n) EXCEPT ![p] = Append(@, n)]

MovedFirst(kids, p, n) == [Sans(kids, n) EXCEPT ![p] = <<n>> \o @]

MovedBehind(kids, p, a, n) ==
  LET at == CHOOSE i \in DOMAIN Sans(kids, n)[p] : Sans(kids, n)[p][i] = a
  IN [Sans(kids, n) EXCEPT ![p] = SubSeq(@, 1, at) \o <<n>> \o SubSeq(@, at + 1, Len(@))]

(* From a list that a node is not in, nothing is taken. *)
LEMMA NotThere ==
  ASSUME NEW h, NEW kids, Laid(h, kids), NEW n, NEW q \in Parent, h.parent[n] # q
  PROVE  RemoveFirst(kids[q], n) = kids[q]
<1>1. kids[q] \in Seq(Node) /\ Chain(h, q, kids[q])
  BY DEF Laid
<1>2. \A i \in 1 .. Len(kids[q]) : kids[q][i] # n
  BY <1>1 DEF Chain
<1> QED
  BY <1>2 DEF RemoveFirst

(* To detach a node is to take it out. *)
LEMMA DetachedLists ==
  ASSUME NEW h \in Heap, NEW kids, Laid(h, kids), NEW n \in Node
  PROVE  Laid(Detach(h, n), Sans(kids, n))
<1> DEFINE p == h.parent[n]
           s == kids[p]
           g == Detach(h, n)
<1>1. /\ n \in Parent /\ h.parent \in [Parent -> Parent \union {Null}]
      /\ kids \in [Parent -> Seq(Node)] /\ \A q \in Parent : Chain(h, q, kids[q])
  BY DEF Parent, Heap, Laid
<1>2. ASSUME NEW q \in Parent, q # p PROVE RemoveFirst(kids[q], n) = kids[q]
  BY <1>2, NotThere
<1>3. CASE p = Null
  <2>1. g = h
    BY <1>3 DEF Detach
  <2>2. \A q \in Parent : q # p
    BY <1>3, HeapAssumption DEF Parent
  <2>3. Sans(kids, n) = kids
    BY <1>1, <1>2, <2>2 DEF Sans
  <2> QED
    BY <2>1, <2>3
<1>4. CASE p # Null
  <2>1. g = Unlink(h, n) /\ p \in Parent
    BY <1>1, <1>4 DEF Detach
  <2>2. PICK i \in 1 .. Len(s) : s[i] = n /\ Laid(g, [kids EXCEPT ![p] = Removed(s, i)])
    BY <1>4, <2>1, Cut
  <2>3. s \in Seq(Node) /\ Chain(h, p, s) /\ DOMAIN s = 1 .. Len(s)
    BY <1>1, <2>1
  <2> HIDE DEF s, g
  <2>4. n \in ToSet(s)
    BY <2>2, <2>3 DEF ToSet
  <2>5. PICK k \in 1 .. Len(s) : s[k] = n /\ RemoveFirst(s, n) = Removed(s, k)
    BY <2>3, <2>4, RemoveFirstIs
  <2>6. k = i
    BY <2>2, <2>3, <2>5 DEF Chain
  <2>7. RemoveFirst(s, n) = Removed(s, i)
    BY <2>5, <2>6
  <2> HIDE DEF p
  <2>8. Sans(kids, n) = [kids EXCEPT ![p] = Removed(s, i)]
    BY <1>1, <1>2, <2>1, <2>7 DEF Sans, s
  <2> QED
    BY <2>2, <2>8 DEF g
<1> QED
  BY <1>3, <1>4

-----------------------------------------------------------------------------
(* The inserts. *)

\* n hangs nowhere, and nothing but it may be ahead of siblings.
Loose(g, n) ==
  /\ n \in Alive(g)
  /\ g.parent[n] = Null
  /\ \A m \in Parent : m # n /\ g.parent[m] = Null => g.next[m] = Null

\* S is what hangs below n.
IsBelow(S, g, n) ==
  /\ S \subseteq Node
  /\ n \notin S
  /\ \A m \in Node : m \in S <=> g.parent[m] \in S \union {n}

\* n may be hung below p.
MayBeHung(h, p, n) ==
  /\ n \in Alive(h)
  /\ p \in Parent /\ p \in Alive(h) \union {Doc} /\ p # n
  /\ \E S : IsBelow(S, h, n) /\ p \notin S

(* The preamble of an insert, and of a deletion. *)
LEMMA PreambleKeeps ==
  ASSUME NEW h, TreeInv(h), NEW n \in Alive(h)
  PROVE  /\ Sound(InsertChildPreamble(h, n))
         /\ Loose(InsertChildPreamble(h, n), n)
         /\ Alive(InsertChildPreamble(h, n)) = Alive(h)
         /\ InsertChildPreamble(h, n).parent = [h.parent EXCEPT ![n] = Null]
<1> DEFINE g == InsertChildPreamble(h, n)
<1>1. n \in Node /\ n \in Parent /\ h \in Heap
  BY DEF Alive, Parent, TreeInv, Sound
<1>2. CASE h.parent[n] # Null
  <2>1. g = Detach(h, n)
    BY <1>2 DEF InsertChildPreamble, Detach
  <2>2. PICK kids : Laid(h, kids)
    BY DEF TreeInv, Sound
  <2>3. /\ g \in Heap
        /\ g.parent = [h.parent EXCEPT ![n] = Null]
        /\ g.pool = h.pool /\ g.crashed = h.crashed
        /\ \E new : Laid(g, new)
        /\ Grounded(g)
        /\ \A m \in Parent : h.parent[m] = Null /\ h.next[m] = Null => g.next[m] = Null
    BY <1>1, <2>1, <2>2, Detached DEF TreeInv, Sound
  <2> HIDE DEF g
  <2>4. SamePools(g, h)
    BY <2>3 DEF SamePools
  <2>5. Alive(g) = Alive(h) /\ PoolsOK(g)
    BY <1>1, <2>3, <2>4, SamePoolsSame DEF TreeInv, Sound
  <2>6. \A m \in Parent : g.parent[m] = IF m = n THEN Null ELSE h.parent[m]
    BY <1>1, <2>3 DEF Heap
  <2>7. Housed(g)
    BY <2>5, <2>6 DEF Housed, TreeInv, Sound
  <2>8. Loose(g, n)
    BY <1>1, <2>3, <2>5, <2>6 DEF Loose, TreeInv, LooseEnds
  <2> QED
    BY <2>3, <2>5, <2>7, <2>8 DEF Sound, TreeInv, g
<1>3. CASE h.parent[n] = Null
  <2>1. g = Track(h, n)
    BY <1>3 DEF InsertChildPreamble
  <2>2. Sound(g) /\ Alive(g) = Alive(h) /\ SamePointers(g, h)
    BY <1>1, <2>1, Tracked DEF TreeInv
  <2> HIDE DEF g
  <2>3. Loose(g, n)
    BY <1>3, <2>2 DEF Loose, SamePointers, TreeInv, LooseEnds
  <2>4. g.parent = [h.parent EXCEPT ![n] = Null]
    BY <1>1, <1>3, <2>2 DEF SamePointers, Heap
  <2> QED
    BY <2>2, <2>3, <2>4 DEF g
<1> QED
  BY <1>2, <1>3

(* It takes the node out of the lists. *)
LEMMA PreambleLists ==
  ASSUME NEW h, TreeInv(h), NEW n \in Alive(h), NEW kids, Laid(h, kids)
  PROVE  Laid(InsertChildPreamble(h, n), Sans(kids, n))
<1> DEFINE g == InsertChildPreamble(h, n)
<1>1. n \in Node /\ h \in Heap
  BY DEF Alive, TreeInv, Sound
<1>2. Laid(Detach(h, n), Sans(kids, n))
  BY <1>1, DetachedLists
<1>3. CASE h.parent[n] # Null
  BY <1>2, <1>3 DEF InsertChildPreamble, Detach
<1>4. CASE h.parent[n] = Null
  <2>1. g = Track(h, n) /\ Detach(h, n) = h
    BY <1>4 DEF InsertChildPreamble, Detach
  <2>2. SamePointers(g, h)
    BY <1>1, <2>1, Tracked DEF TreeInv
  <2> HIDE DEF g
  <2>3. Laid(g, Sans(kids, n))
    BY <1>2, <2>1, <2>2, SameLists
  <2> QED
    BY <2>1, <2>3 DEF g
<1> QED
  BY <1>3, <1>4

(* The preamble leaves below n what was there.                             *)
LEMMA BelowAfterPreamble ==
  ASSUME NEW h, TreeInv(h), NEW g, NEW n \in Node, g.parent = [h.parent EXCEPT ![n] = Null],
         NEW S, IsBelow(S, h, n)
  PROVE  IsBelow(S, g, n)
<1>1. \A m \in Node : g.parent[m] = IF m = n THEN Null ELSE h.parent[m]
  BY DEF TreeInv, Sound, Heap, Parent
<1>2. Null \notin S \union {n}
  BY HeapAssumption DEF IsBelow
<1> QED
  BY <1>1, <1>2 DEF IsBelow

(* A node that hangs nowhere is put between two children of p, or at an end. *)
LEMMA Attached ==
  ASSUME NEW g, Sound(g), NEW kids, Laid(g, kids), NEW n, Loose(g, n),
         NEW p \in Parent, p \in Alive(g) \union {Doc}, p # n,
         NEW S, IsBelow(S, g, n), p \notin S,
         NEW j \in 1 .. Len(kids[p]) + 1,
         NEW h \in Heap, LinkedBetween(h, g, p, ItemAt(kids[p], j - 1), ItemAt(kids[p], j), n),
         h.pool = g.pool, ~h.crashed
  PROVE  /\ TreeInv(h)
         /\ Alive(h) = Alive(g)
         /\ Laid(h, [kids EXCEPT ![p] = Inserted(kids[p], j, n)])
<1> DEFINE s == kids[p]
           l == ItemAt(s, j - 1)
           r == ItemAt(s, j)
<1>1. g \in Heap /\ n \in Node /\ n \in Parent /\ n # Null /\ p # Null /\ g.parent[n] = Null
  BY HeapAssumption DEF Sound, Loose, Alive, Parent
<1>2. s \in Seq(Node) /\ Chain(g, p, s) /\ j \in 1 .. Len(s) + 1
  BY DEF Laid
<1>3. LinkedBetween(h, g, p, l, r, n)
  OBVIOUS
<1>4. Laid(h, [kids EXCEPT ![p] = Inserted(kids[p], j, n)])
  BY <1>1, Splice, SMTT(30)
<1> HIDE DEF s
<1>5. Len(s) \in Nat /\ \A i \in 1 .. Len(s) : s[i] \in Node /\ s[i] # Null
  BY <1>2, HeapAssumption
<1>6. l # Null => l \in Node /\ g.parent[l] = p /\ g.next[l] = r
  <2> SUFFICES ASSUME l # Null PROVE l \in Node /\ g.parent[l] = p /\ g.next[l] = r
    OBVIOUS
  <2>1. j - 1 \in 1 .. Len(s) /\ l = s[j - 1] /\ (j - 1) + 1 = j
    BY <1>2, <1>5 DEF ItemAt
  <2>2. g.parent[s[j - 1]] = p /\ g.next[s[j - 1]] = ItemAt(s, (j - 1) + 1)
    BY <1>2, <2>1 DEF Chain
  <2> QED
    BY <1>5, <2>1, <2>2
<1>7. r # Null => r \in Node /\ g.parent[r] = p
  BY <1>2, <1>5 DEF ItemAt, Chain
<1>8. l = Null => g.first[p] = r
  <2>1. l = Null => j = 1
    BY <1>2, <1>5 DEF ItemAt
  <2> QED
    BY <1>2, <2>1 DEF Chain
<1> HIDE DEF l, r
<1>9. \A m \in Parent : /\ h.parent[m] = IF m = n THEN p ELSE g.parent[m]
                        /\ h.first[m] = IF m = p /\ l = Null THEN n ELSE g.first[m]
                        /\ h.next[m] = IF m = n THEN r ELSE IF m = l THEN n ELSE g.next[m]
  BY <1>1, <1>3 DEF LinkedBetween, Heap
<1>10. \A m \in Node : m \in Parent /\ m # Null
  BY HeapAssumption DEF Parent
<1>11. \A m \in Node : /\ g.first[m] # Null => g.first[m] \in Node /\ g.parent[g.first[m]] = m
                       /\ g.next[m] # Null => g.next[m] \in Node
                       /\ g.next[m] # Null /\ g.parent[m] # Null => g.parent[g.next[m]] = g.parent[m]
                       /\ m # n /\ g.parent[m] = Null => g.next[m] = Null
  <2>1. /\ \A q \in Parent : g.first[q] # Null => g.parent[g.first[q]] = q
        /\ \A m \in Parent : g.parent[m] # Null /\ g.next[m] # Null => g.parent[g.next[m]] = g.parent[m]
    BY <1>1, Pointed
  <2>2. \A m \in Parent : g.first[m] \in Node \union {Null} /\ g.next[m] \in Node \union {Null}
    BY <1>1 DEF Heap
  <2> QED
    BY <1>10, <2>1, <2>2 DEF Loose
<1>12. Grounded(h)
  <2> SUFFICES ASSUME NEW X \in SUBSET Node, X # {}
               PROVE  \E m \in X : h.first[m] \notin X /\ h.next[m] \notin X
    BY DEF Grounded
  <2>1. CASE X \intersect S # {}
    <3>1. PICK m \in X \intersect S : g.first[m] \notin X \intersect S /\ g.next[m] \notin X \intersect S
      <4>1. X \intersect S \in SUBSET Node
        OBVIOUS
      <4> QED
        BY <2>1, <4>1 DEF Sound, Grounded
    <3>2. m \in Node /\ m # n /\ m # p /\ m # l /\ g.parent[m] \in S \union {n}
      BY <1>6, <1>10, <3>1 DEF IsBelow
    <3>3. h.first[m] = g.first[m] /\ h.next[m] = g.next[m]
      BY <1>9, <1>10, <3>2
    <3>4. g.first[m] \in Node => g.first[m] \in S
      BY <1>10, <1>11, <3>1, <3>2 DEF IsBelow
    <3>5. g.next[m] \in Node => g.next[m] \in S
      BY <1>1, <1>10, <1>11, <3>1, <3>2 DEF IsBelow
    <3> QED
      BY <3>1, <3>3, <3>4, <3>5
  <2>2. CASE X \intersect S = {}
    <3> DEFINE Y == X \ {n}
    <3>1. g.first[n] \notin X /\ g.first[n] # n
      BY <1>1, <1>10, <1>11, <2>2 DEF IsBelow
    <3>2. h.first[n] = g.first[n] /\ h.next[n] = r /\ r # n
      BY <1>1, <1>7, <1>9
    <3>3. CASE Y = {}
      BY <3>1, <3>2, <3>3
    <3>4. CASE Y # {}
      <4>1. PICK m \in Y : g.first[m] \notin Y /\ g.next[m] \notin Y
        <5>1. Y \in SUBSET Node
          OBVIOUS
        <5> QED
          BY <3>4, <5>1 DEF Sound, Grounded
      <4>2. m \in Node /\ m # n /\ m \in X
        BY <4>1
      <4>3. g.first[m] # n /\ g.next[m] # n
        BY <1>1, <1>10, <1>11, <4>2
      <4>4. g.first[m] \notin X /\ g.next[m] \notin X
        BY <4>1, <4>3
      <4>5. h.first[m] = g.first[m] \/ (h.first[m] = n /\ m = p /\ g.first[m] = r)
        BY <1>8, <1>9, <1>10, <4>2
      <4>6. h.next[m] = g.next[m] \/ (h.next[m] = n /\ m = l /\ g.next[m] = r)
        BY <1>6, <1>9, <1>10, <4>2
      <4>7. CASE n \notin X
        BY <4>2, <4>4, <4>5, <4>6, <4>7
      <4>8. CASE n \in X /\ r \in X
        BY <4>2, <4>4, <4>5, <4>6, <4>8
      <4>9. CASE n \in X /\ r \notin X
        BY <3>1, <3>2, <4>9
      <4> QED
        BY <4>7, <4>8, <4>9
    <3> QED
      BY <3>3, <3>4
  <2> QED
    BY <2>1, <2>2
<1>13. Alive(h) = Alive(g) /\ PoolsOK(h)
  <2>1. SamePools(h, g)
    BY DEF SamePools
  <2> QED
    BY <1>1, <2>1, SamePoolsSame DEF Sound
<1>14. Housed(h)
  BY <1>1, <1>9, <1>13 DEF Housed, Sound, Loose
<1>15. LooseEnds(h)
  <2> SUFFICES ASSUME NEW m \in Parent, h.parent[m] = Null PROVE h.next[m] = Null
    BY DEF LooseEnds
  <2>1. m # n /\ g.parent[m] = Null
    BY <1>1, <1>9
  <2>2. m # l
    BY <1>1, <1>6, <1>10, <2>1, HeapAssumption DEF Parent
  <2> QED
    BY <1>9, <2>1, <2>2 DEF Loose
<1> QED
  BY <1>4, <1>12, <1>13, <1>14, <1>15 DEF TreeInv, Sound

(* XMLNode::InsertEndChild keeps the invariant, and moves the node there.  *)
LEMMA InsertEndKeeps ==
  ASSUME NEW h, TreeInv(h), NEW p, NEW n, MayBeHung(h, p, n)
  PROVE  /\ TreeInv(InsertEndChild(h, p, n))
         /\ Alive(InsertEndChild(h, p, n)) = Alive(h)
         /\ \A old : Laid(h, old) => Laid(InsertEndChild(h, p, n), MovedLast(old, p, n))
<1> SUFFICES ASSUME NEW old, Laid(h, old)
             PROVE  /\ TreeInv(InsertEndChild(h, p, n))
                    /\ Alive(InsertEndChild(h, p, n)) = Alive(h)
                    /\ Laid(InsertEndChild(h, p, n), MovedLast(old, p, n))
  BY DEF TreeInv, Sound
<1> DEFINE g == InsertChildPreamble(h, n)
           l == g.last[p]
           pa == [g.parent EXCEPT ![n] = p]
           fi == [g.first EXCEPT ![p] = IF l = Null THEN n ELSE @]
           la == [g.last EXCEPT ![p] = n]
           pr == Store(g.prev, n, l)
           ne == Store(Store(g.next, l, n), n, Null)
           k == InsertEndChild(h, p, n)
<1>1. /\ n \in Alive(h) /\ n \in Node /\ n \in Parent /\ n # Null
      /\ p \in Parent /\ p \in Alive(h) \union {Doc} /\ p # n
  BY HeapAssumption DEF MayBeHung, Alive, Parent
<1>2. PICK S : IsBelow(S, h, n) /\ p \notin S
  BY DEF MayBeHung
<1>3. Sound(g) /\ Loose(g, n) /\ Alive(g) = Alive(h) /\ g.parent = [h.parent EXCEPT ![n] = Null]
  BY <1>1, PreambleKeeps
<1>4. k = [g EXCEPT !.next = ne, !.prev = pr, !.last = la, !.first = fi, !.parent = pa]
  BY DEF InsertEndChild
<1> HIDE DEF g
<1>5. IsBelow(S, g, n)
  BY <1>1, <1>2, <1>3, BelowAfterPreamble
<1> DEFINE kids == Sans(old, n)
<1>6. Laid(g, kids)
  BY <1>1, PreambleLists DEF g
<1> HIDE DEF kids
<1> DEFINE s == kids[p]
           j == Len(s) + 1
<1>7. s \in Seq(Node) /\ Chain(g, p, s)
  BY <1>1, <1>6 DEF Laid
<1> HIDE DEF s
<1>8. Len(s) \in Nat /\ j \in 1 .. Len(s) + 1 /\ ItemAt(s, j) = Null /\ j - 1 = Len(s)
  BY <1>7 DEF ItemAt
<1>9. ItemAt(s, j - 1) = l
  BY <1>7, <1>8 DEF Chain
<1>10. /\ g \in Heap /\ g.crashed = FALSE
       /\ g.parent \in [Parent -> Parent \union {Null}] /\ g.first \in [Parent -> Node \union {Null}]
       /\ g.last \in [Parent -> Node \union {Null}] /\ g.prev \in [Parent -> Node \union {Null}]
       /\ g.next \in [Parent -> Node \union {Null}] /\ l \in Node \union {Null}
  BY <1>1, <1>3 DEF Sound, Heap
<1> HIDE DEF l, k
<1>11. /\ pa \in [Parent -> Parent \union {Null}] /\ fi \in [Parent -> Node \union {Null}]
       /\ la \in [Parent -> Node \union {Null}] /\ pr \in [Parent -> Node \union {Null}]
       /\ ne \in [Parent -> Node \union {Null}]
  BY <1>1, <1>10 DEF Store
<1>12. /\ fi = [g.first EXCEPT ![p] = IF l = Null THEN n ELSE @]
       /\ la = [g.last EXCEPT ![p] = IF Null = Null THEN n ELSE @]
       /\ \A m \in Parent : ne[m] = IF m = n THEN Null ELSE IF m = l THEN n ELSE g.next[m]
       /\ \A m \in Parent : pr[m] = IF m = n THEN l ELSE IF m = Null THEN n ELSE g.prev[m]
  BY <1>1, <1>10, HeapAssumption DEF Store, Parent
<1> HIDE DEF fi, la, pr, ne
<1>13. k = [g EXCEPT !.parent = pa, !.first = fi, !.last = la, !.prev = pr, !.next = ne, !.crashed = FALSE]
  BY <1>4, <1>10, <1>11 DEF Heap
<1>14. /\ k \in Heap
       /\ k.parent = pa /\ k.first = fi /\ k.last = la /\ k.prev = pr /\ k.next = ne
       /\ k.pool = g.pool /\ k.crashed = FALSE
  <2> HIDE DEF pa
  <2> QED
    BY <1>10, <1>11, <1>13 DEF Heap
<1>15. LinkedBetween(k, g, p, l, Null, n)
  BY <1>12, <1>14 DEF LinkedBetween
<1>16. /\ TreeInv(k) /\ Alive(k) = Alive(h)
       /\ Laid(k, [kids EXCEPT ![p] = Inserted(kids[p], j, n)])
  <2>1. j \in 1 .. Len(kids[p]) + 1 /\ LinkedBetween(k, g, p, ItemAt(kids[p], j - 1), ItemAt(kids[p], j), n)
    BY <1>8, <1>9, <1>15 DEF s
  <2> HIDE DEF j
  <2> QED
    BY <1>1, <1>2, <1>3, <1>5, <1>6, <1>14, <2>1, Attached
<1>17. Inserted(kids[p], j, n) = Append(kids[p], n)
  BY <1>1, <1>7, InsertedIs DEF s
<1>18. MovedLast(old, p, n) = [kids EXCEPT ![p] = Append(kids[p], n)]
  BY Zenon DEF MovedLast, kids
<1> QED
  BY <1>16, <1>17, <1>18 DEF k

(* So does XMLNode::InsertFirstChild.                                      *)
LEMMA InsertFirstKeeps ==
  ASSUME NEW h, TreeInv(h), NEW p, NEW n, MayBeHung(h, p, n)
  PROVE  /\ TreeInv(InsertFirstChild(h, p, n))
         /\ Alive(InsertFirstChild(h, p, n)) = Alive(h)
         /\ \A old : Laid(h, old) => Laid(InsertFirstChild(h, p, n), MovedFirst(old, p, n))
<1> SUFFICES ASSUME NEW old, Laid(h, old)
             PROVE  /\ TreeInv(InsertFirstChild(h, p, n))
                    /\ Alive(InsertFirstChild(h, p, n)) = Alive(h)
                    /\ Laid(InsertFirstChild(h, p, n), MovedFirst(old, p, n))
  BY DEF TreeInv, Sound
<1> DEFINE g == InsertChildPreamble(h, n)
           r == g.first[p]
           pa == [g.parent EXCEPT ![n] = p]
           fi == [g.first EXCEPT ![p] = n]
           la == [g.last EXCEPT ![p] = IF r = Null THEN n ELSE @]
           pr == Store(Store(g.prev, r, n), n, Null)
           ne == Store(g.next, n, r)
           k == InsertFirstChild(h, p, n)
<1>1. /\ n \in Alive(h) /\ n \in Node /\ n \in Parent /\ n # Null
      /\ p \in Parent /\ p \in Alive(h) \union {Doc} /\ p # n
  BY HeapAssumption DEF MayBeHung, Alive, Parent
<1>2. PICK S : IsBelow(S, h, n) /\ p \notin S
  BY DEF MayBeHung
<1>3. Sound(g) /\ Loose(g, n) /\ Alive(g) = Alive(h) /\ g.parent = [h.parent EXCEPT ![n] = Null]
  BY <1>1, PreambleKeeps
<1>4. k = [g EXCEPT !.prev = pr, !.next = ne, !.first = fi, !.last = la, !.parent = pa]
  BY DEF InsertFirstChild
<1> HIDE DEF g
<1>5. IsBelow(S, g, n)
  BY <1>1, <1>2, <1>3, BelowAfterPreamble
<1> DEFINE kids == Sans(old, n)
<1>6. Laid(g, kids)
  BY <1>1, PreambleLists DEF g
<1> HIDE DEF kids
<1> DEFINE s == kids[p]
<1>7. s \in Seq(Node) /\ Chain(g, p, s)
  BY <1>1, <1>6 DEF Laid
<1> HIDE DEF s
<1>8. Len(s) \in Nat /\ 1 \in 1 .. Len(s) + 1 /\ ItemAt(s, 1 - 1) = Null
  BY <1>7 DEF ItemAt
<1>9. ItemAt(s, 1) = r
  BY <1>7 DEF Chain
<1>10. /\ g \in Heap /\ g.crashed = FALSE
       /\ g.parent \in [Parent -> Parent \union {Null}] /\ g.first \in [Parent -> Node \union {Null}]
       /\ g.last \in [Parent -> Node \union {Null}] /\ g.prev \in [Parent -> Node \union {Null}]
       /\ g.next \in [Parent -> Node \union {Null}] /\ r \in Node \union {Null}
  BY <1>1, <1>3 DEF Sound, Heap
<1> HIDE DEF r, k
<1>11. /\ pa \in [Parent -> Parent \union {Null}] /\ fi \in [Parent -> Node \union {Null}]
       /\ la \in [Parent -> Node \union {Null}] /\ pr \in [Parent -> Node \union {Null}]
       /\ ne \in [Parent -> Node \union {Null}]
  BY <1>1, <1>10 DEF Store
<1>12. /\ fi = [g.first EXCEPT ![p] = IF Null = Null THEN n ELSE @]
       /\ la = [g.last EXCEPT ![p] = IF r = Null THEN n ELSE @]
       /\ \A m \in Parent : ne[m] = IF m = n THEN r ELSE IF m = Null THEN n ELSE g.next[m]
       /\ \A m \in Parent : pr[m] = IF m = n THEN Null ELSE IF m = r THEN n ELSE g.prev[m]
  BY <1>1, <1>10, HeapAssumption DEF Store, Parent
<1> HIDE DEF fi, la, pr, ne
<1>13. k = [g EXCEPT !.parent = pa, !.first = fi, !.last = la, !.prev = pr, !.next = ne, !.crashed = FALSE]
  BY <1>4, <1>10, <1>11 DEF Heap
<1>14. /\ k \in Heap
       /\ k.parent = pa /\ k.first = fi /\ k.last = la /\ k.prev = pr /\ k.next = ne
       /\ k.pool = g.pool /\ k.crashed = FALSE
  <2> HIDE DEF pa
  <2> QED
    BY <1>10, <1>11, <1>13 DEF Heap
<1>15. LinkedBetween(k, g, p, Null, r, n)
  BY <1>12, <1>14 DEF LinkedBetween
<1>16. /\ TreeInv(k) /\ Alive(k) = Alive(h)
       /\ Laid(k, [kids EXCEPT ![p] = Inserted(kids[p], 1, n)])
  <2>1. 1 \in 1 .. Len(kids[p]) + 1 /\ LinkedBetween(k, g, p, ItemAt(kids[p], 1 - 1), ItemAt(kids[p], 1), n)
    BY <1>8, <1>9, <1>15 DEF s
  <2> QED
    BY <1>1, <1>2, <1>3, <1>5, <1>6, <1>14, <2>1, Attached
<1>17. Inserted(kids[p], 1, n) = <<n>> \o kids[p]
  BY <1>1, <1>7, InsertedIs DEF s
<1>18. MovedFirst(old, p, n) = [kids EXCEPT ![p] = <<n>> \o kids[p]]
  BY Zenon DEF MovedFirst, kids
<1> QED
  BY <1>16, <1>17, <1>18 DEF k

(* What SafeAfter is for: where the preamble has unlinked n, something is    *)
(* still behind a if something was.                                        *)
LEMMA StillBehind ==
  ASSUME NEW h, TreeInv(h), NEW n \in Alive(h), NEW a \in Alive(h), a # n,
         ~(h.next[a] = n /\ h.next[n] = Null)
  PROVE  InsertChildPreamble(h, n).next[a] = Null <=> h.next[a] = Null
<1>1. n \in Node /\ n \in Parent /\ a \in Parent /\ n # Null
  BY HeapAssumption DEF Alive, Parent
<1>2. PICK kids : Laid(h, kids)
  BY DEF TreeInv, Sound
<1>3. CASE h.parent[n] # Null
  <2>1. InsertChildPreamble(h, n) = Unlink(h, n)
    BY <1>3 DEF InsertChildPreamble
  <2>2. Unlink(h, n).next[a] = IF a = h.prev[n] THEN h.next[n] ELSE h.next[a]
    <3>1. h \in Heap
      BY DEF TreeInv, Sound
    <3>2. UnlinkedFrom(Unlink(h, n), h, h.parent[n], n)
      BY <1>1, <1>2, <1>3, <3>1, Cut
    <3> QED
      BY <1>1, <3>2 DEF UnlinkedFrom
  <2>3. a = h.prev[n] => h.next[a] = n
    <3>1. h \in Heap
      BY DEF TreeInv, Sound
    <3>2. h.prev[n] # Null => h.next[h.prev[n]] = n
      BY <1>1, <1>2, <1>3, <3>1, Pointed
    <3> QED
      BY <1>1, <3>2, HeapAssumption DEF Parent
  <2> QED
    BY <1>1, <2>1, <2>2, <2>3
<1>4. CASE h.parent[n] = Null
  BY <1>1, <1>4, Tracked DEF InsertChildPreamble, SamePointers, TreeInv
<1> QED
  BY <1>3, <1>4

(* Behind a is at the place after a's. *)
LEMMA BehindIs ==
  ASSUME NEW kids, NEW p, NEW n \in Node, NEW a, Sans(kids, n)[p] \in Seq(Node), Distinct(Sans(kids, n)[p]),
         NEW i \in 1 .. Len(Sans(kids, n)[p]), Sans(kids, n)[p][i] = a
  PROVE  MovedBehind(kids, p, a, n) = [Sans(kids, n) EXCEPT ![p] = Inserted(Sans(kids, n)[p], i + 1, n)]
<1> DEFINE s == Sans(kids, n)[p]
           at == CHOOSE k \in DOMAIN s : s[k] = a
<1>1. s \in Seq(Node) /\ Distinct(s) /\ i \in 1 .. Len(s) /\ s[i] = a
  OBVIOUS
<1>2. MovedBehind(kids, p, a, n) =
        [Sans(kids, n) EXCEPT ![p] = SubSeq(s, 1, at) \o <<n>> \o SubSeq(s, at + 1, Len(s))]
  BY Zenon DEF MovedBehind
<1> HIDE DEF s
<1>3. at \in 1 .. Len(s) /\ s[at] = a
  BY <1>1
<1>4. at = i
  BY <1>1, <1>3 DEF Distinct
<1>5. Inserted(s, i + 1, n) = SubSeq(s, 1, i) \o <<n>> \o SubSeq(s, i + 1, Len(s))
  BY <1>1, InsertedIs
<1> QED
  BY <1>2, <1>4, <1>5 DEF s

(* So does XMLNode::InsertAfterChild, where SafeAfter allows it, if a hangs   *)
(* below p; otherwise it does nothing.                                     *)
LEMMA InsertAfterKeeps ==
  ASSUME NEW h, TreeInv(h), NEW p, NEW n, MayBeHung(h, p, n),
         NEW a \in Alive(h), a # n, ~(h.next[a] = n /\ h.next[n] = Null)
  PROVE  /\ TreeInv(InsertAfterChild(h, p, a, n))
         /\ Alive(InsertAfterChild(h, p, a, n)) = Alive(h)
         /\ h.parent[a] # p => InsertAfterChild(h, p, a, n) = h
         /\ h.parent[a] = p => \A old : Laid(h, old) => Laid(InsertAfterChild(h, p, a, n), MovedBehind(old, p, a, n))
<1>1. /\ n \in Alive(h) /\ n \in Node /\ n \in Parent /\ n # Null
      /\ p \in Parent /\ p \in Alive(h) \union {Doc} /\ p # n /\ p # Null
      /\ a \in Node /\ a \in Parent /\ a # Null
  BY HeapAssumption DEF MayBeHung, Alive, Parent
<1>2. CASE h.parent[a] # p
  BY <1>1, <1>2 DEF InsertAfterChild
<1>3. ASSUME h.parent[a] = p, NEW old, Laid(h, old)
      PROVE  /\ TreeInv(InsertAfterChild(h, p, a, n))
             /\ Alive(InsertAfterChild(h, p, a, n)) = Alive(h)
             /\ Laid(InsertAfterChild(h, p, a, n), MovedBehind(old, p, a, n))
  <2> DEFINE g == InsertChildPreamble(h, n)
             x == g.next[a]
             pa == [g.parent EXCEPT ![n] = p]
             pr == Store(Store(g.prev, n, a), x, n)
             ne == Store(Store(g.next, n, x), a, n)
             k == [g EXCEPT !.crashed = (x = Null), !.prev = pr, !.next = ne, !.parent = pa]
  <2>1. h.next[a] # Null => InsertAfterChild(h, p, a, n) = k
    BY <1>3 DEF InsertAfterChild
  <2>2. PICK S : IsBelow(S, h, n) /\ p \notin S
    BY DEF MayBeHung
  <2>3. Sound(g) /\ Loose(g, n) /\ Alive(g) = Alive(h) /\ g.parent = [h.parent EXCEPT ![n] = Null]
    BY <1>1, PreambleKeeps
  <2>4. x = Null <=> h.next[a] = Null
    BY <1>1, StillBehind
  <2> DEFINE kids == Sans(old, n)
  <2>5. Laid(g, kids)
    BY <1>1, <1>3, PreambleLists
  <2> HIDE DEF g
  <2>6. IsBelow(S, g, n)
    BY <1>1, <2>2, <2>3, BelowAfterPreamble
  <2> HIDE DEF kids
  <2>7. /\ g \in Heap /\ g.crashed = FALSE
        /\ g.parent \in [Parent -> Parent \union {Null}] /\ g.first \in [Parent -> Node \union {Null}]
        /\ g.last \in [Parent -> Node \union {Null}] /\ g.prev \in [Parent -> Node \union {Null}]
        /\ g.next \in [Parent -> Node \union {Null}] /\ x \in Node \union {Null}
    BY <1>1, <2>3 DEF Sound, Heap
  <2>8. g.parent[a] = p
    <3>1. h.parent \in [Parent -> Parent \union {Null}]
      BY DEF TreeInv, Sound, Heap
    <3> QED
      BY <1>1, <1>3, <2>3, <3>1
  <2> DEFINE s == kids[p]
  <2>9. s \in Seq(Node) /\ Chain(g, p, s) /\ \E i \in 1 .. Len(s) : s[i] = a
    BY <1>1, <2>5, <2>8 DEF Laid
  <2> HIDE DEF s
  <2>10. PICK i \in 1 .. Len(s) : s[i] = a
    BY <2>9
  <2> DEFINE j == i + 1
  <2>11. /\ j \in 1 .. Len(s) + 1 /\ j - 1 = i /\ ItemAt(s, j - 1) = a /\ ItemAt(s, j) = x
    <3>1. Len(s) \in Nat
      BY <2>9
    <3>2. j \in 1 .. Len(s) + 1 /\ j - 1 = i
      BY <3>1
    <3>3. ItemAt(s, j - 1) = a
      BY <2>10, <3>2 DEF ItemAt
    <3>4. ItemAt(s, j) = x
      BY <2>9, <2>10 DEF Chain
    <3> QED
      BY <3>2, <3>3, <3>4
  <2>12. MovedBehind(old, p, a, n) = [kids EXCEPT ![p] = Inserted(s, j, n)]
    <3>1. Distinct(s)
      BY <2>9 DEF Chain, Distinct
    <3> QED
      BY <1>1, <2>9, <2>10, <3>1, BehindIs DEF s, kids
  <2> HIDE DEF j
  <2>13. CASE h.next[a] = Null
    <3>1. InsertAfterChild(h, p, a, n) = InsertEndChild(h, p, n)
      BY <1>3, <2>13 DEF InsertAfterChild
    <3>2. /\ TreeInv(InsertEndChild(h, p, n)) /\ Alive(InsertEndChild(h, p, n)) = Alive(h)
          /\ Laid(InsertEndChild(h, p, n), MovedLast(old, p, n))
      BY <1>3, InsertEndKeeps
    <3>3. j = Len(s) + 1
      <4>1. \A m \in 1 .. Len(s) : s[m] # Null
        BY <2>9, HeapAssumption
      <4>2. j \notin 1 .. Len(s)
        BY <2>4, <2>11, <2>13, <4>1 DEF ItemAt
      <4>3. Len(s) \in Nat
        BY <2>9
      <4> QED
        BY <2>11, <4>2, <4>3
    <3>4. Inserted(s, j, n) = Append(s, n)
      BY <1>1, <2>9, <3>3, InsertedIs
    <3>5. MovedLast(old, p, n) = [kids EXCEPT ![p] = Append(s, n)]
      BY Zenon DEF MovedLast, kids, s
    <3> QED
      BY <2>12, <3>1, <3>2, <3>4, <3>5
  <2>14. CASE h.next[a] # Null
    <3>1. x # n
      <4>1. g.parent[n] = Null /\ g.next[a] # Null => g.parent[x] = p
        BY <1>1, <2>5, <2>7, <2>8, Pointed
      <4> QED
        BY <1>1, <2>3, <2>4, <4>1 DEF Loose
    <3> HIDE DEF x
    <3>2. /\ pa \in [Parent -> Parent \union {Null}] /\ pr \in [Parent -> Node \union {Null}]
          /\ ne \in [Parent -> Node \union {Null}]
      BY <1>1, <2>7 DEF Store
    <3>3. /\ g.first = [g.first EXCEPT ![p] = IF a = Null THEN n ELSE @]
          /\ g.last = [g.last EXCEPT ![p] = IF x = Null THEN n ELSE @]
      BY <1>1, <2>4, <2>7, <2>14
    <3>4. /\ \A m \in Parent : ne[m] = IF m = n THEN x ELSE IF m = a THEN n ELSE g.next[m]
          /\ \A m \in Parent : pr[m] = IF m = n THEN a ELSE IF m = x THEN n ELSE g.prev[m]
      BY <1>1, <2>7, <3>1 DEF Store
    <3> HIDE DEF pr, ne
    <3>5. k = [g EXCEPT !.parent = pa, !.first = g.first, !.last = g.last, !.prev = pr, !.next = ne, !.crashed = FALSE]
      BY <2>4, <2>7, <2>14, <3>2 DEF Heap
    <3> HIDE DEF k
    <3>6. /\ k \in Heap
          /\ k.parent = pa /\ k.first = g.first /\ k.last = g.last /\ k.prev = pr /\ k.next = ne
          /\ k.pool = g.pool /\ k.crashed = FALSE
      <4> HIDE DEF pa
      <4> QED
        BY <2>7, <3>2, <3>5 DEF Heap
    <3>7. LinkedBetween(k, g, p, a, x, n)
      BY <3>3, <3>4, <3>6 DEF LinkedBetween
    <3>8. j \in 1 .. Len(kids[p]) + 1 /\ LinkedBetween(k, g, p, ItemAt(kids[p], j - 1), ItemAt(kids[p], j), n)
      BY <2>11, <3>7 DEF s
    <3>9. TreeInv(k) /\ Alive(k) = Alive(h) /\ Laid(k, [kids EXCEPT ![p] = Inserted(kids[p], j, n)])
      BY <1>1, <2>2, <2>3, <2>5, <2>6, <3>6, <3>8, Attached
    <3> QED
      BY <2>1, <2>12, <2>14, <3>9 DEF s
  <2> QED
    BY <2>13, <2>14
<1>4. PICK old : Laid(h, old)
  BY DEF TreeInv, Sound
<1> QED
  BY <1>1, <1>2, <1>3, <1>4

-----------------------------------------------------------------------------
(* The theorem. *)

(* Lists of children that are laid out are pointers that agree.            *)
LEMMA TreeLinked ==
  ASSUME NEW h, TreeInv(h)
  PROVE  LinksAgree(h)
<1>1. PICK kids : Laid(h, kids)
  BY DEF TreeInv, Sound
<1>2. h \in Heap /\ LooseEnds(h) /\ Housed(h)
  BY DEF TreeInv, Sound
<1> SUFFICES ASSUME NEW p \in Alive(h) \union {Doc}
             PROVE  LET ch == Children(h, p)
                    IN /\ ToSet(ch) = {n \in Alive(h) : h.parent[n] = p}
                       /\ h.last[p] = IF ch = <<>> THEN Null ELSE Last(ch)
                       /\ \A i \in DOMAIN ch : h.prev[ch[i]] = IF i = 1 THEN Null ELSE ch[i-1]
                       /\ h.parent[p] \in Alive(h) \union {Null, Doc}
  BY Zenon DEF LinksAgree
<1>3. p \in Parent /\ p # Null
  BY HeapAssumption DEF Alive, Parent
<1> DEFINE s == kids[p]
<1>4. Children(h, p) = s
  BY <1>1, <1>2, <1>3, ChildrenListed
<1>5. s \in Seq(Node) /\ Chain(h, p, s)
  BY <1>1, <1>3 DEF Laid
<1>6. \A n \in Parent : h.parent[n] = p => \E i \in 1 .. Len(s) : s[i] = n
  BY <1>1, <1>3 DEF Laid
<1> HIDE DEF s
<1>7. Len(s) \in Nat /\ DOMAIN s = 1 .. Len(s) /\ \A i \in 1 .. Len(s) : s[i] \in Node /\ s[i] \in Parent
  BY <1>5 DEF Parent
<1>8. ToSet(s) = {n \in Alive(h) : h.parent[n] = p}
  <2>1. ASSUME NEW i \in 1 .. Len(s) PROVE s[i] \in Alive(h) /\ h.parent[s[i]] = p
    <3>1. h.parent[s[i]] = p
      BY <1>5 DEF Chain
    <3> QED
      BY <1>2, <1>3, <1>7, <3>1 DEF Housed
  <2>2. ASSUME NEW n \in Alive(h), h.parent[n] = p PROVE n \in ToSet(s)
    <3>1. n \in Parent
      BY DEF Alive, Parent
    <3> QED
      BY <1>6, <1>7, <2>2, <3>1 DEF ToSet
  <2> QED
    BY <1>7, <2>1, <2>2 DEF ToSet
<1>9. h.last[p] = IF s = <<>> THEN Null ELSE Last(s)
  <2>1. h.last[p] = ItemAt(s, Len(s))
    BY <1>5 DEF Chain
  <2>2. s = <<>> => Len(s) = 0
    OBVIOUS
  <2>3. s # <<>> => Len(s) \in 1 .. Len(s)
    BY <1>5, <1>7, EmptySeq
  <2> QED
    BY <1>7, <2>1, <2>2, <2>3 DEF ItemAt, Last
<1>10. ASSUME NEW i \in 1 .. Len(s) PROVE h.prev[s[i]] = IF i = 1 THEN Null ELSE s[i - 1]
  <2>1. h.prev[s[i]] = ItemAt(s, i - 1)
    BY <1>5 DEF Chain
  <2>2. i # 1 => i - 1 \in 1 .. Len(s)
    BY <1>7
  <2>3. i = 1 => i - 1 \notin 1 .. Len(s)
    BY <1>7
  <2> QED
    BY <2>1, <2>2, <2>3 DEF ItemAt
<1>11. h.parent[p] \in Alive(h) \union {Null, Doc}
  BY <1>2, <1>3 DEF Housed
<1> QED
  BY <1>4, <1>7, <1>8, <1>9, <1>10, <1>11

(* What MayHang asks for. *)
LEMMA Hangable ==
  ASSUME TreeInv(heap), NEW p, NEW n, MayHang(p, n)
  PROVE  MayBeHung(heap, p, n)
<1> DEFINE b == Below(heap, n)
           S == Items(b)
<1>1. /\ p \in Parent /\ p \in Alive(heap) \union {Doc}
      /\ n \in Alive(heap) /\ n \in Node /\ n \in Parent
  BY DEF MayHang, Live, Alive, Parent, Node
<1>2. /\ b \in Seq(Node) /\ n \notin S
      /\ \A m \in Node : m \in S <=> heap.parent[m] \in S \union {n}
  BY <1>1, BelowAlive DEF TreeInv
<1>3. p \notin ToSet(Append(b, n))
  BY DEF MayHang, Subtree, PostOrder
<1> HIDE DEF b
<1>4. /\ Len(b) \in Nat /\ DOMAIN Append(b, n) = 1 .. Len(b) + 1 /\ Append(b, n)[Len(b) + 1] = n
      /\ \A i \in 1 .. Len(b) : Append(b, n)[i] = b[i]
  BY <1>1, <1>2
<1>5. p # n
  <2>1. Len(b) + 1 \in 1 .. Len(b) + 1
    BY <1>4
  <2> QED
    BY <1>3, <1>4, <2>1 DEF ToSet
<1>6. p \notin S
  <2>1. \A i \in 1 .. Len(b) : i \in 1 .. Len(b) + 1
    BY <1>4
  <2> QED
    BY <1>3, <1>4, <2>1 DEF ToSet, Items
<1>7. S \subseteq Node
  BY <1>2 DEF Items
<1> QED
  BY <1>1, <1>2, <1>5, <1>6, <1>7 DEF MayBeHung, IsBelow

(* What hangs below a node is the same when it is cut off.                 *)
LEMMA SameBelow ==
  ASSUME NEW h, Sound(h), NEW g, Sound(g), NEW n \in Node, g.parent = [h.parent EXCEPT ![n] = Null]
  PROVE  Items(Below(g, n)) = Items(Below(h, n))
<1> DEFINE B(k) == Items(Below(k, n))
<1>1. n \in Parent /\ n # Null /\ \A m \in Node : m \in Parent
  BY HeapAssumption DEF Parent
<1>2. \A m \in Node : g.parent[m] = IF m = n THEN Null ELSE h.parent[m]
  BY <1>1 DEF Sound, Heap
<1>3. ASSUME NEW k, Sound(k)
      PROVE  /\ B(k) \subseteq Node /\ n \notin B(k)
             /\ \A m \in Node : m \in B(k) <=> k.parent[m] \in B(k) \union {n}
  <2>1. Below(k, n) \in Seq(Node)
    BY <1>1, <1>3, BelowAlive
  <2>2. B(k) \subseteq Node
    BY <2>1 DEF Items
  <2> QED
    BY <1>1, <1>3, <2>2, BelowAlive
<1>4. ASSUME NEW k, Sound(k), NEW S \in SUBSET Node, \A m \in Node : k.parent[m] \in S \union {n} => m \in S \union {n}
      PROVE  B(k) \subseteq S \union {n}
  <2> DEFINE T == S \union {n}
  <2>1. PICK kids : Laid(k, kids)
    BY <1>4 DEF Sound
  <2>2. T \in SUBSET Parent /\ n \in T /\ \A m \in Node : k.parent[m] \in T => m \in T
    BY <1>1, <1>4
  <2> HIDE DEF T
  <2>3. Items(Below(k, n)) \subseteq T
    BY <1>1, <1>4, <2>1, <2>2, BelowReached DEF Sound
  <2> QED
    BY <2>3 DEF T
<1> HIDE DEF B
<1>5. Null \notin B(h) \union B(g) \union {n}
  BY <1>1, <1>3, HeapAssumption
<1>6. B(g) \subseteq B(h) \union {n}
  <2>1. B(h) \in SUBSET Node /\ \A m \in Node : g.parent[m] \in B(h) \union {n} => m \in B(h) \union {n}
    BY <1>2, <1>3, <1>5
  <2> QED
    BY <1>4, <2>1
<1>7. B(h) \subseteq B(g) \union {n}
  <2>1. B(g) \in SUBSET Node /\ \A m \in Node : h.parent[m] \in B(g) \union {n} => m \in B(g) \union {n}
    BY <1>2, <1>3
  <2> QED
    BY <1>4, <2>1
<1>8. B(g) = B(h)
  BY <1>3, <1>6, <1>7
<1> QED
  BY <1>8 DEF B

\* r is h without n and all that hangs below it.
Deleted(r, h, n) ==
  LET gone == Items(Below(h, n)) \union {n}
  IN /\ TreeInv(r)
     /\ Alive(r) = Alive(h) \ gone
     /\ \A kids : Laid(h, kids) => Laid(r, Cleared(Sans(kids, n), gone))

(* XMLDocument::DeleteNode and XMLNode::DeleteChild keep the invariant.    *)
LEMMA DocDeleteNodeKeeps ==
  ASSUME NEW h, TreeInv(h), NEW n \in Alive(h)
  PROVE  /\ Deleted(DocDeleteNode(h, n), h, n)
         /\ h.parent[n] # Null => Deleted(DeleteNode(Unlink(h, n), n), h, n)
<1> DEFINE g == InsertChildPreamble(h, n)
<1>1. Sound(g) /\ Loose(g, n) /\ Alive(g) = Alive(h) /\ g.parent = [h.parent EXCEPT ![n] = Null]
  BY PreambleKeeps
<1>2. DocDeleteNode(h, n) = DeleteNode(g, n) /\ (h.parent[n] # Null => g = Unlink(h, n))
  BY DEF DocDeleteNode, InsertChildPreamble
<1>3. \A kids : Laid(h, kids) => Laid(g, Sans(kids, n))
  BY PreambleLists
<1> HIDE DEF g
<1>4. Items(Below(g, n)) = Items(Below(h, n))
  BY <1>1, SameBelow DEF TreeInv, Alive
<1>5. Deleted(DeleteNode(g, n), h, n)
  BY <1>1, <1>3, <1>4, DeleteNodeKeeps DEF Loose, Deleted
<1> QED
  BY <1>2, <1>5

(* A new node may be hung on any other in use: nothing hangs below it. *)
LEMMA NewHangable ==
  ASSUME NEW h, TreeInv(h), NEW p \in {"element", "leaf"}, CanAllocate(h, p), NEW e \in Alive(h)
  PROVE  MayBeHung(NewNode(h, p), e, NewAddress(h, p))
<1> DEFINE g == NewNode(h, p)
           x == NewAddress(h, p)
<1>1. x \in Alive(g) \ Alive(h) /\ Alive(h) \subseteq Alive(g) /\ SamePointers(g, h)
  BY NewNodeKeeps
<1> HIDE DEF g, x
<1>2. x \in Node /\ x # Null /\ x # Doc /\ e \in Parent
  BY <1>1, HeapAssumption DEF Alive, Parent
<1>3. ASSUME NEW m \in Node PROVE g.parent[m] # x
  <2>1. m \in Parent /\ g.parent[m] = h.parent[m]
    BY <1>1 DEF SamePointers, Parent
  <2> QED
    BY <1>1, <1>2, <2>1 DEF TreeInv, Sound, Housed
<1>4. IsBelow({}, g, x)
  BY <1>3 DEF IsBelow
<1>5. MayBeHung(g, e, x)
  BY <1>1, <1>2, <1>4 DEF MayBeHung
<1> QED
  BY <1>5 DEF g, x

(* So does XMLElement::SetText.                                            *)
LEMMA SetTextKeeps ==
  ASSUME NEW h, TreeInv(h), NEW e \in Alive(h),
         NEW t \in BOOLEAN, (t /\ h.first[e] \in Leaf) \/ CanAllocate(h, "leaf")
  PROVE  TreeInv(SetText(h, e, t))
<1>1. CASE t /\ h.first[e] \in Leaf
  BY <1>1 DEF SetText
<1>2. CASE ~(t /\ h.first[e] \in Leaf)
  <2> DEFINE g == NewNode(h, "leaf")
             x == NewAddress(h, "leaf")
  <2>1. SetText(h, e, t) = InsertFirstChild(g, e, x)
    BY <1>2 DEF SetText
  <2>2. TreeInv(g) /\ MayBeHung(g, e, x)
    BY <1>2, NewNodeKeeps, NewHangable
  <2> HIDE DEF g, x
  <2> QED
    BY <2>1, <2>2, InsertFirstKeeps
<1> QED
  BY <1>1, <1>2

(* So do setting and deleting an attribute.                                *)
LEMMA AttributesKeep ==
  ASSUME NEW h, TreeInv(h), NEW e \in Element, NEW a \in Name
  PROVE  \A k \in {FindOrCreateAttribute(h, e, a), DeleteAttribute(h, e, a)} : Unmoved(k, h)
<1> DEFINE s == h.attr[e]
           c == h.pool["attribute"].current
<1>1. h.attr[e] \in Seq(Name) /\ h.pool["attribute"] \in Pool
  BY DEF TreeInv, Sound, Heap, Kind
<1>2. s \in Seq(Name) /\ c \in Int
  <2> DEFINE b == h.pool["attribute"]
  <2>1. b \in Pool
    BY <1>1
  <2> HIDE DEF b
  <2>2. b.current \in Int
    BY <2>1 DEF Pool
  <2> QED
    BY <1>1, <2>2 DEF b
<1>3. CASE a \in ToSet(s)
  <2>1. FindOrCreateAttribute(h, e, a) = h
    BY <1>3 DEF FindOrCreateAttribute
  <2> DEFINE t == RemoveFirst(s, a)
             d == c - 1
  <2>2. DeleteAttribute(h, e, a) = WithAttributes(h, e, t, d)
    BY <1>3 DEF DeleteAttribute, WithAttributes
  <2>3. t \in Seq(Name)
    <3> HIDE DEF s
    <3> QED
      BY <1>2, <1>3, RemoveFirstSeq
  <2>4. d \in Int
    <3> HIDE DEF c
    <3> QED
      BY <1>2
  <2> HIDE DEF t, d
  <2> DEFINE k == WithAttributes(h, e, t, d)
  <2>5. Unmoved(k, h)
    BY <2>3, <2>4, NewAttributes
  <2>6. Unmoved(h, h)
    BY DEF Unmoved, SamePointers
  <2> HIDE DEF k
  <2>7. {FindOrCreateAttribute(h, e, a), DeleteAttribute(h, e, a)} = {h, k}
    BY <2>1, <2>2 DEF k
  <2> QED
    BY <2>5, <2>6, <2>7
<1>4. CASE a \notin ToSet(s)
  <2>1. DeleteAttribute(h, e, a) = h
    BY <1>4 DEF DeleteAttribute
  <2> DEFINE t == Append(s, a)
             d == c + 1
  <2>2. FindOrCreateAttribute(h, e, a) = WithAttributes(h, e, t, d)
    BY <1>4 DEF FindOrCreateAttribute, WithAttributes
  <2>3. t \in Seq(Name)
    <3> HIDE DEF s
    <3> QED
      BY <1>2
  <2>4. d \in Int
    <3> HIDE DEF c
    <3> QED
      BY <1>2
  <2> HIDE DEF t, d
  <2> DEFINE k == WithAttributes(h, e, t, d)
  <2>5. Unmoved(k, h)
    BY <2>3, <2>4, NewAttributes
  <2>6. Unmoved(h, h)
    BY DEF Unmoved, SamePointers
  <2> HIDE DEF k
  <2>7. {FindOrCreateAttribute(h, e, a), DeleteAttribute(h, e, a)} = {h, k}
    BY <2>1, <2>2 DEF k
  <2> QED
    BY <2>5, <2>6, <2>7
<1> QED
  BY <1>3, <1>4

(* An empty document.                                                      *)
LEMMA TreeInit == TreeInv(EmptyHeap)
<1> DEFINE h == EmptyHeap
           none == [n \in Parent |-> Null]
           kids == [p \in Parent |-> <<>>]
<1>1. NewPool \in Pool
  <2>1. <<>> \in Seq(Node)
    OBVIOUS
  <2> QED
    BY <2>1 DEF NewPool, Pool
<1>2. none \in [Parent -> Node \union {Null}] /\ none \in [Parent -> Parent \union {Null}]
  OBVIOUS
<1>3. [e \in Element |-> <<>>] \in [Element -> Seq(Name)]
  <2>1. <<>> \in Seq(Name)
    OBVIOUS
  <2> QED
    BY <2>1
<1>4. /\ h.parent = none /\ h.first = none /\ h.last = none /\ h.prev = none /\ h.next = none
      /\ h.pool = [p \in Kind |-> NewPool] /\ h.crashed = FALSE
  BY DEF EmptyHeap, Kind
<1>5. h \in Heap
  BY <1>1, <1>2, <1>3, Zenon DEF EmptyHeap, Heap, Kind
<1> HIDE DEF h
<1>6. Laid(h, kids)
  <2>1. kids \in [Parent -> Seq(Node)]
    <3>1. <<>> \in Seq(Node)
      OBVIOUS
    <3> QED
      BY <3>1
  <2>2. \A p \in Parent : kids[p] = <<>> /\ Len(kids[p]) = 0
    OBVIOUS
  <2>3. \A n \in Parent : h.parent[n] = Null /\ h.first[n] = Null /\ h.last[n] = Null
    BY <1>4
  <2> HIDE DEF kids
  <2>4. \A p \in Parent : Chain(h, p, kids[p])
    BY <2>2, <2>3 DEF Chain, ItemAt
  <2> QED
    BY <2>1, <2>3, <2>4 DEF Laid
<1>7. Grounded(h)
  BY <1>4, HeapAssumption DEF Grounded, Parent
<1>8. PoolsOK(h)
  <2>1. h.pool["element"] = NewPool /\ h.pool["leaf"] = NewPool
    BY <1>4 DEF Kind
  <2>2. Len(ElementBlocks) \in Nat /\ Len(LeafBlocks) \in Nat
    BY HeapAssumption
  <2>3. Items(<<>>) = {} /\ Distinct(<<>>)
    BY DEF Items, Distinct
  <2>4. NewPool.root = <<>> /\ NewPool.blocks = 0
    BY DEF NewPool
  <2> QED
    BY <2>1, <2>2, <2>3, <2>4 DEF PoolsOK, PoolOK
<1>9. Housed(h) /\ LooseEnds(h)
  BY <1>4 DEF Housed, LooseEnds
<1> QED
  BY <1>4, <1>5, <1>6, <1>7, <1>8, <1>9 DEF TreeInv, Sound, h

(* Every call of the library keeps the invariant.                          *)
LEMMA TreeStep == TreeInv(heap) /\ [Next]_vars => TreeInv(heap')
<1> SUFFICES ASSUME TreeInv(heap), [Next]_vars PROVE TreeInv(heap')
  OBVIOUS
<1>1. CASE New
  BY <1>1, NewNodeKeeps DEF New
<1>2. ASSUME NEW p \in Parent, NEW n \in Node, InsertEnd(p, n) PROVE TreeInv(heap')
  BY <1>2, Hangable, InsertEndKeeps DEF InsertEnd
<1>3. ASSUME NEW p \in Parent, NEW n \in Node, InsertFirst(p, n) PROVE TreeInv(heap')
  BY <1>3, Hangable, InsertFirstKeeps DEF InsertFirst
<1>4. ASSUME NEW p \in Parent, NEW n \in Node, NEW a \in Node, InsertAfter(p, a, n) PROVE TreeInv(heap')
  <2>1. MayBeHung(heap, p, n) /\ a \in Alive(heap) /\ a # n /\ ~(heap.next[a] = n /\ heap.next[n] = Null)
    BY <1>4, Hangable DEF InsertAfter, SafeAfter, Live
  <2>2. TreeInv(InsertAfterChild(heap, p, a, n))
    BY <2>1, InsertAfterKeeps
  <2> QED
    BY <1>4, <2>2 DEF InsertAfter
<1>5. ASSUME NEW p \in Parent, NEW n \in Node, DeleteChild(p, n) PROVE TreeInv(heap')
  <2>1. p # Null
    BY HeapAssumption DEF Parent
  <2> QED
    BY <1>5, <2>1, DocDeleteNodeKeeps DEF DeleteChild, Live, Deleted
<1>6. ASSUME NEW n \in Node, Delete(n) PROVE TreeInv(heap')
  BY <1>6, DocDeleteNodeKeeps DEF Delete, Live, Deleted
<1>7. ASSUME NEW e \in Element, Empty(e) PROVE TreeInv(heap')
  BY <1>7, DeleteChildrenKeeps DEF Empty, Parent, Node
<1>8. ASSUME NEW e \in Element, ChangeText(e) PROVE TreeInv(heap')
  BY <1>8, SetTextKeeps DEF ChangeText, Live
<1>9. CASE Clear
  BY <1>9, DeleteChildrenKeeps DEF Clear, Parent
<1>10. ASSUME NEW e \in Element, NEW a \in Name, SetAttribute(e, a) PROVE TreeInv(heap')
  BY <1>10, AttributesKeep DEF SetAttribute, Unmoved
<1>11. ASSUME NEW e \in Element, NEW a \in Name, RemoveAttribute(e, a) PROVE TreeInv(heap')
  BY <1>11, AttributesKeep DEF RemoveAttribute, Unmoved
<1>12. CASE UNCHANGED vars
  BY <1>12 DEF vars
<1>13. CASE \E p \in Parent, n \in Node :
                \/ InsertEnd(p, n)
                \/ InsertFirst(p, n)
                \/ \E a \in Node : InsertAfter(p, a, n)
                \/ DeleteChild(p, n)
  <2>1. PICK p \in Parent, n \in Node :
          \/ InsertEnd(p, n)
          \/ InsertFirst(p, n)
          \/ \E a \in Node : InsertAfter(p, a, n)
          \/ DeleteChild(p, n)
    BY <1>13
  <2>2. CASE \E a \in Node : InsertAfter(p, a, n)
    BY <2>2, <1>4, ZenonT(30)
  <2> QED
    BY <2>1, <2>2, <1>2, <1>3, <1>5, ZenonT(30)
<1>14. CASE \E n \in Node : Delete(n)
  BY <1>14, <1>6, Zenon
<1>15. CASE \E e \in Element : Empty(e) \/ ChangeText(e)
  BY <1>15, <1>7, <1>8, Zenon
<1>16. CASE \E e \in Element, a \in Name : SetAttribute(e, a) \/ RemoveAttribute(e, a)
  BY <1>16, <1>10, <1>11, Zenon
<1> QED
  BY <1>1, <1>9, <1>12, <1>13, <1>14, <1>15, <1>16, Zenon DEF Next

(* However a caller moves, cuts off and destroys nodes, the pointers agree   *)
(* and none of them leads into a free list; no insert follows a null        *)
(* pointer (XMLNode::Unlink, the three inserts, DeleteChildren).             *)
THEOREM PointersAgree == Spec => []WellLinked
<1> DEFINE Inv == TreeInv(heap)
<1>1. Init => Inv
  BY TreeInit DEF Init
<1>2. Inv /\ [Next]_vars => Inv'
  BY TreeStep
<1>3. Inv => WellLinked
  BY TreeLinked DEF WellLinked, TreeInv, Sound
<1> HIDE DEF Inv
<1> QED
  BY <1>1, <1>2, <1>3, PTL DEF Spec
-----------------------------------------------------------------------------
(* That every item is counted once.  The pools' counts of what is in use are *)
(* right after every single destruction (Books).  The counts of what has     *)
(* never been inserted are not: while a node that hung is being deleted, it  *)
(* hangs nowhere and is counted as tracked.                                  *)

\* The untracked items are those of T.
Untracked(h, T) ==
  \A p \in {"element", "leaf"} : h.pool[p].untracked = Cardinality(Of(T, p))

Strays(h) == {n \in Alive(h) : h.parent[n] = Null}

\* Untracked nodes are no longer counted right once the parser has deleted some.
TrackedIf(sure, h, T) == sure => Untracked(h, T)

Tallied(h, sure) == Books(h) /\ TrackedIf(sure, h, Strays(h))

Booked(h) == Tallied(h, TRUE)

(* The preamble of an insert or a deletion: a node that has hung comes out of *)
(* the tree, one that has not is tracked, and either is left out of the count. *)
LEMMA PreambleCounts ==
  ASSUME NEW sure, NEW h, TreeInv(h), Tallied(h, sure), NEW n \in Alive(h)
  PROVE  LET g == InsertChildPreamble(h, n)
         IN /\ Books(g) /\ TrackedIf(sure, g, Strays(g) \ {n})
            /\ Strays(g) \ {n} = Strays(h) \ {n}
<1> DEFINE g == InsertChildPreamble(h, n)
<1>1. n \in Node /\ n \in Parent /\ h \in Heap
  BY DEF Alive, Parent, TreeInv, Sound
<1>2. Alive(g) = Alive(h) /\ g.parent = [h.parent EXCEPT ![n] = Null]
  BY PreambleKeeps
<1>3. \A m \in Parent : g.parent[m] = IF m = n THEN Null ELSE h.parent[m]
  BY <1>1, <1>2 DEF Heap
<1>4. Strays(g) \ {n} = Strays(h) \ {n}
  BY <1>2, <1>3 DEF Strays, Alive, Parent
<1>5. CASE h.parent[n] # Null
  <2>1. g = Detach(h, n)
    BY <1>5 DEF InsertChildPreamble, Detach
  <2>2. PICK kids : Laid(h, kids)
    BY DEF TreeInv, Sound
  <2>3. g.attr = h.attr /\ g.pool = h.pool
    BY <1>1, <2>1, <2>2, Detached DEF TreeInv, Sound
  <2> HIDE DEF g
  <2>4. AttributeItems(g) = AttributeItems(h)
    BY <2>3 DEF AttributeItems
  <2>5. Books(g)
    BY <1>2, <2>3, <2>4 DEF Tallied, Books
  <2>6. Strays(g) \ {n} = Strays(h)
    BY <1>4, <1>5 DEF Strays
  <2>7. TrackedIf(sure, g, Strays(h))
    BY <2>3 DEF Tallied, TrackedIf, Untracked
  <2> QED
    BY <2>5, <2>6, <2>7 DEF g
<1>6. CASE h.parent[n] = Null
  <2>1. g = Track(h, n)
    BY <1>6 DEF InsertChildPreamble
  <2>2. /\ g.attr = h.attr
        /\ \A p \in Kind : g.pool[p].current = h.pool[p].current
        /\ \A p \in {"element", "leaf"} :
             g.pool[p].untracked = IF p = PoolOf(n) THEN h.pool[p].untracked - 1 ELSE h.pool[p].untracked
    BY <1>1, <2>1, Tracked DEF TreeInv
  <2> HIDE DEF g
  <2>3. AttributeItems(g) = AttributeItems(h)
    BY <2>2 DEF AttributeItems
  <2>4. Books(g)
    BY <1>2, <2>2, <2>3 DEF Tallied, Books, Kind
  <2>5. n \in Strays(h) /\ Strays(h) \subseteq Alive(h)
    BY <1>6 DEF Strays
  <2>6. IsFiniteSet(Strays(h))
    BY <2>5, FS_Subset DEF Tallied, Books
  <2>7. ASSUME sure, NEW p \in {"element", "leaf"}
        PROVE  g.pool[p].untracked = Cardinality(Of(Strays(h) \ {n}, p))
    <3>1. Cardinality(Of(Strays(h) \ {n}, p)) =
            IF p = PoolOf(n) THEN Cardinality(Of(Strays(h), p)) - 1 ELSE Cardinality(Of(Strays(h), p))
      BY <2>5, <2>6, OneMore
    <3>2. h.pool[p].untracked = Cardinality(Of(Strays(h), p))
      BY <2>7 DEF Tallied, TrackedIf, Untracked
    <3> QED
      BY <2>2, <3>1, <3>2
  <2> QED
    BY <1>4, <2>4, <2>7 DEF TrackedIf, Untracked, g
<1> QED
  BY <1>4, <1>5, <1>6

(* Then it hangs, and nothing is left to count. *)
LEMMA HungCounts ==
  ASSUME NEW sure, NEW h, TreeInv(h), Tallied(h, sure), NEW n \in Alive(h), NEW p \in Parent,
         NEW g, g = InsertChildPreamble(h, n),
         NEW k \in Heap, k.pool = g.pool, k.attr = g.attr, k.parent = [g.parent EXCEPT ![n] = p]
  PROVE  Tallied(k, sure) /\ Strays(k) = Strays(h) \ {n}
<1>1. n \in Node /\ n \in Parent /\ p # Null
  BY HeapAssumption DEF Alive, Parent
<1>2. g \in Heap
  BY PreambleKeeps DEF Sound
<1>3. /\ Books(g) /\ TrackedIf(sure, g, Strays(g) \ {n})
      /\ Strays(g) \ {n} = Strays(h) \ {n}
  BY PreambleCounts
<1>4. SamePools(k, g)
  BY DEF SamePools
<1>5. Alive(k) = Alive(g)
  BY <1>2, <1>4, SamePoolsSame
<1>6. \A m \in Parent : k.parent[m] = IF m = n THEN p ELSE g.parent[m]
  BY <1>1, <1>2 DEF Heap
<1>7. Strays(k) = Strays(g) \ {n}
  BY <1>1, <1>5, <1>6 DEF Strays, Alive, Parent
<1>8. AttributeItems(k) = AttributeItems(g)
  BY DEF AttributeItems
<1>9. Books(k)
  BY <1>3, <1>5, <1>8 DEF Books
<1>10. TrackedIf(sure, k, Strays(k))
  BY <1>3, <1>7 DEF TrackedIf, Untracked
<1> QED
  BY <1>3, <1>7, <1>9, <1>10 DEF Tallied

(* The three inserts. *)
LEMMA InsertsCount ==
  ASSUME NEW sure, NEW h, TreeInv(h), Tallied(h, sure), NEW p, NEW n, MayBeHung(h, p, n)
  PROVE  /\ Tallied(InsertEndChild(h, p, n), sure) /\ Tallied(InsertFirstChild(h, p, n), sure)
         /\ Strays(InsertEndChild(h, p, n)) = Strays(h) \ {n}
<1> DEFINE g == InsertChildPreamble(h, n)
           k == InsertEndChild(h, p, n)
           l == InsertFirstChild(h, p, n)
<1>1. n \in Alive(h) /\ p \in Parent
  BY DEF MayBeHung
<1>2. g \in Heap
  BY <1>1, PreambleKeeps DEF Sound
<1>3. k \in Heap /\ l \in Heap
  BY InsertEndKeeps, InsertFirstKeeps DEF TreeInv, Sound
<1>4. k.pool = g.pool /\ k.attr = g.attr /\ k.parent = [g.parent EXCEPT ![n] = p]
  <2> HIDE DEF g
  <2> QED
    BY <1>2 DEF InsertEndChild, Heap, g
<1>5. l.pool = g.pool /\ l.attr = g.attr /\ l.parent = [g.parent EXCEPT ![n] = p]
  <2> HIDE DEF g
  <2> QED
    BY <1>2 DEF InsertFirstChild, Heap, g
<1> HIDE DEF k, l
<1>6. Tallied(k, sure) /\ Strays(k) = Strays(h) \ {n}
  BY <1>1, <1>3, <1>4, HungCounts
<1>7. Tallied(l, sure)
  BY <1>1, <1>3, <1>5, HungCounts
<1> QED
  BY <1>6, <1>7 DEF k, l

LEMMA InsertAfterCounts ==
  ASSUME NEW sure, NEW h, TreeInv(h), Tallied(h, sure), NEW p, NEW n, MayBeHung(h, p, n),
         NEW a \in Alive(h), a # n, ~(h.next[a] = n /\ h.next[n] = Null)
  PROVE  Tallied(InsertAfterChild(h, p, a, n), sure)
<1> DEFINE g == InsertChildPreamble(h, n)
           k == InsertAfterChild(h, p, a, n)
<1>1. n \in Alive(h) /\ p \in Parent
  BY DEF MayBeHung
<1>2. g \in Heap
  BY <1>1, PreambleKeeps DEF Sound
<1>3. k \in Heap
  BY InsertAfterKeeps DEF TreeInv, Sound
<1>4. CASE h.parent[a] # p
  BY <1>4 DEF InsertAfterChild
<1>5. CASE h.parent[a] = p /\ h.next[a] = Null
  <2>1. k = InsertEndChild(h, p, n)
    BY <1>5 DEF InsertAfterChild
  <2> HIDE DEF k
  <2> QED
    BY <2>1, InsertsCount DEF k
<1>6. CASE h.parent[a] = p /\ h.next[a] # Null
  <2>1. k.pool = g.pool /\ k.attr = g.attr /\ k.parent = [g.parent EXCEPT ![n] = p]
    <3> HIDE DEF g
    <3> QED
      BY <1>2, <1>6 DEF InsertAfterChild, Heap, g
  <2> HIDE DEF k
  <2>2. Tallied(k, sure)
    BY <1>1, <1>3, <2>1, HungCounts
  <2> QED
    BY <2>2 DEF k
<1> QED
  BY <1>4, <1>5, <1>6

(* Destroying nodes with all that hangs below them leaves the others counted. *)
LEMMA PrunedCounts ==
  ASSUME NEW sure, NEW h, Sound(h), NEW s \in Seq(Node), Distinct(s), Items(s) \subseteq Alive(h),
         Books(h), TrackedIf(sure, h, Strays(h) \ Items(s))
  PROVE  Tallied(DestroyAll(h, s), sure) /\ Strays(DestroyAll(h, s)) = Strays(h) \ Items(s)
<1> DEFINE g == DestroyAll(h, s)
<1>1. PICK kids : Laid(h, kids)
  BY DEF Sound
<1>2. Without(g, h, Items(s))
  BY <1>1, AllGone DEF Sound
<1> HIDE DEF g
<1>3. Strays(g) = Strays(h) \ Items(s)
  BY <1>2 DEF Without, Strays, Alive, Parent
<1>4. Books(g)
  BY <1>2 DEF Without
<1>5. TrackedIf(sure, g, Strays(h) \ Items(s))
  BY <1>2 DEF Without, TrackedIf, Untracked
<1> QED
  BY <1>3, <1>4, <1>5 DEF Tallied, g

(* XMLNode::DeleteChildren: what it destroys has all been inserted. *)
LEMMA DeleteChildrenCounts ==
  ASSUME NEW sure, NEW h, TreeInv(h), Tallied(h, sure), NEW p \in Parent
  PROVE  Tallied(DeleteChildren(h, p), sure) /\ Strays(DeleteChildren(h, p)) = Strays(h)
<1> DEFINE s == Below(h, p)
<1>1. /\ s \in Seq(Node) /\ Distinct(s) /\ Items(s) \subseteq Alive(h)
      /\ \A m \in Node : m \in Items(s) <=> h.parent[m] \in Items(s) \union {p}
  BY BelowAlive DEF TreeInv
<1> HIDE DEF s
<1>2. \A m \in Items(s) : h.parent[m] # Null
  BY <1>1, HeapAssumption DEF Alive, Parent
<1>3. Strays(h) \ Items(s) = Strays(h)
  BY <1>2 DEF Strays
<1>4. Sound(h) /\ Books(h) /\ TrackedIf(sure, h, Strays(h) \ Items(s))
  BY <1>3 DEF TreeInv, Tallied
<1>5. Tallied(DestroyAll(h, s), sure) /\ Strays(DestroyAll(h, s)) = Strays(h)
  BY <1>1, <1>3, <1>4, PrunedCounts
<1> QED
  BY <1>5 DEF DeleteChildren, s

(* The deletion of one node, behind the same preamble as an insert. *)
LEMMA DeleteNodeCounts ==
  ASSUME NEW sure, NEW h, TreeInv(h), Tallied(h, sure), NEW n \in Alive(h)
  PROVE  /\ Tallied(DocDeleteNode(h, n), sure)
         /\ Strays(DocDeleteNode(h, n)) = Strays(h) \ {n}
         /\ h.parent[n] # Null => Tallied(DeleteNode(Unlink(h, n), n), sure)
<1> DEFINE g == InsertChildPreamble(h, n)
           b == Below(g, n)
           s == Append(b, n)
<1>1. Sound(g) /\ Loose(g, n)
  BY PreambleKeeps
<1>2. DocDeleteNode(h, n) = DeleteNode(g, n) /\ (h.parent[n] # Null => g = Unlink(h, n))
  BY DEF DocDeleteNode, InsertChildPreamble
<1>3. /\ Books(g) /\ TrackedIf(sure, g, Strays(g) \ {n})
      /\ Strays(g) \ {n} = Strays(h) \ {n}
  BY PreambleCounts
<1>4. DeleteNode(g, n) = DestroyAll(g, s)
  BY DEF DeleteNode, PostOrder
<1> HIDE DEF g
<1>5. n \in Node /\ n \in Parent /\ n \in Alive(g) /\ g.parent[n] = Null
  BY <1>1 DEF Loose, Alive, Parent
<1>6. /\ b \in Seq(Node) /\ Distinct(b) /\ n \notin Items(b) /\ Items(b) \subseteq Alive(g)
      /\ \A m \in Node : m \in Items(b) <=> g.parent[m] \in Items(b) \union {n}
  BY <1>1, <1>5, BelowAlive
<1> HIDE DEF b
<1>7. s \in Seq(Node) /\ Distinct(s) /\ Items(s) = Items(b) \union {n}
  BY <1>5, <1>6, BehindAll
<1>8. \A m \in Items(b) : g.parent[m] # Null
  BY <1>6, HeapAssumption DEF Alive, Parent
<1>9. Strays(g) \ Items(s) = Strays(g) \ {n}
  BY <1>7, <1>8 DEF Strays
<1> HIDE DEF s
<1>10. TrackedIf(sure, g, Strays(g) \ Items(s)) /\ Items(s) \subseteq Alive(g)
  BY <1>3, <1>5, <1>6, <1>7, <1>9
<1>11. Tallied(DestroyAll(g, s), sure) /\ Strays(DestroyAll(g, s)) = Strays(g) \ Items(s)
  BY <1>1, <1>3, <1>7, <1>10, PrunedCounts
<1> QED
  BY <1>2, <1>3, <1>4, <1>9, <1>11

(* Alloc counts the item it takes in both counters. *)
LEMMA AllocCounts ==
  ASSUME NEW pool \in Pool, NEW source
  PROVE  /\ Alloc(pool, source).current = pool.current + 1
         /\ Alloc(pool, source).untracked = pool.untracked + 1
<1> DEFINE t == Tail(Free(pool, source))
           c == IF pool.root = <<>> THEN pool.blocks + 1 ELSE pool.blocks
<1>1. Alloc(pool, source) = [pool EXCEPT !.root = t, !.blocks = c, !.current = @ + 1, !.untracked = @ + 1]
  BY DEF Alloc
<1> HIDE DEF t, c
<1> QED
  BY <1>1 DEF Pool

(* A new node is in use, hangs nowhere and is untracked. *)
LEMMA NewNodeCounts ==
  ASSUME NEW sure, NEW h, TreeInv(h), Tallied(h, sure), NEW p \in {"element", "leaf"}, CanAllocate(h, p)
  PROVE  /\ Tallied(NewNode(h, p), sure)
         /\ Strays(NewNode(h, p)) = Strays(h) \union {NewAddress(h, p)}
<1> DEFINE g == NewNode(h, p)
           x == NewAddress(h, p)
           b == Alloc(h.pool[p], SourceOf(p))
<1>1. /\ x \in Alive(g) \ Alive(h)
      /\ SamePointers(g, h)
      /\ Alive(g) = Alive(h) \union {x}
      /\ PoolOf(x) = p
      /\ g.attr = h.attr
      /\ \A k \in Kind : g.pool[k] = IF k = p THEN b ELSE h.pool[k]
  BY NewNodeKeeps
<1>2. h.pool[p] \in Pool
  BY DEF TreeInv, Sound, Heap, Kind
<1>3. b.current = h.pool[p].current + 1 /\ b.untracked = h.pool[p].untracked + 1
  BY <1>2, AllocCounts
<1> HIDE DEF g, x, b
<1>4. h.parent[x] = Null
  BY <1>1 DEF TreeInv, Sound, Housed, Alive, Parent
<1>5. Strays(g) = Strays(h) \union {x} /\ x \notin Strays(h)
  BY <1>1, <1>4 DEF Strays, SamePointers
<1>6. IsFiniteSet(Alive(h)) /\ Strays(h) \subseteq Alive(h)
  BY DEF Tallied, Books, Strays
<1>7. IsFiniteSet(Strays(h)) /\ IsFiniteSet(Alive(g))
  BY <1>1, <1>6, FS_Subset, FS_AddElement
<1>8. \A k \in {"element", "leaf"} :
        /\ h.pool[k].current = Cardinality(Of(Alive(h), k))
        /\ sure => h.pool[k].untracked = Cardinality(Of(Strays(h), k))
  BY DEF Tallied, Books, TrackedIf, Untracked
<1>9. ASSUME NEW k \in {"element", "leaf"}
      PROVE  /\ g.pool[k].current = Cardinality(Of(Alive(g), k))
             /\ sure => g.pool[k].untracked = Cardinality(Of(Strays(g), k))
  <2>1. Cardinality(Of(Alive(h) \union {x}, k)) =
          IF k = p THEN Cardinality(Of(Alive(h), k)) + 1 ELSE Cardinality(Of(Alive(h), k))
    BY <1>1, <1>6, OneMore
  <2>2. Cardinality(Of(Strays(h) \union {x}, k)) =
          IF k = p THEN Cardinality(Of(Strays(h), k)) + 1 ELSE Cardinality(Of(Strays(h), k))
    BY <1>1, <1>5, <1>7, OneMore
  <2>3. g.pool[k] = IF k = p THEN b ELSE h.pool[k]
    BY <1>1 DEF Kind
  <2>4. CASE k = p
    BY <1>1, <1>3, <1>5, <1>8, <2>1, <2>2, <2>3, <2>4
  <2>5. CASE k # p
    BY <1>1, <1>5, <1>8, <2>1, <2>2, <2>3, <2>5
  <2> QED
    BY <2>4, <2>5
<1>10. AttributeItems(g) = AttributeItems(h) /\ g.pool["attribute"] = h.pool["attribute"]
  BY <1>1 DEF AttributeItems, Kind
<1>11. Books(g)
  BY <1>1, <1>7, <1>9, <1>10 DEF Tallied, Books
<1>12. TrackedIf(sure, g, Strays(g))
  BY <1>9 DEF TrackedIf, Untracked
<1> QED
  BY <1>5, <1>11, <1>12 DEF Tallied, g, x

(* SetText hangs the text it makes. *)
LEMMA SetTextCounts ==
  ASSUME NEW sure, NEW h, TreeInv(h), Tallied(h, sure), NEW e \in Alive(h),
         NEW t \in BOOLEAN, (t /\ h.first[e] \in Leaf) \/ CanAllocate(h, "leaf")
  PROVE  Tallied(SetText(h, e, t), sure)
<1>1. CASE t /\ h.first[e] \in Leaf
  BY <1>1 DEF SetText
<1>2. CASE ~(t /\ h.first[e] \in Leaf)
  <2> DEFINE g == NewNode(h, "leaf")
             x == NewAddress(h, "leaf")
  <2>1. SetText(h, e, t) = InsertFirstChild(g, e, x)
    BY <1>2 DEF SetText
  <2>2. TreeInv(g) /\ Tallied(g, sure) /\ MayBeHung(g, e, x)
    BY <1>2, NewNodeKeeps, NewNodeCounts, NewHangable
  <2> HIDE DEF g, x
  <2> QED
    BY <2>1, <2>2, InsertsCount
<1> QED
  BY <1>1, <1>2

(* Another list for one element, as long as its pool's counter moves. *)
LEMMA RelistedCounts ==
  ASSUME NEW sure, NEW h, TreeInv(h), Tallied(h, sure), NEW e \in Element, e \in Alive(h), NEW s \in Seq(Name), Distinct(s),
         NEW d \in Int, d = h.pool["attribute"].current - Len(h.attr[e]) + Len(s)
  PROVE  /\ Tallied(WithAttributes(h, e, s, d), sure)
         /\ Strays(WithAttributes(h, e, s, d)) = Strays(h)
<1> DEFINE k == WithAttributes(h, e, s, d)
<1>1. /\ Alive(k) = Alive(h) /\ SamePointers(k, h)
      /\ k.attr = [h.attr EXCEPT ![e] = s]
      /\ k.pool["attribute"].current = d
      /\ k.pool["element"] = h.pool["element"] /\ k.pool["leaf"] = h.pool["leaf"]
  BY NewAttributes DEF Unmoved
<1> HIDE DEF k
<1>2. h \in Heap
  BY DEF TreeInv, Sound
<1>3. /\ IsFiniteSet(AttributeItems(k))
      /\ Cardinality(AttributeItems(k)) = Cardinality(AttributeItems(h)) - Len(h.attr[e]) + Len(s)
  BY <1>1, <1>2, Relisted DEF Tallied, Books
<1>4. \A c \in Element : Distinct(k.attr[c]) /\ (c \in Alive(k) \/ k.attr[c] = <<>>)
  <2>1. \A c \in Element : k.attr[c] = IF c = e THEN s ELSE h.attr[c]
    BY <1>1, <1>2 DEF Heap
  <2> QED
    BY <1>1, <2>1 DEF Tallied, Books
<1>5. Books(k)
  BY <1>1, <1>3, <1>4 DEF Tallied, Books
<1>6. Strays(k) = Strays(h)
  BY <1>1 DEF Strays, SamePointers
<1>7. TrackedIf(sure, k, Strays(k))
  BY <1>1, <1>6 DEF Tallied, TrackedIf, Untracked
<1> QED
  BY <1>5, <1>6, <1>7 DEF Tallied, k

(* FindOrCreateAttribute appends what is not there; DeleteAttribute removes it. *)
LEMMA AttributesCount ==
  ASSUME NEW sure, NEW h, TreeInv(h), Tallied(h, sure), NEW e \in Element, e \in Alive(h), NEW a \in Name
  PROVE  Tallied(FindOrCreateAttribute(h, e, a), sure) /\ Tallied(DeleteAttribute(h, e, a), sure)
<1> DEFINE s == h.attr[e]
           c == h.pool["attribute"].current
<1>1. s \in Seq(Name) /\ Distinct(s)
  BY DEF TreeInv, Sound, Heap, Tallied, Books
<1>2. c \in Int
  BY FS_CardinalityType DEF Tallied, Books
<1>3. Len(s) \in Nat
  BY <1>1
<1>4. CASE a \in ToSet(s)
  <2>1. FindOrCreateAttribute(h, e, a) = h
    BY <1>4 DEF FindOrCreateAttribute
  <2> DEFINE t == RemoveFirst(s, a)
             d == c - 1
  <2>2. DeleteAttribute(h, e, a) = WithAttributes(h, e, t, d)
    BY <1>4 DEF DeleteAttribute, WithAttributes
  <2>3. t \in Seq(Name) /\ Len(t) = Len(s) - 1 /\ Distinct(t)
    <3> HIDE DEF s
    <3> QED
      BY <1>1, <1>4, RemoveFirstSeq
  <2>4. d \in Int /\ d = c - Len(s) + Len(t)
    <3> HIDE DEF c, s, t
    <3> QED
      BY <1>2, <1>3, <2>3
  <2> HIDE DEF t, d
  <2>5. Tallied(WithAttributes(h, e, t, d), sure)
    BY <2>3, <2>4, RelistedCounts
  <2> QED
    BY <2>1, <2>2, <2>5
<1>5. CASE a \notin ToSet(s)
  <2>1. DeleteAttribute(h, e, a) = h
    BY <1>5 DEF DeleteAttribute
  <2> DEFINE t == Append(s, a)
             d == c + 1
  <2>2. FindOrCreateAttribute(h, e, a) = WithAttributes(h, e, t, d)
    BY <1>5 DEF FindOrCreateAttribute, WithAttributes
  <2>3. t \in Seq(Name) /\ Len(t) = Len(s) + 1 /\ Distinct(t)
    <3> HIDE DEF s
    <3>1. /\ t \in Seq(Name) /\ Len(t) = Len(s) + 1 /\ t[Len(s) + 1] = a
          /\ \A i \in 1 .. Len(s) : t[i] = s[i]
      BY <1>1
    <3>2. \A i \in 1 .. Len(s) : s[i] # a
      BY <1>1, <1>5 DEF ToSet
    <3> HIDE DEF t
    <3>3. \A i \in 1 .. Len(t) : i \in 1 .. Len(s) \/ i = Len(s) + 1
      BY <1>3, <3>1
    <3>4. Distinct(t)
      BY <1>1, <3>1, <3>2, <3>3 DEF Distinct
    <3> QED
      BY <3>1, <3>4
  <2>4. d \in Int /\ d = c - Len(s) + Len(t)
    <3> HIDE DEF c, s, t
    <3> QED
      BY <1>2, <1>3, <2>3
  <2> HIDE DEF t, d
  <2>5. Tallied(WithAttributes(h, e, t, d), sure)
    BY <2>3, <2>4, RelistedCounts
  <2> QED
    BY <2>1, <2>2, <2>5
<1> QED
  BY <1>4, <1>5

(* Nothing is in use in an empty document. *)
LEMMA NothingYet == Alive(EmptyHeap) = {}
<1> DEFINE h == EmptyHeap
<1>1. h \in Heap /\ h.pool = [p \in Kind |-> NewPool]
  BY TreeInit DEF TreeInv, Sound, EmptyHeap, Kind
<1> SUFFICES ASSUME NEW x \in Node PROVE x \in FreeItems(h, PoolOf(x))
  BY DEF Alive
<1> HIDE DEF h
<1>2. PoolOf(x) \in {"element", "leaf"}
  BY DEF PoolOf
<1>3. \E b \in 1 .. Len(SourceOf(PoolOf(x))) : InBlock(x, SourceOf(PoolOf(x)), b)
  BY Blocks DEF Node, PoolOf, SourceOf
<1>4. h.pool[PoolOf(x)].blocks = 0
  BY <1>1, <1>2 DEF Kind, NewPool
<1>5. h.pool[PoolOf(x)].blocks + 1 = 1
  BY <1>4
<1>6. IsFree(x, h.pool[PoolOf(x)], SourceOf(PoolOf(x)))
  BY <1>3, <1>5 DEF IsFree
<1> QED
  BY <1>1, <1>2, <1>6, FreeMeans

(* And nothing is counted. *)
LEMMA CountedInit == Booked(EmptyHeap)
<1> DEFINE h == EmptyHeap
<1>1. /\ h.attr = [e \in Element |-> <<>>]
      /\ h.pool = [p \in Kind |-> NewPool]
  BY DEF EmptyHeap, Kind
<1> HIDE DEF h
<1>2. Alive(h) = {}
  BY NothingYet DEF h
<1>3. \A e \in Element : h.attr[e] = <<>> /\ DOMAIN h.attr[e] = {} /\ Len(h.attr[e]) = 0
  BY <1>1
<1>4. AttributeItems(h) = {}
  BY <1>3 DEF AttributeItems
<1>5. \A p \in Kind : h.pool[p].current = 0 /\ h.pool[p].untracked = 0
  BY <1>1 DEF NewPool
<1>6. IsFiniteSet({}) /\ Cardinality({}) = 0
  BY FS_EmptySet
<1>7. Strays(h) = {} /\ \A p : Of({}, p) = {}
  BY <1>2 DEF Strays, Of
<1>8. \A e \in Element : Distinct(h.attr[e]) /\ h.attr[e] = <<>>
  BY <1>3 DEF Distinct
<1>9. Books(h)
  BY <1>2, <1>4, <1>5, <1>6, <1>7, <1>8 DEF Books, Kind
<1>10. Untracked(h, Strays(h))
  BY <1>5, <1>6, <1>7 DEF TrackedIf, Untracked, Kind
<1> QED
  BY <1>9, <1>10 DEF Booked, Tallied, TrackedIf, h

(* Every call leaves each item counted once. *)
LEMMA CountedStep == TreeInv(heap) /\ Booked(heap) /\ [Next]_vars => Booked(heap')
<1> SUFFICES ASSUME TreeInv(heap), Tallied(heap, TRUE), [Next]_vars PROVE Tallied(heap', TRUE)
  BY Zenon DEF Booked
<1>1. CASE New
  BY <1>1, NewNodeCounts, Zenon DEF New
<1>2. ASSUME NEW p \in Parent, NEW n \in Node, InsertEnd(p, n) PROVE Tallied(heap', TRUE)
  BY <1>2, Hangable, InsertsCount DEF InsertEnd
<1>3. ASSUME NEW p \in Parent, NEW n \in Node, InsertFirst(p, n) PROVE Tallied(heap', TRUE)
  BY <1>3, Hangable, InsertsCount DEF InsertFirst
<1>4. ASSUME NEW p \in Parent, NEW n \in Node, NEW a \in Node, InsertAfter(p, a, n) PROVE Tallied(heap', TRUE)
  <2>1. MayBeHung(heap, p, n) /\ a \in Alive(heap) /\ a # n /\ ~(heap.next[a] = n /\ heap.next[n] = Null)
    BY <1>4, Hangable DEF InsertAfter, SafeAfter, Live
  <2>2. Tallied(InsertAfterChild(heap, p, a, n), TRUE)
    BY <2>1, InsertAfterCounts
  <2> QED
    BY <1>4, <2>2 DEF InsertAfter
<1>5. ASSUME NEW p \in Parent, NEW n \in Node, DeleteChild(p, n) PROVE Tallied(heap', TRUE)
  <2>1. p # Null
    BY HeapAssumption DEF Parent
  <2> QED
    BY <1>5, <2>1, DeleteNodeCounts DEF DeleteChild, Live
<1>6. ASSUME NEW n \in Node, Delete(n) PROVE Tallied(heap', TRUE)
  BY <1>6, DeleteNodeCounts DEF Delete, Live
<1>7. ASSUME NEW e \in Element, Empty(e) PROVE Tallied(heap', TRUE)
  BY <1>7, DeleteChildrenCounts DEF Empty, Parent, Node
<1>8. ASSUME NEW e \in Element, ChangeText(e) PROVE Tallied(heap', TRUE)
  BY <1>8, SetTextCounts DEF ChangeText, Live
<1>9. CASE Clear
  BY <1>9, DeleteChildrenCounts DEF Clear, Parent
<1>10. ASSUME NEW e \in Element, NEW a \in Name, SetAttribute(e, a) PROVE Tallied(heap', TRUE)
  BY <1>10, AttributesCount DEF SetAttribute, Live
<1>11. ASSUME NEW e \in Element, NEW a \in Name, RemoveAttribute(e, a) PROVE Tallied(heap', TRUE)
  BY <1>11, AttributesCount DEF RemoveAttribute, Live
<1>12. CASE UNCHANGED vars
  BY <1>12, Zenon DEF vars
<1>13. CASE \E p \in Parent, n \in Node :
                \/ InsertEnd(p, n)
                \/ InsertFirst(p, n)
                \/ \E a \in Node : InsertAfter(p, a, n)
                \/ DeleteChild(p, n)
  <2>1. PICK p \in Parent, n \in Node :
          \/ InsertEnd(p, n)
          \/ InsertFirst(p, n)
          \/ \E a \in Node : InsertAfter(p, a, n)
          \/ DeleteChild(p, n)
    BY <1>13
  <2>2. CASE \E a \in Node : InsertAfter(p, a, n)
    BY <2>2, <1>4, ZenonT(30)
  <2> QED
    BY <2>1, <2>2, <1>2, <1>3, <1>5, ZenonT(30)
<1>14. CASE \E n \in Node : Delete(n)
  BY <1>14, <1>6, Zenon
<1>15. CASE \E e \in Element : Empty(e) \/ ChangeText(e)
  BY <1>15, <1>7, <1>8, Zenon
<1>16. CASE \E e \in Element, a \in Name : SetAttribute(e, a) \/ RemoveAttribute(e, a)
  BY <1>16, <1>10, <1>11, Zenon
<1> QED
  BY <1>1, <1>9, <1>12, <1>13, <1>14, <1>15, <1>16, Zenon DEF Next

(* What the counts are of is what the property names. *)
LEMMA TallyAccounts ==
  ASSUME NEW sure, NEW h, TreeInv(h), Tallied(h, sure)
  PROVE  /\ ItemsCounted(h)
         /\ sure => \A p \in {"element", "leaf"} : h.pool[p].untracked = Cardinality(Orphans(h, p))
         /\ \A e \in Element : IsInjective(h.attr[e])
<1>1. \A s : s \in Seq(Node) \/ s \in Seq(Name) => (Distinct(s) => IsInjective(s))
  BY DEF Distinct, IsInjective
<1>2. h \in Heap /\ PoolsOK(h)
  BY DEF TreeInv, Sound
<1>3. ASSUME NEW p \in {"element", "leaf"}
      PROVE  /\ IsInjective(h.pool[p].root)
             /\ h.pool[p].current = Cardinality({n \in Alive(h) : PoolOf(n) = p})
             /\ sure => h.pool[p].untracked = Cardinality(Orphans(h, p))
  <2>1. h.pool[p] \in Pool
    BY <1>2 DEF Heap, Kind
  <2>2. h.pool[p].root \in Seq(Node)
    BY <2>1 DEF Pool
  <2>3. Distinct(h.pool[p].root)
    BY <1>2 DEF PoolsOK, PoolOK
  <2>4. {n \in Alive(h) : PoolOf(n) = p} = Of(Alive(h), p)
    BY DEF Of
  <2>5. Orphans(h, p) = Of(Strays(h), p)
    BY DEF Orphans, Strays, Of
  <2> QED
    BY <1>1, <2>2, <2>3, <2>4, <2>5 DEF Tallied, Books, TrackedIf, Untracked
<1>4. ASSUME NEW e \in Element PROVE IsInjective(h.attr[e])
  <2>1. h.attr[e] \in Seq(Name) /\ Distinct(h.attr[e])
    BY <1>2 DEF Heap, Tallied, Books
  <2> QED
    BY <1>1, <2>1
<1>5. h.pool["attribute"].current = Cardinality(AttributeItems(h))
  BY DEF Tallied, Books
<1> QED
  BY <1>3, <1>4, <1>5 DEF ItemsCounted

(* Whatever is made, moved, deleted or never used, each pool counts its items *)
(* in use, and as untracked just the nodes that were never inserted, so that  *)
(* SetTracked is called once in the life of a node (MemPoolT,                 *)
(* InsertChildPreamble, XMLDocument::DeleteNode).                             *)
THEOREM EverythingCounted == Spec => []Accounted
<1> DEFINE Inv == TreeInv(heap) /\ Booked(heap)
<1>1. Init => Inv
  BY TreeInit, CountedInit DEF Init
<1>2. Inv /\ [Next]_vars => Inv'
  BY TreeStep, CountedStep
<1>3. Inv => Accounted
  BY TallyAccounts DEF Accounted, Booked
<1> HIDE DEF Inv
<1> QED
  BY <1>1, <1>2, <1>3, PTL DEF Spec

-----------------------------------------------------------------------------
(* That the pointers implement the tree of OrderedTree.  Its lists are those *)
(* a reader finds, so that each call does to the lists what it does to the   *)
(* pointers; what hangs below a node, which the pointers reach by walking    *)
(* and the tree defines as the least closed set, is the same.               *)

\* The lists a reader finds.
KidsOf(h) == [p \in Parent |-> Children(h, p)]

(* They are the lists the pointers lay out.                                *)
LEMMA KidsAre ==
  ASSUME NEW h, TreeInv(h)
  PROVE  Laid(h, KidsOf(h)) /\ \A kids : Laid(h, kids) => KidsOf(h) = kids
<1>1. ASSUME NEW kids, Laid(h, kids) PROVE KidsOf(h) = kids
  <2>1. kids \in [Parent -> Seq(Node)]
    BY <1>1 DEF Laid
  <2>2. \A p \in Parent : Children(h, p) = kids[p]
    BY <1>1, ChildrenListed DEF TreeInv, Sound
  <2> QED
    BY <2>1, <2>2 DEF KidsOf
<1>2. PICK kids : Laid(h, kids)
  BY DEF TreeInv, Sound
<1> QED
  BY <1>1, <1>2

(* What the tree takes from the modules of sequences is the same there.    *)
LEMMA TreeToSet == \A s : Tree!ToSet(s) = ToSet(s)
BY DEF Tree!ToSet, ToSet

LEMMA TreeWithout == \A n : Tree!Without(n) = Sans(KidsOf(heap), n)
<1>1. \A s, n : Tree!RemoveFirst(s, n) = RemoveFirst(s, n)
  BY DEF Tree!RemoveFirst, RemoveFirst, Tree!RemoveAt, RemoveAt, Tree!SelectInSeq, SelectInSeq, Tree!Min, Min
<1> QED
  BY <1>1 DEF Tree!Without, Sans, KidsOf, Parent

(* Who names p as its parent is in p's list.                               *)
LEMMA Listed ==
  ASSUME NEW h, TreeInv(h), NEW p \in Parent
  PROVE  ToSet(KidsOf(h)[p]) = {m \in Node : h.parent[m] = p}
<1> DEFINE kids == KidsOf(h)
<1>1. Laid(h, kids)
  BY KidsAre
<1> HIDE DEF kids
<1>2. /\ p # Null /\ \A m \in Node : m \in Parent
      /\ kids[p] \in Seq(Node) /\ Chain(h, p, kids[p])
      /\ \A m \in Parent : h.parent[m] = p => \E i \in 1 .. Len(kids[p]) : kids[p][i] = m
  BY <1>1, HeapAssumption DEF Laid, Parent
<1>3. \A i \in 1 .. Len(kids[p]) : kids[p][i] \in Node /\ h.parent[kids[p][i]] = p
  BY <1>2 DEF Chain
<1>4. ToSet(kids[p]) = {kids[p][i] : i \in 1 .. Len(kids[p])}
  BY <1>2 DEF ToSet
<1>5. ToSet(kids[p]) = {m \in Node : h.parent[m] = p}
  BY <1>2, <1>3, <1>4
<1> QED
  BY <1>5 DEF kids

(* What hangs below a node of the tree is what the pointers reach.         *)
LEMMA TreeBelow ==
  ASSUME TreeInv(heap), NEW n \in Live \union {Doc}
  PROVE  Tree!Below(n) = Items(Below(heap, n)) \union {n}
<1> DEFINE all == Live \union {Doc}
           kids == KidsOf(heap)
           B == Items(Below(heap, n)) \union {n}
<1>1. n \in Parent /\ all \subseteq Parent
  BY DEF Live, Alive, Parent
<1>2. \A q \in Parent : ToSet(kids[q]) = {m \in Node : heap.parent[m] = q}
  BY Listed
<1>3. Tree!Below(n) =
        {m \in all : \A S \in SUBSET all : n \in S /\ (\A u \in S : ToSet(kids[u]) \subseteq S) => m \in S}
  <2>1. \A m \in all : kids[m] = Children(heap, m)
    BY <1>1 DEF KidsOf
  <2> QED
    BY <1>1, <2>1, TreeToSet DEF Tree!Below
<1> HIDE DEF kids
<1>4. /\ \A m \in Node : m \in Items(Below(heap, n)) <=> heap.parent[m] \in B
      /\ Items(Below(heap, n)) \subseteq Live
  BY <1>1, BelowAlive DEF TreeInv, Live
<1>5. B \in SUBSET all /\ n \in B /\ \A u \in B : ToSet(kids[u]) \subseteq B
  <2>1. B \subseteq all
    BY <1>4
  <2>2. ASSUME NEW u \in B PROVE ToSet(kids[u]) \subseteq B
    BY <1>1, <1>2, <1>4, <2>1
  <2> QED
    BY <2>1, <2>2
<1>6. ASSUME NEW S \in SUBSET all, n \in S, \A u \in S : ToSet(kids[u]) \subseteq S
      PROVE  B \subseteq S
  <2>1. \A m \in Node : heap.parent[m] \in S => m \in S
    BY <1>1, <1>2, <1>6
  <2>2. PICK some : Laid(heap, some)
    BY DEF TreeInv, Sound
  <2>3. S \in SUBSET Parent
    BY <1>1
  <2>4. Items(Below(heap, n)) \subseteq S
    BY <1>1, <1>6, <2>1, <2>2, <2>3, BelowReached DEF TreeInv, Sound
  <2> QED
    BY <1>6, <2>4
<1> HIDE DEF B
<1>7. Tree!Below(n) = B
  BY <1>3, <1>5, <1>6
<1> QED
  BY <1>7 DEF B

(* Where a node may be hung is not below it.                               *)
LEMMA NotBelow ==
  ASSUME TreeInv(heap), NEW p, NEW n, MayBeHung(heap, p, n)
  PROVE  p \notin Tree!Below(n)
<1>1. n \in Node /\ n \in Parent /\ n \in Live \union {Doc} /\ p # n
  BY DEF MayBeHung, Alive, Parent, Live
<1>2. PICK S : IsBelow(S, heap, n) /\ p \notin S
  BY DEF MayBeHung
<1>3. PICK kids : Laid(heap, kids)
  BY DEF TreeInv, Sound
<1> DEFINE T == S \union {n}
<1>4. T \in SUBSET Parent /\ n \in T /\ \A m \in Node : heap.parent[m] \in T => m \in T
  BY <1>1, <1>2 DEF IsBelow, Parent
<1> HIDE DEF T
<1>5. Items(Below(heap, n)) \subseteq T
  BY <1>1, <1>3, <1>4, BelowReached DEF TreeInv, Sound
<1>6. Tree!Below(n) \subseteq T
  BY <1>1, <1>4, <1>5, TreeBelow
<1> QED
  BY <1>1, <1>2, <1>6 DEF T

(* The inserts move a node in the tree as they move it in memory.          *)
LEMMA TreeInserts ==
  ASSUME TreeInv(heap), NEW p \in Parent, NEW n \in Node
  PROVE  /\ InsertEnd(p, n) => Tree!AddLast(p, n)
         /\ InsertFirst(p, n) => Tree!AddFirst(p, n)
         /\ \A a \in ToSet(Children(heap, p)) : InsertAfter(p, a, n) => Tree!AddAfter(p, a, n)
<1> DEFINE kids == KidsOf(heap)
<1>1. Laid(heap, kids) /\ kids[p] = Children(heap, p)
  BY KidsAre DEF KidsOf
<1>2. Tree!Without(n) = Sans(kids, n)
  BY TreeWithout
<1>3. ASSUME InsertEnd(p, n) PROVE Tree!AddLast(p, n)
  <2>1. MayBeHung(heap, p, n) /\ heap' = InsertEndChild(heap, p, n)
    BY <1>3, Hangable DEF InsertEnd
  <2>2. TreeInv(heap') /\ Alive(heap') = Alive(heap) /\ Laid(heap', MovedLast(kids, p, n))
    BY <1>1, <2>1, InsertEndKeeps
  <2>3. KidsOf(heap') = MovedLast(kids, p, n)
    BY <2>2, KidsAre
  <2> HIDE DEF kids
  <2> QED
    BY <1>2, <2>2, <2>3 DEF Tree!AddLast, KidsOf, MovedLast, Live
<1>4. ASSUME InsertFirst(p, n) PROVE Tree!AddFirst(p, n)
  <2>1. MayBeHung(heap, p, n) /\ heap' = InsertFirstChild(heap, p, n)
    BY <1>4, Hangable DEF InsertFirst
  <2>2. TreeInv(heap') /\ Alive(heap') = Alive(heap) /\ Laid(heap', MovedFirst(kids, p, n))
    BY <1>1, <2>1, InsertFirstKeeps
  <2>3. KidsOf(heap') = MovedFirst(kids, p, n)
    BY <2>2, KidsAre
  <2> HIDE DEF kids
  <2> QED
    BY <1>2, <2>2, <2>3 DEF Tree!AddFirst, KidsOf, MovedFirst, Live
<1>5. ASSUME NEW a \in ToSet(Children(heap, p)), InsertAfter(p, a, n) PROVE Tree!AddAfter(p, a, n)
  <2>1. /\ MayBeHung(heap, p, n) /\ a \in Alive(heap) /\ a # n /\ ~(heap.next[a] = n /\ heap.next[n] = Null)
        /\ heap' = InsertAfterChild(heap, p, a, n)
    BY <1>5, Hangable DEF InsertAfter, SafeAfter, Live
  <2>2. heap.parent[a] = p
    BY <1>1, <1>5, Listed
  <2>3. TreeInv(heap') /\ Alive(heap') = Alive(heap) /\ Laid(heap', MovedBehind(kids, p, a, n))
    BY <1>1, <2>1, <2>2, InsertAfterKeeps
  <2>4. KidsOf(heap') = MovedBehind(kids, p, a, n)
    BY <2>3, KidsAre
  <2> HIDE DEF kids
  <2> QED
    BY <1>2, <2>3, <2>4 DEF Tree!AddAfter, KidsOf, MovedBehind, Live
<1> QED
  BY <1>3, <1>4, <1>5

(* A node is deleted with all below it.                                    *)
LEMMA TreeDeletes ==
  ASSUME TreeInv(heap), NEW n \in Node
  PROVE  /\ Delete(n) => Tree!Delete(n)
         /\ \A p \in Parent : DeleteChild(p, n) => Tree!Delete(n)
<1> DEFINE kids == KidsOf(heap)
           gone == Items(Below(heap, n)) \union {n}
<1>1. Laid(heap, kids)
  BY KidsAre
<1>2. Tree!Without(n) = Sans(kids, n)
  BY TreeWithout
<1>3. ASSUME n \in Live, Deleted(heap', heap, n) PROVE Tree!Delete(n)
  <2>1. Tree!Below(n) = gone
    BY <1>3, TreeBelow
  <2>2. TreeInv(heap') /\ Alive(heap') = Alive(heap) \ gone /\ Laid(heap', Cleared(Sans(kids, n), gone))
    BY <1>1, <1>3 DEF Deleted
  <2>3. KidsOf(heap') = Cleared(Sans(kids, n), gone)
    BY <2>2, KidsAre
  <2> HIDE DEF kids, gone
  <2> QED
    BY <1>2, <2>1, <2>2, <2>3 DEF Tree!Delete, KidsOf, Cleared, Live, Parent
<1>4. Delete(n) => n \in Live /\ Deleted(heap', heap, n)
  BY DocDeleteNodeKeeps DEF Delete, Live
<1>5. ASSUME NEW p \in Parent, DeleteChild(p, n) PROVE n \in Live /\ Deleted(heap', heap, n)
  <2>1. p # Null
    BY HeapAssumption DEF Parent
  <2> QED
    BY <1>5, <2>1, DocDeleteNodeKeeps DEF DeleteChild, Live
<1> QED
  BY <1>3, <1>4, <1>5

(* So are the children of a node in use or of the document.                *)
LEMMA TreeEmpties ==
  ASSUME TreeInv(heap), NEW p \in Live \union {Doc}, heap' = DeleteChildren(heap, p)
  PROVE  Tree!DeleteKids(p)
<1> DEFINE kids == KidsOf(heap)
           gone == Items(Below(heap, p))
<1>1. Laid(heap, kids) /\ p \in Parent
  BY KidsAre DEF Live, Alive, Parent
<1>2. p \notin gone
  BY <1>1, BelowAlive DEF TreeInv
<1>3. Tree!Below(p) \ {p} = gone
  BY <1>2, TreeBelow
<1>4. TreeInv(heap') /\ Alive(heap') = Alive(heap) \ gone /\ Laid(heap', Cleared(kids, gone \union {p}))
  BY <1>1, DeleteChildrenKeeps
<1>5. KidsOf(heap') = Cleared(kids, gone \union {p})
  BY <1>4, KidsAre
<1> HIDE DEF kids, gone
<1>6. KidsOf(heap') = [q \in Node \union {Doc} |-> IF q \in gone \union {p} THEN <<>> ELSE KidsOf(heap)[q]]
  BY <1>5 DEF Cleared, Parent, kids
<1> QED
  BY <1>3, <1>4, <1>6 DEF Tree!DeleteKids, KidsOf, Live

(* A new node hangs nowhere.                                               *)
LEMMA TreeNew ==
  ASSUME TreeInv(heap), New
  PROVE  \E n \in Node : Tree!New(n)
<1>1. PICK p \in {"element", "leaf"} : CanAllocate(heap, p) /\ heap' = NewNode(heap, p)
  BY DEF New
<1> DEFINE x == NewAddress(heap, p)
<1>2. /\ TreeInv(heap') /\ x \in Alive(heap') \ Alive(heap) /\ SamePointers(heap', heap)
      /\ Alive(heap') = Alive(heap) \union {x}
  BY <1>1, NewNodeKeeps
<1>3. Laid(heap', KidsOf(heap))
  BY <1>2, KidsAre, SameLists
<1>4. KidsOf(heap') = KidsOf(heap)
  BY <1>2, <1>3, KidsAre
<1> HIDE DEF x
<1>5. Tree!New(x)
  BY <1>2, <1>4 DEF Tree!New, KidsOf, Live
<1> QED
  BY <1>2, <1>5 DEF Alive

(* SetText puts a new node before the others, or only writes to the first. *)
LEMMA TreeText ==
  ASSUME TreeInv(heap), NEW e \in Element, ChangeText(e)
  PROVE  heap' = heap \/ \E n \in Node : Tree!NewFirst(e, n)
<1>1. PICK t \in BOOLEAN : /\ (t /\ heap.first[e] \in Leaf) \/ CanAllocate(heap, "leaf")
                          /\ heap' = SetText(heap, e, t)
  BY DEF ChangeText
<1>2. CASE t /\ heap.first[e] \in Leaf
  BY <1>1, <1>2 DEF SetText
<1>3. CASE ~(t /\ heap.first[e] \in Leaf)
  <2> DEFINE g == NewNode(heap, "leaf")
             x == NewAddress(heap, "leaf")
             kids == KidsOf(heap)
  <2>1. CanAllocate(heap, "leaf") /\ e \in Alive(heap) /\ heap' = InsertFirstChild(g, e, x)
    BY <1>1, <1>3 DEF ChangeText, SetText, Live
  <2>2. /\ TreeInv(g) /\ x \in Alive(g) \ Alive(heap) /\ SamePointers(g, heap)
        /\ Alive(g) = Alive(heap) \union {x} /\ MayBeHung(g, e, x)
    BY <2>1, NewNodeKeeps, NewHangable
  <2>3. Laid(g, kids)
    BY <2>2, KidsAre, SameLists
  <2>4. x \in Node /\ e \in Parent
    BY <2>2 DEF Alive, Parent, Node
  <2> HIDE DEF g, x
  <2>5. Sans(kids, x) = kids
    <3>1. g.parent[x] = Null
      <4>1. Housed(heap) /\ x \in Parent /\ x \notin Alive(heap)
        BY <2>2, <2>4 DEF TreeInv, Sound, Parent
      <4>2. heap.parent[x] = Null
        BY <4>1 DEF Housed
      <4>3. g.parent = heap.parent
        BY <2>2 DEF SamePointers
      <4> QED
        BY <4>2, <4>3
    <3>2. ASSUME NEW q \in Parent PROVE RemoveFirst(kids[q], x) = kids[q]
      <4>1. g.parent[x] # q
        BY <3>1, HeapAssumption DEF Parent
      <4> HIDE DEF kids
      <4> QED
        BY <2>3, <4>1, NotThere
    <3> QED
      BY <3>2 DEF Sans, KidsOf
  <2>6. TreeInv(heap') /\ Alive(heap') = Alive(g) /\ Laid(heap', MovedFirst(kids, e, x))
    BY <2>1, <2>2, <2>3, InsertFirstKeeps
  <2>7. KidsOf(heap') = [kids EXCEPT ![e] = <<x>> \o @]
    BY <2>5, <2>6, KidsAre DEF MovedFirst
  <2>8. Tree!NewFirst(e, x)
    BY <2>2, <2>6, <2>7 DEF Tree!NewFirst, KidsOf, Live
  <2> QED
    BY <2>4, <2>8
<1> QED
  BY <1>2, <1>3

(* The attributes are no part of the tree.                                 *)
LEMMA TreeSame ==
  ASSUME TreeInv(heap), Unmoved(heap', heap)
  PROVE  UNCHANGED Tree!tree
<1>1. TreeInv(heap') /\ Alive(heap') = Alive(heap) /\ SamePointers(heap', heap)
  BY DEF Unmoved
<1>2. Laid(heap', KidsOf(heap))
  BY <1>1, KidsAre, SameLists
<1>3. KidsOf(heap') = KidsOf(heap)
  BY <1>1, <1>2, KidsAre
<1> QED
  BY <1>1, <1>3 DEF Tree!tree, KidsOf, Live

(* Every call does to the tree what the tree allows.                       *)
LEMMA TreeCalls == TreeInv(heap) /\ [Next]_vars => [Tree!Next]_(Tree!tree)
<1> SUFFICES ASSUME TreeInv(heap), [Next]_vars PROVE Tree!Next \/ UNCHANGED Tree!tree
  OBVIOUS
<1>1. CASE New
  BY <1>1, TreeNew, Zenon DEF Tree!Next
<1>2. ASSUME NEW p \in Parent, NEW n \in Node, MayHang(p, n),
             \/ Tree!AddLast(p, n)
             \/ Tree!AddFirst(p, n)
             \/ \E a \in Tree!ToSet(Children(heap, p)) \ {n} : Tree!AddAfter(p, a, n)
      PROVE  Tree!Next
  <2>1. p \in Live \union {Doc} /\ n \in Live
    BY <1>2 DEF MayHang
  <2>2. p \notin Tree!Below(n)
    BY <1>2, Hangable, NotBelow
  <2>3. [q \in Parent |-> Children(heap, q)][p] = Children(heap, p)
    OBVIOUS
  <2> QED
    BY <1>2, <2>1, <2>2, <2>3, Zenon DEF Tree!Next
<1>3. ASSUME NEW p \in Parent, NEW n \in Node, InsertEnd(p, n) PROVE Tree!Next
  BY <1>2, <1>3, TreeInserts DEF InsertEnd
<1>4. ASSUME NEW p \in Parent, NEW n \in Node, InsertFirst(p, n) PROVE Tree!Next
  BY <1>2, <1>4, TreeInserts DEF InsertFirst
<1>5. ASSUME NEW p \in Parent, NEW n \in Node, NEW a \in Node, InsertAfter(p, a, n)
      PROVE  Tree!Next \/ UNCHANGED Tree!tree
  <2>1. CASE a \in ToSet(Children(heap, p))
    <3>1. MayHang(p, n) /\ a # n /\ Tree!AddAfter(p, a, n)
      BY <1>5, <2>1, TreeInserts DEF InsertAfter, SafeAfter
    <3>2. a \in Tree!ToSet(Children(heap, p)) \ {n}
      BY <2>1, <3>1, TreeToSet
    <3> QED
      BY <1>2, <3>1, <3>2
  <2>2. CASE a \notin ToSet(Children(heap, p))
    <3>1. heap.parent[a] # p
      <4>1. KidsOf(heap)[p] = Children(heap, p)
        BY DEF KidsOf
      <4> QED
        BY <2>2, <4>1, Listed
    <3>2. MayBeHung(heap, p, n) /\ a \in Alive(heap) /\ a # n /\ ~(heap.next[a] = n /\ heap.next[n] = Null)
      BY <1>5, Hangable DEF InsertAfter, SafeAfter, Live
    <3>3. heap' = heap
      BY <1>5, <3>1, <3>2, InsertAfterKeeps DEF InsertAfter
    <3> QED
      BY <3>3 DEF Tree!tree, Live
  <2> QED
    BY <2>1, <2>2
<1>6. ASSUME NEW p \in Parent, NEW n \in Node, DeleteChild(p, n) PROVE Tree!Next
  BY <1>6, TreeDeletes, Zenon DEF Tree!Next, DeleteChild
<1>7. ASSUME NEW n \in Node, Delete(n) PROVE Tree!Next
  BY <1>7, TreeDeletes, Zenon DEF Tree!Next, Delete
<1>8. ASSUME NEW e \in Element, Empty(e) PROVE Tree!Next
  <2>1. e \in Live \union {Doc} /\ Tree!DeleteKids(e)
    BY <1>8, TreeEmpties DEF Empty
  <2> QED
    BY <2>1, Zenon DEF Tree!Next
<1>9. CASE Clear
  <2>1. Doc \in Live \union {Doc} /\ Tree!DeleteKids(Doc)
    BY <1>9, TreeEmpties DEF Clear
  <2> QED
    BY <2>1, Zenon DEF Tree!Next
<1>10. ASSUME NEW e \in Element, ChangeText(e) PROVE Tree!Next \/ UNCHANGED Tree!tree
  <2>1. CASE heap' = heap
    BY <2>1 DEF Tree!tree, Live
  <2>2. CASE \E n \in Node : Tree!NewFirst(e, n)
    <3>1. e \in Live
      BY <1>10 DEF ChangeText
    <3> QED
      BY <2>2, <3>1, Zenon DEF Tree!Next
  <2> QED
    BY <1>10, <2>1, <2>2, TreeText
<1>11. ASSUME NEW e \in Element, NEW a \in Name, SetAttribute(e, a) \/ RemoveAttribute(e, a)
       PROVE  UNCHANGED Tree!tree
  BY <1>11, AttributesKeep, TreeSame DEF SetAttribute, RemoveAttribute
<1>12. CASE UNCHANGED vars
  BY <1>12 DEF vars, Tree!tree, Live
<1>13. CASE \E p \in Parent, n \in Node :
                \/ InsertEnd(p, n)
                \/ InsertFirst(p, n)
                \/ \E a \in Node : InsertAfter(p, a, n)
                \/ DeleteChild(p, n)
  <2>1. PICK p \in Parent, n \in Node :
          \/ InsertEnd(p, n)
          \/ InsertFirst(p, n)
          \/ \E a \in Node : InsertAfter(p, a, n)
          \/ DeleteChild(p, n)
    BY <1>13
  <2>2. CASE \E a \in Node : InsertAfter(p, a, n)
    BY <2>2, <1>5, ZenonT(30)
  <2> QED
    BY <2>1, <2>2, <1>3, <1>4, <1>6, ZenonT(30)
<1>14. CASE \E n \in Node : Delete(n)
  BY <1>14, <1>7, Zenon
<1>15. CASE \E e \in Element : Empty(e) \/ ChangeText(e)
  BY <1>15, <1>8, <1>10, Zenon
<1>16. CASE \E e \in Element, a \in Name : SetAttribute(e, a) \/ RemoveAttribute(e, a)
  BY <1>16, <1>11, Zenon
<1> QED
  BY <1>1, <1>9, <1>12, <1>13, <1>14, <1>15, <1>16, Zenon DEF Next

(* And each does the one thing that was asked for.                         *)
LEMMA TreeDone == TreeInv(heap) => CallDone
<1> SUFFICES ASSUME TreeInv(heap), NEW p \in Parent, NEW n \in Live
             PROVE  /\ InsertEnd(p, n) => Tree!AddLast(p, n)
                    /\ InsertFirst(p, n) => Tree!AddFirst(p, n)
                    /\ \A a \in ToSet(Children(heap, p)) : InsertAfter(p, a, n) => Tree!AddAfter(p, a, n)
                    /\ DeleteChild(p, n) => Tree!Delete(n)
                    /\ Clear => Tree!DeleteKids(Doc)
  BY Zenon DEF CallDone
<1>1. n \in Node
  BY DEF Live, Alive
<1>2. Clear => Tree!DeleteKids(Doc)
  BY TreeEmpties DEF Clear
<1> QED
  BY <1>1, <1>2, TreeInserts, TreeDeletes

(* An empty document is an empty tree.                                     *)
LEMMA TreeStarts == Init => Tree!Init
<1> SUFFICES ASSUME Init PROVE Tree!Init
  OBVIOUS
<1>1. TreeInv(heap)
  BY TreeInit DEF Init
<1>2. heap = EmptyHeap
  BY DEF Init
<1>3. Live = {}
  BY <1>2, NothingYet DEF Live
<1>4. ASSUME NEW p \in Parent PROVE Children(heap, p) = <<>>
  <2> DEFINE s == KidsOf(heap)[p]
  <2>1. \A m \in Node : heap.parent[m] # p
    BY <1>2, HeapAssumption DEF EmptyHeap, Parent
  <2>2. ToSet(s) = {}
    BY <1>1, <2>1, Listed
  <2>3. s \in Seq(Node)
    BY <1>1, KidsAre DEF Laid
  <2>4. s = Children(heap, p)
    BY DEF KidsOf
  <2> HIDE DEF s
  <2>5. DOMAIN s = {}
    BY <2>2 DEF ToSet
  <2>6. s = <<>>
    BY <2>3, <2>5
  <2> QED
    BY <2>4, <2>6
<1> QED
  BY <1>3, <1>4 DEF Tree!Init, Parent

(* For a document of any size, the pointers implement the tree of ordered    *)
(* lists that the header promises: a node is put where the caller named, out *)
(* of where it was and with all below it, and what is deleted goes with all  *)
(* below it and nothing else (tinyxml2.h:782-822).                          *)
THEOREM PointersImplementTree == Spec => TreeSpec
<1> DEFINE Inv == TreeInv(heap)
<1>1. Init => Inv /\ Tree!Init
  BY TreeInit, TreeStarts DEF Init
<1>2. Inv /\ [Next]_vars => Inv'
  BY TreeStep
<1>3. Inv /\ [Next]_vars => [Tree!Next]_(Tree!tree)
  BY TreeCalls
<1>4. Inv => CallDone
  BY TreeDone
<1> HIDE DEF Inv
<1> QED
  BY <1>1, <1>2, <1>3, <1>4, PTL DEF Spec, TreeSpec, Tree!Spec
=============================================================================
