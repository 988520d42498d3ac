------------------------------ MODULE XMLHeap ------------------------------
(***************************************************************************)
(* The nodes of a tinyxml2 document as they lie in memory: four pools of   *)
(* fixed-size items, and among the items in use the parent, child and      *)
(* sibling pointers.  A heap is a value, and each member function of       *)
(* XMLNode, XMLElement and MemPoolT an operator that returns the heap it   *)
(* leaves, so that the parser and the callers of the library share them.   *)
(*                                                                         *)
(* The attributes of an element, a list of its own reached from nowhere    *)
(* else, are the sequence of their names, and their pool only counts.      *)
(***************************************************************************)
EXTENDS Integers, Sequences, SequencesExt, FiniteSetsExt

CONSTANTS
  Null,          \* the null pointer
  Doc,           \* the document, a node that lies in no pool
  ElementBlocks, \* the blocks of items new Block() can still hand out, in
  LeafBlocks,    \*   order, to the pool of elements and to that of the others
  Name           \* names of attributes

Element == UNION {ToSet(b) : b \in ToSet(ElementBlocks)}
Leaf == UNION {ToSet(b) : b \in ToSet(LeafBlocks)}
Node == Element \union Leaf
Parent == Node \union {Doc}

\* Blocks are not empty, and no item is at two places.
Apart(source) ==
  \A i, j \in DOMAIN source :
    /\ source[i] # <<>>
    /\ \A k \in DOMAIN source[i], l \in DOMAIN source[j] :
         source[i][k] = source[j][l] => i = j /\ k = l

ASSUME HeapAssumption ==
  /\ Null # Doc
  /\ Element \intersect Leaf = {}
  /\ Null \notin Node /\ Doc \notin Node
  /\ ElementBlocks \in Seq(Seq(Element)) /\ Apart(ElementBlocks)
  /\ LeafBlocks \in Seq(Seq(Leaf)) /\ Apart(LeafBlocks)

(***************************************************************************)
(* MemPoolT                                                                *)
(***************************************************************************)

NewPool == [root |-> <<>>, blocks |-> 0, current |-> 0, untracked |-> 0]

\* The free list that Alloc takes its item from: a new block's if it is empty.
Free(pool, source) == IF pool.root = <<>> THEN source[pool.blocks + 1] ELSE pool.root

HasRoom(pool, source) == pool.root # <<>> \/ pool.blocks < Len(source)

Alloc(pool, source) ==
  [pool EXCEPT !.root = Tail(Free(pool, source)),
               !.blocks = IF pool.root = <<>> THEN @ + 1 ELSE @,
               !.current = @ + 1,
               !.untracked = @ + 1]

Release(pool, item) ==
  [pool EXCEPT !.root = <<item>> \o @, !.current = @ - 1]

SetTracked(pool) == [pool EXCEPT !.untracked = @ - 1]

(***************************************************************************)
(* Pointers                                                                *)
(***************************************************************************)

\* if ( x ) x->field = v
Store(field, x, v) == [n \in DOMAIN field |-> IF n = x THEN v ELSE field[n]]

PoolOf(n) == IF n \in Element THEN "element" ELSE "leaf"
SourceOf(p) == IF p = "element" THEN ElementBlocks ELSE LeafBlocks

EmptyHeap ==
  LET none == [n \in Parent |-> Null]
  IN [parent |-> none, first |-> none, last |-> none, prev |-> none, next |-> none,
      attr |-> [e \in Element |-> <<>>],
      pool |-> [p \in {"element", "leaf", "attribute"} |-> NewPool],
      crashed |-> FALSE]

FreeItems(h, p) ==
  ToSet(h.pool[p].root) \union UNION {ToSet(SourceOf(p)[i]) :
                                        i \in h.pool[p].blocks + 1 .. Len(SourceOf(p))}

Alive(h) == {n \in Node : n \notin FreeItems(h, PoolOf(n))}

\* The children of p in order, followed along the next pointers.
Children(h, p) ==
  LET from[n \in Parent \union {Null}] ==
        IF n = Null THEN <<>> ELSE <<n>> \o from[h.next[n]]
  IN from[h.first[p]]

\* The node m, its siblings from there on and all that hangs below them, in the
\* order they are destroyed: what is below a node goes before it.
From(h, m) ==
  LET from[x \in Node \union {Null}] ==
        IF x = Null THEN <<>> ELSE from[h.first[x]] \o (<<x>> \o from[h.next[x]])
  IN from[m]

Below(h, p) == From(h, h.first[p])

PostOrder(h, n) == Append(Below(h, n), n)

Subtree(h, n) == ToSet(PostOrder(h, n))

(***************************************************************************)
(* XMLNode                                                                 *)
(***************************************************************************)

NewNode(h, p) ==
  [h EXCEPT !.pool[p] = Alloc(@, SourceOf(p))]

NewAddress(h, p) == Head(Free(h.pool[p], SourceOf(p)))

CanAllocate(h, p) == HasRoom(h.pool[p], SourceOf(p))

\* Variant: the parent's last child is not adjusted.
Unlink_KeepsLast(h, n) ==
  LET p == h.parent[n]
  IN [h EXCEPT !.first[p] = IF @ = n THEN h.next[n] ELSE @,
               !.next = Store(@, h.prev[n], h.next[n]),
               !.prev = Store(@, h.next[n], h.prev[n]),
               !.parent[n] = Null]

Unlink(h, n) ==
  LET p == h.parent[n]
  IN [h EXCEPT !.first[p] = IF @ = n THEN h.next[n] ELSE @,
               !.last[p] = IF @ = n THEN h.prev[n] ELSE @,
               !.next = Store(@, h.prev[n], h.next[n]),
               !.prev = Store(@, h.next[n], h.prev[n]),
               !.parent[n] = Null]

Track(h, n) == [h EXCEPT !.pool[PoolOf(n)] = SetTracked(@)]

\* Variant: a node that is moved is tracked once more.
InsertChildPreamble_TracksAgain(h, n) ==
  Track(IF h.parent[n] # Null THEN Unlink(h, n) ELSE h, n)

InsertChildPreamble(h, n) ==
  IF h.parent[n] # Null THEN Unlink(h, n) ELSE Track(h, n)

InsertEndChild(h, p, n) ==
  LET g == InsertChildPreamble(h, n)
      l == g.last[p]
  IN [g EXCEPT !.next = Store(Store(@, l, n), n, Null),
               !.prev = Store(@, n, l),
               !.last[p] = n,
               !.first[p] = IF l = Null THEN n ELSE @,
               !.parent[n] = p]

InsertFirstChild(h, p, n) ==
  LET g == InsertChildPreamble(h, n)
      f == g.first[p]
  IN [g EXCEPT !.prev = Store(Store(@, f, n), n, Null),
               !.next = Store(@, n, f),
               !.first[p] = n,
               !.last[p] = IF f = Null THEN n ELSE @,
               !.parent[n] = p]

\* Variant: the node is put behind all its siblings.
InsertAfterChild_AddsLast(h, p, a, n) ==
  IF h.parent[a] # p THEN h ELSE InsertEndChild(h, p, n)

\* Nothing protects afterThis->_next from what the preamble has unlinked.
InsertAfterChild(h, p, a, n) ==
  LET g == InsertChildPreamble(h, n)
      x == g.next[a]
  IN CASE h.parent[a] # p -> h
       [] h.parent[a] = p /\ h.next[a] = Null -> InsertEndChild(h, p, n)
       [] OTHER -> [g EXCEPT !.crashed = (x = Null),
                             !.prev = Store(Store(@, n, a), x, n),
                             !.next = Store(Store(@, n, x), a, n),
                             !.parent[n] = p]

(***************************************************************************)
(* Destruction                                                             *)
(***************************************************************************)

DropAttributes(h, e) ==
  IF e \in Element
  THEN [h EXCEPT !.attr[e] = <<>>,
                 !.pool["attribute"].current = @ - Len(h.attr[e])]
  ELSE h

\* The destructors of one node whose children are gone, and its item's return.
Destroy(h, n) ==
  LET g == DropAttributes(IF h.parent[n] # Null THEN Unlink(h, n) ELSE h, n)
  IN [g EXCEPT !.prev[n] = Null, !.next[n] = Null,
               !.pool[PoolOf(n)] = Release(@, n)]

\* One after the other.
DestroyAll(h, s) ==
  LET after[i \in 0 .. Len(s)] == IF i = 0 THEN h ELSE Destroy(after[i - 1], s[i])
  IN after[Len(s)]

DeleteNode(h, n) == DestroyAll(h, PostOrder(h, n))

DeleteChildren(h, p) == DestroyAll(h, Below(h, p))

\* XMLDocument::DeleteNode
DocDeleteNode(h, n) ==
  IF h.parent[n] # Null THEN DeleteNode(Unlink(h, n), n) ELSE DeleteNode(Track(h, n), n)

(***************************************************************************)
(* XMLElement                                                              *)
(***************************************************************************)

FindOrCreateAttribute(h, e, a) ==
  IF a \in ToSet(h.attr[e]) THEN h
  ELSE [h EXCEPT !.attr[e] = Append(@, a),
                 !.pool["attribute"].current = @ + 1]

DeleteAttribute(h, e, a) ==
  IF a \notin ToSet(h.attr[e]) THEN h
  ELSE [h EXCEPT !.attr[e] = RemoveFirst(@, a),
                 !.pool["attribute"].current = @ - 1]

\* The texts share a pool with comments and declarations: isText says what a
\* first child from that pool is.
SetText(h, e, isText) ==
  IF isText /\ h.first[e] \in Leaf THEN h
  ELSE InsertFirstChild(NewNode(h, "leaf"), e, NewAddress(h, "leaf"))

(***************************************************************************)
(* What holds of a heap between two calls                                  *)
(***************************************************************************)

\* The chain of next pointers below a node in use names exactly the nodes that
\* name it as their parent, last and prev agree with it, and the parents of
\* nodes in use are in use.
LinksAgree(h) ==
  \A p \in Alive(h) \union {Doc} :
    LET ch == Children(h, p)
    IN /\ ToSet(ch) = {n \in Alive(h) : h.parent[n] = p}
       /\ h.last[p] = IF ch = <<>> THEN Null ELSE Last(ch)
       /\ \A i \in DOMAIN ch : h.prev[ch[i]] = IF i = 1 THEN Null ELSE ch[i-1]
       /\ h.parent[p] \in Alive(h) \union {Null, Doc}

\* An item of the attributes' pool for every place in the list of an element.
AttributeItems(h) == UNION {{e} \X DOMAIN h.attr[e] : e \in Element}

\* No item is in a free list twice, and each pool counts the items in use.
ItemsCounted(h) ==
  /\ \A p \in {"element", "leaf"} :
       /\ IsInjective(h.pool[p].root)
       /\ h.pool[p].current = Cardinality({n \in Alive(h) : PoolOf(n) = p})
  /\ h.pool["attribute"].current = Cardinality(AttributeItems(h))

\* The nodes in use that hang nowhere.
Orphans(h, p) == {n \in Alive(h) : PoolOf(n) = p /\ h.parent[n] = Null}

=============================================================================
