------------------------------ MODULE XMLTree ------------------------------
(***************************************************************************)
(* A caller at work on one XMLDocument: it makes nodes, puts them into the *)
(* tree or moves them, deletes them with or without their children, sets   *)
(* the text and the attributes of elements, and clears the document.       *)
(*                                                                         *)
(* The library checks none of what its caller may get wrong (the asserts   *)
(* are compiled only under DEBUG), so the caller's side is stated here:    *)
(* it uses no pointer to a node it has deleted, hangs no node below        *)
(* itself, and calls InsertAfterChild only where SafeAfter allows it.       *)
(***************************************************************************)
EXTENDS XMLHeap

CONSTANT Tagged   \* bound: the elements whose attributes the caller sets

ASSUME CallerAssumption == Tagged \subseteq Element

VARIABLE heap

vars == heap

Live == Alive(heap)

TypeOK ==
  /\ heap.parent \in [Parent -> Parent \union {Null}]
  /\ {heap.first, heap.last, heap.prev, heap.next} \subseteq [Parent -> Node \union {Null}]
  /\ \A e \in Element : heap.attr[e] \in Seq(Name)
  /\ \A p \in DOMAIN heap.pool : heap.pool[p].current \in Nat /\ heap.pool[p].untracked \in Nat

Init == heap = EmptyHeap

\* NewElement, NewText, NewComment, NewDeclaration and NewUnknown.
New ==
  \E p \in {"element", "leaf"} :
    /\ CanAllocate(heap, p)
    /\ heap' = NewNode(heap, p)

\* Where a node may be hung: on the document or an element in use, not below itself.
MayHang(p, n) == p \in (Live \intersect Element) \union {Doc} /\ n \in Live /\ p \notin Subtree(heap, n)

InsertEnd(p, n) ==
  /\ MayHang(p, n)
  /\ heap' = InsertEndChild(heap, p, n)

InsertFirst(p, n) ==
  /\ MayHang(p, n)
  /\ heap' = InsertFirstChild(heap, p, n)

\* afterThis is neither the node itself nor the sibling just before the last.
SafeAfter(a, n) == a # n /\ ~(heap.next[a] = n /\ heap.next[n] = Null)

InsertAfter(p, a, n) ==
  /\ MayHang(p, n)
  /\ a \in Live
  /\ SafeAfter(a, n)
  /\ heap' = InsertAfterChild(heap, p, a, n)

DeleteChild(p, n) ==
  /\ n \in Live
  /\ heap.parent[n] = p
  /\ heap' = DeleteNode(Unlink(heap, n), n)

Delete(n) ==
  /\ n \in Live
  /\ heap' = DocDeleteNode(heap, n)

Empty(p) ==
  /\ p \in Live \intersect Element
  /\ heap' = DeleteChildren(heap, p)

Clear == heap' = DeleteChildren(heap, Doc)

ChangeText(e) ==
  /\ e \in Live \intersect Element
  /\ \E isText \in BOOLEAN :
       /\ (isText /\ heap.first[e] \in Leaf) \/ CanAllocate(heap, "leaf")
       /\ heap' = SetText(heap, e, isText)

SetAttribute(e, a) ==
  /\ e \in Live \intersect Tagged
  /\ heap' = FindOrCreateAttribute(heap, e, a)

RemoveAttribute(e, a) ==
  /\ e \in Live \intersect Tagged
  /\ heap' = DeleteAttribute(heap, e, a)

Next ==
  /\ ~heap.crashed
  /\ \/ New
     \/ \E p \in Parent, n \in Node :
          \/ InsertEnd(p, n)
          \/ InsertFirst(p, n)
          \/ \E a \in Node : InsertAfter(p, a, n)
          \/ DeleteChild(p, n)
     \/ \E n \in Node : Delete(n)
     \/ \E e \in Element : Empty(e) \/ ChangeText(e)
     \/ Clear
     \/ \E e \in Element, a \in Name : SetAttribute(e, a) \/ RemoveAttribute(e, a)

Spec == Init /\ [][Next]_vars

(***************************************************************************)
(* Properties                                                              *)
(***************************************************************************)

\* The five pointers agree: a parent's first and last child and the chain
\* between them name exactly the nodes that name it as their parent, each
\* prev undoes a next, and nothing in use points to an item in a free list,
\* whatever was moved, cut off and destroyed (XMLNode::Unlink and the three
\* inserts, tinyxml2.cpp:773-892).  Within what SafeAfter allows, and only
\* there, InsertAfterChild follows no null pointer.
WellLinked == ~heap.crashed /\ LinksAgree(heap)

\* Every item is counted once.  In each pool the items not in the free list
\* are the current ones, no item is in the free list twice, and the untracked
\* ones are exactly the nodes never inserted: SetTracked is called once in the
\* life of a node, by the first insert or by the deletion of one never used.
Accounted ==
  /\ ItemsCounted(heap)
  /\ \A p \in {"element", "leaf"} : heap.pool[p].untracked = Cardinality(Orphans(heap, p))
  /\ \A e \in Element : IsInjective(heap.attr[e])

Tree == INSTANCE OrderedTree WITH
          live <- Live, kids <- [p \in Parent |-> Children(heap, p)]

\* What its comment says of each call, where it has its way: the node goes to
\* the place that was named, and what is deleted goes with all below it.
CallDone ==
  \A p \in Parent, n \in Live :
    /\ heap'.parent[n] = p =>
         /\ InsertEnd(p, n) => Tree!AddLast(p, n)
         /\ InsertFirst(p, n) => Tree!AddFirst(p, n)
         /\ \A a \in ToSet(Children(heap, p)) : InsertAfter(p, a, n) => Tree!AddAfter(p, a, n)
    /\ heap.parent[n] = p /\ n \notin Alive(heap') =>
         /\ DeleteChild(p, n) => Tree!Delete(n)
         /\ Clear => Tree!DeleteKids(Doc)

\* The pointers implement the tree the header promises, and each call does to
\* it what was asked for, not only something the tree allows
\* (tinyxml2.h:782-822).
TreeSpec == Tree!Spec /\ [][CallDone]_vars

=============================================================================
