----------------------------- MODULE MCXMLTree -----------------------------
(* Instance of XMLTree for TLC: the items of the pools, block by block.      *)
EXTENDS XMLTree

CONSTANTS e1, e2, e3, t1

MCElementBlocks == << <<e1, e2>>, <<e3>> >>
MCLeafBlocks == << <<t1>> >>

\* A caller who knows the header and not SafeAfter: it moves a node of the
\* document to behind any other child of the same parent.
MoveAfter(p, a, n) ==
  /\ ~heap.crashed
  /\ MayHang(p, n)
  /\ a \in Live \ {n} /\ heap.parent[a] = p
  /\ heap' = InsertAfterChild(heap, p, a, n)

AnyCaller ==
  Init /\ [][Next \/ \E p \in Parent, a, n \in Node : MoveAfter(p, a, n)]_vars

\* The comment of InsertAfterChild, with no exception: a child node that is
\* part of the document already is moved from its old location to the new one
\* (tinyxml2.h:803-807).  The code unlinks the node and then follows the next
\* pointer of afterThis (tinyxml2.cpp:885-888), which is null by then if the
\* node was the last child and afterThis the one before it.
MovedFromItsOldPlace == ~heap.crashed
=============================================================================
