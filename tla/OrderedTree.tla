---------------------------- MODULE OrderedTree ----------------------------
(***************************************************************************)
(* What a caller of the document tree is promised, with no pointer in      *)
(* sight: every node in use has an ordered list of children, a node is in  *)
(* at most one list, and adding a node that is already in the tree moves   *)
(* it, its own children with it, from its old place to the new one.        *)
(***************************************************************************)
EXTENDS Naturals, Sequences, SequencesExt

CONSTANTS Node, Doc

VARIABLES
  live,   \* the nodes in use
  kids    \* kids[p]: the children of p from left to right

tree == <<live, kids>>

Placed == {n \in Node : \E p \in live \union {Doc} : n \in ToSet(kids[p])}

\* n and all that hangs below it: the nodes in every set that has n in it and
\* with each node its children.
Below(n) ==
  LET under == [m \in live \union {Doc} |-> ToSet(kids[m])]
      closed == {S \in SUBSET (live \union {Doc}) : n \in S /\ \A m \in S : under[m] \subseteq S}
  IN {m \in live \union {Doc} : \A S \in closed : m \in S}

\* The lists with n taken out of the one it is in.
Without(n) == [p \in Node \union {Doc} |-> RemoveFirst(kids[p], n)]

Init == live = {} /\ kids = [p \in Node \union {Doc} |-> <<>>]

New(n) ==
  /\ n \notin live
  /\ live' = live \union {n}
  /\ UNCHANGED kids

AddLast(p, n) ==
  /\ kids' = [Without(n) EXCEPT ![p] = Append(@, n)]
  /\ UNCHANGED live

AddFirst(p, n) ==
  /\ kids' = [Without(n) EXCEPT ![p] = <<n>> \o @]
  /\ UNCHANGED live

AddAfter(p, a, n) ==
  LET at == CHOOSE i \in DOMAIN Without(n)[p] : Without(n)[p][i] = a
  IN /\ kids' = [Without(n) EXCEPT ![p] = SubSeq(@, 1, at) \o <<n>> \o
                                          SubSeq(@, at + 1, Len(@))]
     /\ UNCHANGED live

Delete(n) ==
  LET gone == Below(n)
  IN /\ live' = live \ gone
     /\ kids' = [p \in Node \union {Doc} |-> IF p \in gone THEN <<>> ELSE Without(n)[p]]

DeleteKids(p) ==
  LET gone == Below(p) \ {p}
  IN /\ live' = live \ gone
     /\ kids' = [q \in Node \union {Doc} |-> IF q \in gone \union {p} THEN <<>> ELSE kids[q]]

NewFirst(p, n) ==
  /\ n \notin live
  /\ live' = live \union {n}
  /\ kids' = [kids EXCEPT ![p] = <<n>> \o @]

Next ==
  \/ \E n \in Node : New(n)
  \/ \E p \in live \union {Doc}, n \in live :
       /\ \/ AddLast(p, n)
          \/ AddFirst(p, n)
          \/ \E a \in ToSet(kids[p]) \ {n} : AddAfter(p, a, n)
       /\ p \notin Below(n)
  \/ \E n \in live : Delete(n)
  \/ \E p \in live \union {Doc} : DeleteKids(p)
  \/ \E p \in live, n \in Node : NewFirst(p, n)

Spec == Init /\ [][Next]_tree

=============================================================================
