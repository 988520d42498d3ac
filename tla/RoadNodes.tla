----------------------------- MODULE RoadNodes -----------------------------
(***************************************************************************)
(* populateNodes: the road map of the game, from an XML file of nodes and  *)
(* of links between them into the table `nodes' that the script looks a    *)
(* node up in by the id the game knows it by.                              *)
(*                                                                         *)
(* The first pass keeps the nodes of the file by their guid, each with the *)
(* id of the vehicle node the game finds closest to it, and the links in   *)
(* an array with room for exactly the links of the game's own file.  The   *)
(* second pass puts every link, with the lines between its lanes, into the *)
(* nodes at both its ends.  A link here is its number in the file.         *)
(***************************************************************************)
EXTENDS Integers, Sequences, FiniteSets

CONSTANTS
  Guid,      \* guids of the file's nodes
  Id,        \* ids of the game's vehicle nodes
  Links,     \* the number of links in the file, and in the array
  MaxLanes   \* bound on the lanes in each direction

\* A node that is named by a link and is not in the file has the id 0.
NoId == 0

ASSUME RoadAssumption == NoId \notin Id /\ Links \in Nat /\ MaxLanes \in Nat \ {0}

VARIABLES
  pass,       \* 1, 2, or 3 when populateNodes has returned
  tmpnodes,   \* the id of each node read so far, by guid
  tmplinks,   \* the ends of each link read so far
  i,          \* the loop counter of the second pass
  road,       \* link.attr: the lanes of the link placed last, and its width
  nodes       \* nodes[id]: the links of that node, for the ids in the table

vars == <<pass, tmpnodes, tmplinks, i, road, nodes>>

Road == [in : 0 .. MaxLanes, out : 0 .. MaxLanes, wide : BOOLEAN]

TypeOK ==
  /\ pass \in 1 .. 3
  /\ DOMAIN tmpnodes \subseteq Guid /\ \A g \in DOMAIN tmpnodes : tmpnodes[g] \in Id
  /\ tmplinks \in Seq(Guid \X Guid) /\ Len(tmplinks) <= Links
  /\ i \in 1 .. Links + 1
  /\ road \in Road
  /\ DOMAIN nodes \subseteq Id \union {NoId}
  /\ \A n \in DOMAIN nodes : nodes[n] \in Seq(1 .. Links)

Init ==
  /\ pass = 1
  /\ tmpnodes = << >>
  /\ tmplinks = <<>>
  /\ i = 1
  /\ road = [in |-> 1, out |-> 1, wide |-> FALSE]
  /\ nodes = << >>

\* The table with the entry for k set to v.
With(table, k, v) == [x \in DOMAIN table \union {k} |-> IF x = k THEN v ELSE table[x]]

\* An object of class vehiclenode: several may be closest to one vehicle node.
ReadNode ==
  /\ pass = 1
  /\ \E g \in Guid \ DOMAIN tmpnodes, n \in Id : tmpnodes' = With(tmpnodes, g, n)
  /\ UNCHANGED <<pass, tmplinks, i, road, nodes>>

\* An object of class vehiclelink.
ReadLink ==
  /\ pass = 1
  /\ Len(tmplinks) < Links
  /\ \E a, b \in Guid : tmplinks' = Append(tmplinks, <<a, b>>)
  /\ UNCHANGED <<pass, tmpnodes, i, road, nodes>>

EndOfFile ==
  /\ pass = 1
  /\ Len(tmplinks) = Links
  /\ pass' = 2
  /\ UNCHANGED <<tmpnodes, tmplinks, i, road, nodes>>

\* tmpnodes[ref].id
IdOf(g) == IF g \in DOMAIN tmpnodes THEN tmpnodes[g] ELSE NoId

LinksOf(n) == IF n \in DOMAIN nodes THEN nodes[n] ELSE <<>>

\* One exception handler is around both look-ups: when the first id is not in
\* the table the second is not looked up, and the node from the file, which has
\* no links, takes the place of the one in the table.  A node that is at both
\* ends is stored twice, the second copy over the first.
LinksBefore2(n1, n2) == IF n1 \in DOMAIN nodes THEN LinksOf(n2) ELSE <<>>

PlaceLink ==
  /\ pass = 2
  /\ i <= Links
  /\ LET n1 == IdOf(tmplinks[i][1])
         n2 == IdOf(tmplinks[i][2])
     IN nodes' = With(With(nodes, n1, Append(LinksOf(n1), i)),
                      n2, Append(LinksBefore2(n1, n2), i))
  /\ i' = i + 1
  /\ road' \in Road
  /\ UNCHANGED <<pass, tmpnodes, tmplinks>>

Return ==
  /\ pass = 2
  /\ i > Links
  /\ pass' = 3
  /\ UNCHANGED <<tmpnodes, tmplinks, i, road, nodes>>

Next == ReadNode \/ ReadLink \/ EndOfFile \/ PlaceLink \/ Return

Spec == Init /\ [][Next]_vars

(***************************************************************************)
(* setLinePoints: the distances of a link's lines from the middle of the   *)
(* road, to the right for the lanes in and to the left (negative) for the  *)
(* lanes out, in halves of a lane's width.                                 *)
(***************************************************************************)

\* lineOffset, starti and linesIn, for a link with a width, one-way or neither.
LineOffset(in, out, wide) ==
  IF wide \/ (out = 0 /\ in % 2 = 1) THEN 1 ELSE 0

LinesIn(in, out, wide) ==
  CASE wide \/ out > 0 -> in + 1
    [] ~wide /\ out = 0 /\ in % 2 = 0 -> ((in + 1) \div 2) + 1
    [] OTHER -> (in + 1) \div 2

\* Variant: an even one-way road is begun one line too far in.
StartI_OneIn(in, out, wide) ==
  CASE wide -> 0
    [] ~wide /\ out > 0 -> 1
    [] OTHER -> 1 - LinesIn(in, out, wide)

StartI(in, out, wide) ==
  CASE wide -> 0
    [] ~wide /\ out > 0 -> 1
    [] OTHER -> IF in % 2 = 0 THEN -(LinesIn(in, out, wide) - 1) ELSE -LinesIn(in, out, wide)

LinesOut(in, out, wide) ==
  IF wide \/ out > 0 THEN out + 1 ELSE StartI(in, out, wide)

InLines(in, out, wide) ==
  {LineOffset(in, out, wide) + 2 * k :
     k \in StartI(in, out, wide) .. LinesIn(in, out, wide) - 1}

OutLines(in, out, wide) ==
  {-(LineOffset(in, out, wide) + 2 * k) :
     k \in StartI(in, out, wide) .. LinesOut(in, out, wide) - 1}

CentreLine(in, out, wide) == IF ~wide /\ out > 0 THEN {0} ELSE {}

(***************************************************************************)
(* Properties                                                              *)
(***************************************************************************)

First(k) == IdOf(tmplinks[k][1])
Second(k) == IdOf(tmplinks[k][2])
Touches(k, n) == n \in {First(k), Second(k)}

\* The links that replace, instead of extend, what was stored for n: those that
\* end at n and begin at a node that no earlier link touched.
Replaces(k, n) == Second(k) = n /\ ~\E j \in 1 .. k-1 : Touches(j, First(k))

\* The table holds for n the links of `of', in order, each once.
Holds(n, of) ==
  /\ Len(nodes[n]) = Cardinality(of)
  /\ \A k \in of : \E x \in 1 .. Len(nodes[n]) : nodes[n][x] = k
  /\ \A x, y \in 1 .. Len(nodes[n]) : x < y => nodes[n][x] < nodes[n][y]

TouchedIds == {n \in Id \union {NoId} : \E k \in 1 .. Links : Touches(k, n)}

\* A file in which every link joins two of its nodes.
Proper ==
  \A k \in 1 .. Len(tmplinks) :
    {tmplinks[k][1], tmplinks[k][2]} \subseteq DOMAIN tmpnodes /\ First(k) # Second(k)

\* "Puts everything into place for fast searching by nodeID" (nodes.cpp:143):
\* every id that some link touches is in the table with all the links that
\* touch it, if only for such a file.
EverythingInPlace ==
  pass = 3 /\ Proper =>
    /\ DOMAIN nodes = TouchedIds
    /\ \A n \in DOMAIN nodes : Holds(n, {k \in 1 .. Links : Touches(k, n)})

\* What the code does put into place: for every id that some link touches, the
\* links that touch it since the last that replaced its entry.  Before that
\* link everything is forgotten (nodes.cpp:154-168).
HoldsLinksSinceReplaced ==
  pass = 3 =>
    /\ DOMAIN nodes = TouchedIds
    /\ \A n \in DOMAIN nodes :
         Holds(n, {k \in 1 .. Links : Touches(k, n) /\ ~\E j \in k+1 .. Links : Replaces(j, n)})

\* No link leads from an id that no earlier one touches to an id that one does.
NeverReplaces ==
  \A j \in 1 .. Links :
    (\E k \in 1 .. j-1 : Touches(k, Second(j))) => \E k \in 1 .. j-1 : Touches(k, First(j))

\* Every road is ruled evenly: one lane's width lies between neighbouring lines
\* (no line is drawn twice, none is left out), and there are lines for all the
\* lanes, one-way roads being ruled symmetrically about their middle
\* (setLinePoints, nodes.cpp:172-232).
EvenlyRuled(in, out, wide) ==
  LET lines == InLines(in, out, wide) \union CentreLine(in, out, wide)
               \union OutLines(in, out, wide)
      right == IF wide THEN 2 * in + 1 ELSE IF out > 0 THEN 2 * in ELSE in
      left == IF wide THEN 2 * out + 1 ELSE IF out > 0 THEN 2 * out ELSE in
  IN /\ lines = {x \in -left .. right : (x - right) % 2 = 0}
     /\ InLines(in, out, wide) \intersect OutLines(in, out, wide) = {}
     /\ 0 \in CentreLine(in, out, wide) =>
          0 \notin InLines(in, out, wide) \union OutLines(in, out, wide)

RoadsAreRuled == EvenlyRuled(road.in, road.out, road.wide)

=============================================================================
