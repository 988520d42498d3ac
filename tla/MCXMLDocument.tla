--------------------------- MODULE MCXMLDocument ---------------------------
(***************************************************************************)
(* Instance for TLC of XMLDocument, and of RoadNodes, which reads such a   *)
(* document: the items of the pools and the tokens.  The structure of a    *)
(* document and the roads share no state, so that a behaviour is about one *)
(* of them, with the other at rest.                                        *)
(***************************************************************************)
EXTENDS XMLDocument, RoadNodes

VARIABLE scene

CONSTANTS e1, e2, e3, e4, e5, e6, t1, t2, t3, t4, t5, t6

MCElementBlocks == << <<e1, e2, e3>>, <<e4, e5, e6>> >>
MCLeafBlocks == << <<t1, t2, t3>>, <<t4, t5, t6>> >>

Tag(slash, name, attrs, end) ==
  [k |-> "tag", slash |-> slash, name |-> name, attrs |-> attrs, end |-> end]
Other(k, cut) == [k |-> k, cut |-> cut]

Plain == { Tag(FALSE, "a", <<>>, "gt"), Tag(TRUE, "a", <<>>, "gt"), Tag(FALSE, "b", <<>>, "gt"),
           Tag(TRUE, "b", <<>>, "gt"), [k |-> "text", v |-> <<"t">>] }

MCRare ==
  { Tag(FALSE, "a", <<"x">>, "gt"), Tag(FALSE, "a", <<"x", "x">>, "gt"), Tag(FALSE, "a", <<>>, "sealed"),
    Tag(TRUE, "a", <<>>, "sealed"), Tag(TRUE, "a", <<"x">>, "cut"), Tag(FALSE, "", <<>>, "gt"),
    Tag(TRUE, "", <<>>, "gt"),
    Other("comment", FALSE), Other("comment", TRUE), Other("cdata", FALSE),
    Other("decl", FALSE), Other("unknown", FALSE) }

MCTokens == Plain \union MCRare

MCInit == InitDoc /\ Init /\ scene \in {"structure", "roads"}

InScene(s, A) == scene = s /\ A /\ UNCHANGED scene

\* populateNodes has returned.
Returned_ == pass = 3 /\ UNCHANGED vars

MCNext ==
  \/ InScene("structure", NextDoc) /\ UNCHANGED vars
  \/ InScene("roads", Next \/ Returned_) /\ UNCHANGED docVars

MCSpec == MCInit /\ [][MCNext]_<<docVars, vars, scene>>
=============================================================================
