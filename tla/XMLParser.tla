----------------------------- MODULE XMLParser -----------------------------
(***************************************************************************)
(* XMLDocument::Parse over a text cut into tokens, one call of Feed for    *)
(* each.  The recursion of ParseDeep is the stack of the elements whose    *)
(* end tags have not been read: such an element has its children already,  *)
(* but is hung below its own parent only when its end tag has matched.     *)
(*                                                                         *)
(* A token is a run of text, a CDATA section, a comment, a declaration, an *)
(* unknown <! > or a tag:                                                  *)
(*   [k |-> "text", v |-> its pieces]                                      *)
(*   [k |-> "cdata", "comment", ..., cut |-> no terminator is found]       *)
(*   [k |-> "tag", slash |-> it begins with </, name, attrs, end |-> how]  *)
(* where a tag's end is "gt" for >, "sealed" for />, or "cut" for anything *)
(* that is neither these nor an attribute; white space between tags, which *)
(* Identify skips, is no token.                                            *)
(*                                                                         *)
(* The document is a record: its heap, what each node holds, the stack,    *)
(* _errorID, and whether the parser is still reading.                      *)
(***************************************************************************)
EXTENDS XMLHeap

EmptyDocument ==
  [heap |-> EmptyHeap, value |-> [n \in Node |-> Null], stack |-> <<>>,
   error |-> "SUCCESS", parsing |-> FALSE]

\* The node whose children are being read.
Level(d) == IF d.stack = <<>> THEN Doc ELSE Last(d.stack)

\* A new node of the type of the token, hung nowhere yet.
Identify(d, p, tok) ==
  [d EXCEPT !.heap = NewNode(@, p), !.value[NewAddress(d.heap, p)] = tok]

Discard(d, n) == [d EXCEPT !.heap = DeleteNode(@, n)]

\* The return of 0 through every level, from the last: each deletes the element
\* it was reading.
Abandon(h, s) ==
  LET after[i \in 0 .. Len(s)] ==
        IF i = 0 THEN h ELSE DeleteNode(after[i - 1], s[Len(s) - i + 1])
  IN after[Len(s)]

\* SetError, and the way back, on which nothing overwrites the first error.
Fail(d, e) ==
  [d EXCEPT !.heap = Abandon(@, d.stack),
            !.stack = <<>>, !.error = e, !.parsing = FALSE]

Hang(d, n) == [d EXCEPT !.heap = InsertEndChild(@, Level(d), n)]

LeafError(k) == [text |-> "PARSING_TEXT", cdata |-> "PARSING_CDATA",
                 comment |-> "PARSING_COMMENT", decl |-> "PARSING_DECLARATION",
                 unknown |-> "PARSING_UNKNOWN"][k]

\* A run of text is ended by the next tag only, so that the end of the input
\* makes it an error.  The declaration's place is judged by whether the
\* document itself has children yet.
TakeLeaf(d, tok, last) ==
  LET n == NewAddress(d.heap, "leaf")
      g == Identify(d, "leaf", tok)
      unfinished == IF tok.k = "text" THEN last ELSE tok.cut
      misplaced == tok.k = "decl" /\ d.heap.first[Doc] # Null
  IN IF unfinished \/ misplaced THEN Fail(Discard(g, n), LeafError(tok.k)) ELSE Hang(g, n)

\* The attributes up to the first that is there already, each a new one behind
\* the last.
ParseAttributes(h, e, attrs) ==
  LET again == {i \in DOMAIN attrs : \E j \in 1 .. i-1 : attrs[j] = attrs[i]}
      good == IF again = {} THEN attrs ELSE SubSeq(attrs, 1, Min(again) - 1)
  IN [h EXCEPT !.attr[e] = @ \o good, !.pool["attribute"].current = @ + Len(good)]

AttributeError(tok) ==
  CASE tok.name = "" -> "PARSING"
    [] tok.name # "" /\ ~IsInjective(tok.attrs) -> "PARSING_ATTRIBUTE"
    [] tok.name # "" /\ IsInjective(tok.attrs) /\ tok.end = "cut" -> "PARSING_ELEMENT"
    [] OTHER -> "SUCCESS"

\* ParseAttributes sets CLOSED over the CLOSING set before it.
ClosingType(tok) ==
  CASE tok.end = "sealed" -> "CLOSED"
    [] tok.end = "gt" /\ tok.slash -> "CLOSING"
    [] OTHER -> "OPEN"

\* Variant: any end tag closes the element being read.
Close_AnyName(d, tok, e) ==
  LET g == [d EXCEPT !.heap = DeleteNode(Track(@, e), e)]
      up == [g EXCEPT !.stack = Front(@)]
  IN IF g.stack = <<>> THEN [g EXCEPT !.parsing = FALSE] ELSE Hang(up, Level(g))

\* Variant: the end tag is compared with the outermost element.
Close_Outermost(d, tok, e) ==
  LET g == [d EXCEPT !.heap = DeleteNode(Track(@, e), e)]
      up == [g EXCEPT !.stack = Front(@)]
  IN CASE g.stack = <<>> -> [g EXCEPT !.parsing = FALSE]
       [] g.stack # <<>> /\ g.value[Head(g.stack)].name = tok.name -> Hang(up, Level(g))
       [] OTHER -> Fail(g, "MISMATCHED_ELEMENT")

\* Variant: the end tag's own element is deleted without having been tracked.
Close_Untracked(d, tok, e) ==
  LET g == [d EXCEPT !.heap = DeleteNode(@, e)]
      up == [g EXCEPT !.stack = Front(@)]
  IN CASE g.stack = <<>> -> [g EXCEPT !.parsing = FALSE]
       [] g.stack # <<>> /\ g.value[Level(g)].name = tok.name -> Hang(up, Level(g))
       [] OTHER -> Fail(g, "MISMATCHED_ELEMENT")

\* An end tag is read as an element of its own and deleted.  On the level of
\* the document there is no parentEnd to take it and the parser just returns;
\* on any other it closes the element being read, or is an error.
Close(d, tok, e) ==
  LET g == [d EXCEPT !.heap = DeleteNode(Track(@, e), e)]
      up == [g EXCEPT !.stack = Front(@)]
  IN CASE g.stack = <<>> -> [g EXCEPT !.parsing = FALSE]
       [] g.stack # <<>> /\ g.value[Level(g)].name = tok.name -> Hang(up, Level(g))
       [] OTHER -> Fail(g, "MISMATCHED_ELEMENT")

TakeTag(d, tok, last) ==
  LET e == NewAddress(d.heap, "element")
      i == Identify(d, "element", tok)
      g == [i EXCEPT !.heap = ParseAttributes(@, e, tok.attrs)]
  IN CASE AttributeError(tok) # "SUCCESS" -> Fail(Discard(g, e), AttributeError(tok))
       [] AttributeError(tok) = "SUCCESS" /\ ClosingType(tok) = "CLOSED" -> Hang(g, e)
       [] AttributeError(tok) = "SUCCESS" /\ ClosingType(tok) = "CLOSING" -> Close(g, tok, e)
       [] OTHER -> IF last THEN Fail(Discard(g, e), "MISMATCHED_ELEMENT")
                   ELSE [g EXCEPT !.stack = Append(@, e)]

\* No token is left: well and good on the level of the document.
AtEnd(d) == IF d.stack = <<>> THEN [d EXCEPT !.parsing = FALSE] ELSE Fail(d, "PARSING")

\* The pool the token's node comes from.
PoolFor(tok) == IF tok.k = "tag" THEN "element" ELSE "leaf"

Take(d, tok, last) == IF tok.k = "tag" THEN TakeTag(d, tok, last) ELSE TakeLeaf(d, tok, last)

\* Nothing is left of the values of deleted nodes.
Forget(d) ==
  LET alive == Alive(d.heap)
  IN [d EXCEPT !.value = [n \in Node |-> IF n \in alive THEN @[n] ELSE Null]]

Feed(d, tok, last) ==
  LET g == Take(d, tok, last)
  IN Forget(IF last /\ g.parsing THEN AtEnd(g) ELSE g)

\* XMLDocument::Clear
ClearDocument(d) == Forget([d EXCEPT !.heap = DeleteChildren(@, Doc), !.error = "SUCCESS"])

\* What Parse( p, len ) does after an error: it empties the pools as well.
ClearPools(d) == Forget([d EXCEPT !.heap = EmptyHeap])

\* The whole of a text at once.
ParseAll(toks) ==
  LET start == [EmptyDocument EXCEPT !.parsing = TRUE]
      feed(d, i) == IF d.parsing THEN Feed(d, toks[i], i = Len(toks)) ELSE d
  IN IF toks = <<>> THEN [start EXCEPT !.error = "EMPTY_DOCUMENT", !.parsing = FALSE]
     ELSE FoldLeft(feed, start, [i \in 1 .. Len(toks) |-> i])

\* The calls Accept makes on a visitor, in order: what a document holds.
Events(d) ==
  LET of[n \in Parent] ==
        LET kids == Children(d.heap, n)
            inner == FlattenSeq([i \in DOMAIN kids |-> of[kids[i]]])
        IN CASE n = Doc -> inner
             [] n \in Leaf -> <<d.value[n]>>
             [] OTHER -> <<[k |-> "enter", name |-> d.value[n].name, attrs |-> d.heap.attr[n]]>>
                         \o inner \o <<[k |-> "exit", name |-> d.value[n].name]>>
  IN of[Doc]

=============================================================================
