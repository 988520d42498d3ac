---------------------------- MODULE XMLDocument ----------------------------
(***************************************************************************)
(* One XMLDocument that is loaded again and again, from files that may be  *)
(* missing, empty or malformed (LoadFile) and from strings (Parse), and    *)
(* printed in between.  The input is chosen token by token as the parser   *)
(* asks for it.                                                            *)
(***************************************************************************)
EXTENDS XMLParser, XMLPrinter

CONSTANTS
  Tokens,     \* the tokens an input is made of
  Rare,       \* those of which an input has at most MaxRare
  MaxRare,
  MaxTokens,  \* bound on the tokens of all the inputs together
  MaxAgain    \* bound on those of the inputs after the first

IsToken(tok) ==
  \/ /\ tok.k = "tag"
     /\ tok.slash \in BOOLEAN /\ tok.attrs \in Seq(Name) /\ tok.end \in {"gt", "sealed", "cut"}
  \/ tok.k = "text"
  \/ tok.k \in {"cdata", "comment", "decl", "unknown"} /\ tok.cut \in BOOLEAN

ASSUME InputAssumption ==
  /\ Rare \subseteq Tokens /\ \A tok \in Tokens : IsToken(tok)
  /\ MaxRare \in Nat /\ MaxTokens \in Nat /\ MaxAgain \in Nat

VARIABLES
  doc,     \* the document, see XMLParser
  read,    \* the tokens of the current input read so far
  whole,   \* whether they are the whole of it
  left,    \* how many more tokens there may be
  lost     \* history: a file was found malformed since the pools were last emptied

docVars == <<doc, read, whole, left, lost>>

Error == {"SUCCESS", "FILE_NOT_FOUND", "EMPTY_DOCUMENT", "PARSING", "PARSING_TEXT", "PARSING_CDATA",
          "PARSING_COMMENT", "PARSING_DECLARATION", "PARSING_UNKNOWN", "PARSING_ATTRIBUTE",
          "PARSING_ELEMENT", "MISMATCHED_ELEMENT"}

DocTypeOK ==
  /\ doc.heap.parent \in [Parent -> Parent \union {Null}]
  /\ doc.stack \in Seq(Element) /\ IsInjective(doc.stack)
  /\ doc.error \in Error /\ doc.parsing \in BOOLEAN
  /\ doc.parsing \/ doc.stack = <<>>
  /\ read \in Seq(Tokens)
  /\ whole \in BOOLEAN /\ lost \in BOOLEAN
  /\ left \in 0 .. MaxTokens

InitDoc ==
  /\ doc = EmptyDocument
  /\ read = <<>>
  /\ whole = FALSE
  /\ left = MaxTokens
  /\ lost = FALSE

\* LoadFile of a file that cannot be opened, or read: Clear and the error.
LoadMissing ==
  /\ ~doc.parsing
  /\ doc' = [ClearDocument(doc) EXCEPT !.error = "FILE_NOT_FOUND"]
  /\ read' = <<>> /\ whole' = FALSE
  /\ UNCHANGED <<left, lost>>

\* LoadFile and Parse of nothing, or of white space.
LoadEmpty ==
  /\ ~doc.parsing
  /\ doc' = [ClearDocument(doc) EXCEPT !.error = "EMPTY_DOCUMENT"]
  /\ read' = <<>> /\ whole' = FALSE
  /\ UNCHANGED <<left, lost>>

Load ==
  /\ ~doc.parsing
  /\ left > 0
  /\ doc' = [ClearDocument(doc) EXCEPT !.parsing = TRUE]
  /\ read' = <<>> /\ whole' = FALSE
  /\ left' = IF left < MaxTokens THEN Min({left, MaxAgain}) ELSE left
  /\ UNCHANGED lost

\* Two runs of text that follow each other would be one.
MayFollow(tok) ==
  /\ (tok.k = "text" /\ read # <<>>) => Last(read).k # "text"
  /\ tok \in Rare => Len(SelectSeq(read, LAMBDA r : r \in Rare)) < MaxRare

\* Parse( p, len ) cleans up after an error and LoadFile does not.
Returned(d, source) == IF d.error # "SUCCESS" /\ source = "string" THEN ClearPools(d) ELSE d

\* Which of the two is reading matters only once it has failed.  Memory is
\* bounded by the pools' blocks.
Read(tok, last) ==
  /\ doc.parsing
  /\ left > 0
  /\ left = 1 => last
  /\ MayFollow(tok)
  /\ CanAllocate(doc.heap, PoolFor(tok))
  /\ \E source \in {"file", "string"} :
       /\ doc' = Returned(Feed(doc, tok, last), source)
       /\ lost' = IF doc'.error = "SUCCESS" THEN lost ELSE source = "file"
  /\ read' = Append(read, tok) /\ whole' = last
  /\ left' = left - 1

NextDoc ==
  \/ LoadMissing
  \/ LoadEmpty
  \/ Load
  \/ \E tok \in Tokens, last \in BOOLEAN : Read(tok, last)

DocSpec == InitDoc /\ [][NextDoc]_docVars

(***************************************************************************)
(* What the text says, without a parser                                    *)
(***************************************************************************)

Opens(tok) == tok.k = "tag" /\ ~tok.slash /\ tok.end = "gt"
Closes(tok) == tok.k = "tag" /\ tok.slash /\ tok.end = "gt"

\* How many elements are open after the first i tokens.
Depth(toks, i) ==
  Cardinality({j \in 1 .. i : Opens(toks[j])}) - Cardinality({j \in 1 .. i : Closes(toks[j])})

\* Of the first n tokens, the i-th is the last that opens an element at depth d.
LastOpened(toks, n, d, i) ==
  LET opening == {k \in 1 .. n : Opens(toks[k]) /\ Depth(toks, k-1) = d}
  IN i \in opening /\ \A k \in opening : k <= i

WholeToken(tok) ==
  IF tok.k = "tag" THEN tok.name # "" /\ IsInjective(tok.attrs) /\ tok.end # "cut"
  ELSE tok.k = "text" \/ ~tok.cut

\* The text up to an end tag that has nothing to close, if there is one.
Considered(toks) ==
  LET stray == {i \in DOMAIN toks : Depth(toks, i) < 0 /\ WholeToken(toks[i])}
  IN IF stray = {} THEN toks ELSE SubSeq(toks, 1, Min(stray) - 1)

\* So far, so good: each end tag names what was opened last on its level, and no
\* declaration comes after the first thing below the document is complete.  The
\* latter is the rule that the code applies, not the one its comment states: see
\* DeclarationComesFirst.
Faultless(toks) ==
  \A i \in DOMAIN toks :
    /\ WholeToken(toks[i])
    /\ Closes(toks[i]) =>
         \E j \in 1 .. i-1 : LastOpened(toks, i-1, Depth(toks, i), j) /\ toks[j].name = toks[i].name
    /\ toks[i].k = "decl" => \A j \in 1 .. i-1 : Depth(toks, j) > 0

WellFormed(toks) == Faultless(toks) /\ Depth(toks, Len(toks)) = 0

\* The calls on a visitor that the tokens stand for.
Meant(tok) ==
  LET enter == [k |-> "enter", name |-> tok.name, attrs |-> tok.attrs]
      exit == [k |-> "exit", name |-> tok.name]
  IN CASE tok.k # "tag" -> <<tok>>
       [] Opens(tok) -> <<enter>>
       [] Closes(tok) -> <<exit>>
       [] OTHER -> <<enter, exit>>

Meaning(toks) == FlattenSeq([i \in DOMAIN toks |-> Meant(toks[i])])

(***************************************************************************)
(* Properties                                                              *)
(***************************************************************************)

Parsed == ~doc.parsing /\ read # <<>>

\* A text that is parsed without an error is well formed, up to the first end
\* tag that closes nothing: no end tag has closed the wrong element.
AcceptedIfWellFormed ==
  Parsed /\ doc.error = "SUCCESS" => WellFormed(Considered(read))

\* And the document holds exactly what the text says, in order and nesting:
\* nothing is lost between the levels of the recursion (XMLNode::ParseDeep,
\* tinyxml2.cpp:951-1036).  (The same text, cut short, is refused.)
ParsedAsWritten ==
  /\ AcceptedIfWellFormed
  /\ Parsed /\ doc.error = "SUCCESS" => Events(doc) = Meaning(Considered(read))

\* "A declaration can only be the first child of a document."
\* (tinyxml2.cpp:990).  The code asks only whether the document has children by
\* then, which it has not while its first element is being read.
DeclarationComesFirst ==
  Parsed /\ doc.error = "SUCCESS" =>
    \A n \in Alive(doc.heap) \ {Doc} : doc.value[n].k = "decl" => doc.heap.first[Doc] = n

\* The other way round: a text is refused only for a fault in what was read, or
\* for being at an end with an element still open or after a text, which only
\* the next tag would have ended.
RefusedForCause ==
  Parsed /\ doc.error # "SUCCESS" =>
    LET toks == Considered(read)
    IN \/ ~Faultless(toks)
       \/ whole /\ (Depth(toks, Len(toks)) # 0 \/ Last(read).k = "text")

\* Nothing leaks: outside a call every item in use is in the tree, during one
\* in the tree or below an element whose end tag is awaited; every item is
\* counted; and as long as no malformed file was loaded, the untracked ones are
\* those that hang nowhere, which is what Clear asserts (tinyxml2.cpp:1872-1879).
NothingLeaks ==
  /\ LinksAgree(doc.heap)
  /\ ItemsCounted(doc.heap)
  /\ Orphans(doc.heap, "element") = ToSet(doc.stack)
  /\ Orphans(doc.heap, "leaf") = {}
  /\ ~lost => /\ doc.heap.pool["element"].untracked = Len(doc.stack)
              /\ doc.heap.pool["leaf"].untracked = 0

\* A text just before the tag of an element, or directly below the document.
Exposed(events) ==
  \E i \in DOMAIN events :
    /\ events[i].k = "text"
    /\ \/ i < Len(events) /\ events[i+1].k = "enter"
       \/ Len(SelectSeq(SubSeq(events, 1, i), LAMBDA ev : ev.k = "enter")) =
          Len(SelectSeq(SubSeq(events, 1, i), LAMBDA ev : ev.k = "exit"))

\* What was parsed and is printed parses to the same document again: compactly
\* always, but for a text that ends the document, and indented unless a text is
\* exposed to the spaces that OpenElement prints even inside text
\* (tinyxml2.cpp:2284-2300).
RoundTrip ==
  Parsed /\ doc.error = "SUCCESS" =>
    LET events == Events(doc)
        again(compact) == ParseAll(Lex(Printed(events, compact)))
    IN \A compact \in BOOLEAN :
         events # <<>> /\ Last(events).k # "text" /\ (compact \/ ~Exposed(events)) =>
           again(compact).error = "SUCCESS" /\ Events(again(compact)) = events

=============================================================================
