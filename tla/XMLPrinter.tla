----------------------------- MODULE XMLPrinter -----------------------------
(***************************************************************************)
(* XMLPrinter, the visitor that writes a document.  Its output is the      *)
(* sequence of the tokens of XMLParser, with the white space it puts in    *)
(* between as tokens of their own: whether that white space is dropped or  *)
(* becomes part of a text is for the reader of the output to say (Lex).    *)
(* A tag that has been opened stays "cut" until it is sealed.              *)
(***************************************************************************)
EXTENDS Integers, Sequences, SequencesExt

NewPrinter(compact) ==
  [out |-> <<>>, stack |-> <<>>, depth |-> 0, textDepth |-> -1,
   justOpened |-> FALSE, firstElement |-> TRUE, compact |-> compact]

Space == [k |-> "space"]

Emit(x, tok) == [x EXCEPT !.out = Append(@, tok)]

\* Print( "\n" ) and PrintSpace
NewLine(x) == Emit(x, Space)
PrintSpace(x) == IF x.depth > 0 THEN Emit(x, Space) ELSE x

SealElementIfJustOpened(x) ==
  IF x.justOpened
  THEN [x EXCEPT !.justOpened = FALSE, !.out[Len(x.out)].end = "gt"]
  ELSE x

\* The spaces are left out in compact mode only, the newline also inside text.
OpenElement(x, name) ==
  LET sealed == SealElementIfJustOpened(x)
      line == IF x.textDepth < 0 /\ ~x.firstElement /\ ~x.compact THEN NewLine(sealed) ELSE sealed
      indented == IF x.compact THEN line ELSE PrintSpace(line)
      tag == [k |-> "tag", slash |-> FALSE, name |-> name, attrs |-> <<>>, end |-> "cut"]
  IN [Emit(indented, tag) EXCEPT !.stack = Append(@, name), !.justOpened = TRUE,
                                 !.firstElement = FALSE, !.depth = @ + 1]

PushAttribute(x, a) == [x EXCEPT !.out[Len(x.out)].attrs = Append(@, a)]

\* Variant: the end tag is put on a line of its own inside text, too.
CloseElement_InText(x) ==
  LET up == [x EXCEPT !.depth = @ - 1, !.stack = Front(@)]
      line == IF ~x.compact THEN PrintSpace(NewLine(up)) ELSE up
      tag == [k |-> "tag", slash |-> TRUE, name |-> Last(x.stack), attrs |-> <<>>, end |-> "gt"]
      closed == IF x.justOpened THEN [up EXCEPT !.out[Len(x.out)].end = "sealed"]
                ELSE Emit(line, tag)
      after == IF up.depth = 0 /\ ~x.compact THEN NewLine(closed) ELSE closed
  IN [after EXCEPT !.textDepth = IF @ = up.depth THEN -1 ELSE @, !.justOpened = FALSE]

CloseElement(x) ==
  LET up == [x EXCEPT !.depth = @ - 1, !.stack = Front(@)]
      line == IF x.textDepth < 0 /\ ~x.compact THEN PrintSpace(NewLine(up)) ELSE up
      tag == [k |-> "tag", slash |-> TRUE, name |-> Last(x.stack), attrs |-> <<>>, end |-> "gt"]
      closed == IF x.justOpened THEN [up EXCEPT !.out[Len(x.out)].end = "sealed"]
                ELSE Emit(line, tag)
      after == IF up.depth = 0 /\ ~x.compact THEN NewLine(closed) ELSE closed
  IN [after EXCEPT !.textDepth = IF @ = up.depth THEN -1 ELSE @, !.justOpened = FALSE]

\* PushText, also of a CDATA section
PushText(x, tok) ==
  Emit(SealElementIfJustOpened([x EXCEPT !.textDepth = x.depth - 1]), tok)

\* PushComment, PushDeclaration and PushUnknown
PushOther(x, tok) ==
  LET sealed == SealElementIfJustOpened(x)
      line == IF x.textDepth < 0 /\ ~x.firstElement /\ ~x.compact
              THEN PrintSpace(NewLine(sealed)) ELSE sealed
  IN [Emit(line, tok) EXCEPT !.firstElement = FALSE]

VisitEnter(x, ev) == FoldLeft(PushAttribute, OpenElement(x, ev.name), ev.attrs)

Visit(x, ev) ==
  CASE ev.k = "enter" -> VisitEnter(x, ev)
    [] ev.k = "exit" -> CloseElement(x)
    [] ev.k \in {"text", "cdata"} -> PushText(x, ev)
    [] OTHER -> PushOther(x, ev)

\* The output for a document that is visited by these calls.
Printed(events, compact) == FoldLeft(Visit, NewPrinter(compact), events).out

(***************************************************************************)
(* How a reader sees the output: a run of text and white space is one text *)
(* if there is any text in it, and nothing if there is none.               *)
(***************************************************************************)

Run(tok) == IF tok.k = "space" THEN <<"space">> ELSE tok.v

Lex(out) ==
  LET run(tok) == tok.k \in {"text", "space"}
      add(acc, tok) ==
        IF run(tok)
        THEN IF acc # <<>> /\ Last(acc).k = "text"
             THEN [acc EXCEPT ![Len(acc)].v = @ \o Run(tok)]
             ELSE Append(acc, [k |-> "text", v |-> Run(tok)])
        ELSE Append(acc, tok)
      visible(tok) == tok.k = "text" => \E i \in DOMAIN tok.v : tok.v[i] # "space"
  IN SelectSeq(FoldLeft(add, <<>>, out), visible)

=============================================================================
