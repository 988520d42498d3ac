------------------------------ MODULE XMLText ------------------------------
(***************************************************************************)
(* The text of a document, in place: StrPair and the part of XMLUtil that  *)
(* it uses, and XMLPrinter::PrintString.                                   *)
(*                                                                         *)
(* The parser copies nothing.  It keeps where a name or a value begins and *)
(* ends in the text it was given, and the first GetStr puts a terminator   *)
(* behind it and translates entities and line ends on the spot, with a     *)
(* write pointer that runs behind the read pointer.  Names are read while  *)
(* the parser is still at work, values whenever the caller asks.           *)
(*                                                                         *)
(* The text here is one element, <n a="value">text</n>, its value and text *)
(* put together from Pieces and the value between quotes of either kind; a *)
(* character is its code, so that translating one is arithmetic.  No       *)
(* reference has more digits than fit a word.  The element that was parsed *)
(* is printed, and what was printed is parsed again, once.                 *)
(***************************************************************************)
EXTENDS Integers, Sequences, SequencesExt

CONSTANTS
  Pieces,     \* what values and texts are made of: [src, says], in characters
  Modes,      \* ways the document may process them: [entities, collapse]
  MaxPieces,  \* bound on the pieces of both together
  MaxLong     \* bound on those of them that are more than one character

VARIABLES
  written,    \* the pieces of the value and of the text
  mode,       \* the document's: entities are processed, white space collapsed
  given,      \* the text the parser was given
  bytes,      \* the memory the text is in
  at,         \* the parser's p
  pair,       \* the StrPairs it has set
  reading,    \* what the parser does next
  printed     \* the value and the text when they were printed; nothing before

textVars == <<written, mode, given, bytes, at, pair, reading, printed>>

LF == 10
CR == 13
Blank == 32
Quote == 34
Amp == 38
Apostrophe == 39
Slash == 47
Semicolon == 59
Less == 60
Equal == 61
Greater == 62
LowerX == 120

Entity ==
  {[pattern |-> <<113, 117, 111, 116>>, value |-> Quote],
   [pattern |-> <<97, 109, 112>>, value |-> Amp],
   [pattern |-> <<97, 112, 111, 115>>, value |-> Apostrophe],
   [pattern |-> <<108, 116>>, value |-> Less],
   [pattern |-> <<103, 116>>, value |-> Greater]}

(***************************************************************************)
(* XMLUtil                                                                 *)
(***************************************************************************)

IsAlpha(c) == c \in 65 .. 90 \union 97 .. 122
IsDigit(c) == c \in 48 .. 57
IsWhiteSpace(c) == c \in 9 .. 13 \union {Blank}
IsNameStartChar(c) == c >= 128 \/ IsAlpha(c) \/ c \in {58, 95}
IsNameChar(c) == IsNameStartChar(c) \/ IsDigit(c) \/ c \in {45, 46}

SkipWhiteSpace(mem, p) == Min({i \in p .. Len(mem) : ~IsWhiteSpace(mem[i])})

ConvertUTF32ToUTF8(u) ==
  LET tail(k) == 128 + ((u \div 64^k) % 64)
      lead(mark, k) == mark + (u \div 64^k)
  IN CASE u < 128 -> <<u>>
       [] u \in 128 .. 2047 -> <<lead(192, 1), tail(0)>>
       [] u \in 2048 .. 65535 -> <<lead(224, 2), tail(1), tail(0)>>
       [] u \in 65536 .. 2097151 -> <<lead(240, 3), tail(2), tail(1), tail(0)>>
       [] OTHER -> <<>>

Digit(c) ==
  CASE IsDigit(c) -> c - 48
    [] c \in 97 .. 102 -> c - 87
    [] c \in 65 .. 70 -> c - 55
    [] OTHER -> 16

NoReference == [after |-> 0, out |-> <<>>]

\* The reference whose & is at p: what it stands for, and where it ends.  The
\* digits are those between the ; and the last x or # before it.
GetCharacterRef(mem, p) ==
  LET hex == mem[p+2] = LowerX
      base == IF hex THEN 16 ELSE 10
      ends == {i \in p+2 .. Len(mem) : mem[i] = Semicolon /\ \A j \in p .. i : mem[j] # 0}
      semi == Min(ends)
      mark == Max({i \in p+1 .. semi : mem[i] = IF hex THEN LowerX ELSE 35})
      digits == [i \in 1 .. semi - mark - 1 |-> Digit(mem[mark + i])]
  IN CASE mem[p+2] = 0 -> [after |-> p + 1, out |-> <<>>]
       [] mem[p+2] # 0 /\ ends = {} -> NoReference
       [] OTHER -> IF \E i \in DOMAIN digits : digits[i] >= base THEN NoReference
                   ELSE [after |-> semi + 1,
                         out |-> ConvertUTF32ToUTF8(FoldLeft(LAMBDA n, d : (base * n) + d, 0, digits))]

(***************************************************************************)
(* StrPair                                                                 *)
(***************************************************************************)

Set(start, end, flags) == [start |-> start, end |-> end, flags |-> flags \union {"flush"}]

\* Where the tag is found, or 0.
FindTag(mem, p, tag) ==
  LET found == {i \in p .. Len(mem) - 1 : mem[i] = tag /\ \A j \in p .. i : mem[j] # 0}
  IN IF found = {} THEN 0 ELSE Min(found)

\* Where a name that begins at p ends, or 0.
ParseName(mem, p) ==
  IF ~IsNameStartChar(mem[p]) THEN 0
  ELSE Min({i \in p+1 .. Len(mem) : ~IsNameChar(mem[i])})

\* The pointers move on: over `read' characters, with `out' in their place.
Put(s, read, out) ==
  [p |-> s.p + read, q |-> s.q + Len(out),
   mem |-> [i \in DOMAIN s.mem |-> IF i \in s.q .. s.q + Len(out) - 1
                                   THEN out[i - s.q + 1] ELSE s.mem[i]]]

LineEnd(s, first, second) == Put(s, IF s.mem[s.p+1] = second THEN 2 ELSE 1, <<LF>>)

Reference(s) ==
  LET ref == GetCharacterRef(s.mem, s.p)
  IN IF ref.after = 0 THEN Put(s, 1, <<Amp>>) ELSE Put(s, ref.after - s.p, ref.out)

\* An & that begins no entity is passed over and not written.
NamedEntity(s) ==
  LET after(e) == s.p + Len(e.pattern) + 1
      named == {e \in Entity : /\ after(e) <= Len(s.mem) /\ s.mem[after(e)] = Semicolon
                               /\ SubSeq(s.mem, s.p + 1, after(e) - 1) = e.pattern}
  IN IF named = {} THEN [s EXCEPT !.p = @ + 1, !.q = @ + 1]
     ELSE LET e == CHOOSE e \in named : TRUE
          IN Put(s, Len(e.pattern) + 2, <<e.value>>)

\* Variant: of a carriage return and a line feed, each is a line end.
Translate_NoPairs(s, flags) ==
  LET c == s.mem[s.p]
      entity == "entities" \in flags /\ c = Amp
  IN CASE "newline" \in flags /\ c \in {CR, LF} -> Put(s, 1, <<LF>>)
       [] entity /\ s.mem[s.p+1] = 35 -> Reference(s)
       [] entity /\ s.mem[s.p+1] # 35 -> NamedEntity(s)
       [] OTHER -> Put(s, 1, <<c>>)

\* One round of GetStr's loop.
Translate(s, flags) ==
  LET c == s.mem[s.p]
      entity == "entities" \in flags /\ c = Amp
  IN CASE "newline" \in flags /\ c = CR -> LineEnd(s, CR, LF)
       [] "newline" \in flags /\ c = LF -> LineEnd(s, LF, CR)
       [] entity /\ s.mem[s.p+1] = 35 -> Reference(s)
       [] entity /\ s.mem[s.p+1] # 35 -> NamedEntity(s)
       [] OTHER -> Put(s, 1, <<c>>)

\* The characters from p to the terminator.
CString(mem, p) == SubSeq(mem, p, Min({i \in p .. Len(mem) : mem[i] = 0}) - 1)

StoreStr(mem, p, str) ==
  [i \in DOMAIN mem |-> IF i = p + Len(str) THEN 0
                        ELSE IF i \in p .. p + Len(str) - 1 THEN str[i - p + 1] ELSE mem[i]]

\* Runs of white space become one blank, and none is left at either end.
CollapseWhitespace(mem, start) ==
  LET first == SkipWhiteSpace(mem, start)
      add(out, c) == IF ~IsWhiteSpace(c) THEN Append(out, c)
                     ELSE IF out = <<>> \/ Last(out) = Blank THEN out ELSE Append(out, Blank)
      run == FoldLeft(add, <<>>, CString(mem, first))
      out == IF run # <<>> /\ Last(run) = Blank THEN Front(run) ELSE run
  IN [mem |-> IF mem[first] = 0 THEN mem ELSE StoreStr(mem, first, out), start |-> first]

\* The first call translates, the others find no flag.
GetStr(mem, sp) ==
  LET cut == [mem EXCEPT ![sp.end] = 0]
      go(s, i) == IF s.p < sp.end THEN Translate(s, sp.flags) ELSE s
      done == FoldLeft(go, [p |-> sp.start, q |-> sp.start, mem |-> cut],
                       [i \in 1 .. sp.end - sp.start |-> i])
      text == IF sp.flags = {"flush"} THEN cut ELSE [done.mem EXCEPT ![done.q] = 0]
      trim == CollapseWhitespace(text, sp.start)
  IN CASE "flush" \notin sp.flags -> [mem |-> mem, pair |-> sp]
       [] "flush" \in sp.flags /\ "collapse" \in sp.flags ->
            [mem |-> trim.mem, pair |-> [sp EXCEPT !.start = trim.start, !.flags = {}]]
       [] OTHER -> [mem |-> text, pair |-> [sp EXCEPT !.flags = {}]]

(***************************************************************************)
(* XMLPrinter                                                              *)
(***************************************************************************)

\* Variant: quotes are left as they are in attributes, too.
Flagged_NoQuotes(restricted) == {Amp, Less, Greater}

\* The characters for which an entity is printed, in a text or an attribute.
Flagged(restricted) == IF restricted THEN {Amp, Less, Greater} ELSE {e.value : e \in Entity}

\* With entities switched off in the document, everything is printed as it is.
PrintString(str, restricted, processEntities) ==
  LET entity(c) == CHOOSE e \in Entity : e.value = c
      shown(c) == IF processEntities /\ c \in Flagged(restricted)
                  THEN <<Amp>> \o entity(c).pattern \o <<Semicolon>>
                  ELSE <<c>>
  IN FlattenSeq([i \in DOMAIN str |-> shown(str[i])])

(***************************************************************************)
(* The parser on its way through the element, and the caller afterwards.   *)
(***************************************************************************)

Source(pieces) == FlattenSeq([i \in DOMAIN pieces |-> pieces[i].src])

\* <n a="value", then the rest of the tag and what follows it, then the end.
TheElement(quote, value, rest) ==
  <<Less, 110, Blank, 97, Equal, quote>> \o value \o <<quote>> \o rest \o <<0>>

WithText(text) == <<Greater>> \o text \o <<Less, Slash, 110, Greater>>
Sealed == <<Slash, Greater>>

InitText ==
  /\ written = [value |-> <<>>, text |-> <<>>]
  /\ mode = [entities |-> TRUE, collapse |-> FALSE]
  /\ given = <<>> /\ bytes = <<>> /\ at = 0
  /\ pair = << >>
  /\ reading = "nothing"
  /\ printed = << >>

Write ==
  /\ reading = "nothing"
  /\ \E k \in {"value", "text"}, x \in Pieces : written' = [written EXCEPT ![k] = Append(@, x)]
  /\ LET all == written'.value \o written'.text
     IN /\ Len(all) <= MaxPieces
        /\ Len(SelectSeq(all, LAMBDA x : Len(x.src) > 1)) <= MaxLong
  /\ UNCHANGED <<mode, given, bytes, at, pair, reading, printed>>

Given(text) == given' = text /\ bytes' = text /\ at' = 2 /\ pair' = << >> /\ reading' = "name"

\* XMLDocument::XMLDocument is given the mode, and Parse the text; the writer of
\* the text takes a quote that the value does not hold.
BeginText ==
  /\ reading = "nothing"
  /\ mode' \in Modes
  /\ \E quote \in {Quote, Apostrophe} \ ToSet(Source(written.value)) :
       Given(TheElement(quote, Source(written.value), WithText(Source(written.text))))
  /\ UNCHANGED <<written, printed>>

Flags(entities, collapse) ==
  {"newline"} \union (IF entities THEN {"entities"} ELSE {})
              \union (IF collapse THEN {"collapse"} ELSE {})

\* XMLElement::ParseDeep
ReadName ==
  /\ reading = "name"
  /\ LET end == ParseName(bytes, at)
     IN pair' = [name |-> Set(at, end, {})] /\ at' = end
  /\ reading' = "attribute"
  /\ UNCHANGED <<written, mode, given, bytes, printed>>

\* XMLAttribute::ParseDeep, and the look at the name for whether it is new;
\* and so to the end of the tag.  Anything else there is refused.
ReadAttribute ==
  /\ reading = "attribute"
  /\ LET p == SkipWhiteSpace(bytes, at)
         end == ParseName(bytes, p)
         equal == SkipWhiteSpace(bytes, end)
         quote == SkipWhiteSpace(bytes, equal + 1)
         close == FindTag(bytes, quote + 1, bytes[quote])
         name == GetStr(bytes, Set(p, end, {}))
         after == SubSeq(bytes, close + 1, close + 2)
     IN /\ bytes[equal] = Equal /\ bytes[quote] \in {Quote, Apostrophe}
        /\ pair' = pair @@ [attribute |-> name.pair,
                            value |-> Set(quote + 1, close, Flags(mode.entities, FALSE))]
        /\ bytes' = name.mem
        /\ at' = IF after = Sealed THEN close + 3 ELSE close + 2
        /\ reading' = CASE after = Sealed -> "done"
                        [] Head(after) = Greater -> "text"
                        [] OTHER -> "refused"
  /\ UNCHANGED <<written, mode, given, printed>>

\* Variant: the text is read as soon as it has been set.
ReadText_Eager ==
  /\ reading = "text"
  /\ LET tag == FindTag(bytes, at, Less)
         text == GetStr(bytes, Set(at, tag, Flags(mode.entities, mode.collapse)))
         blank == SkipWhiteSpace(bytes, at) = tag
     IN /\ pair' = IF blank THEN pair ELSE pair @@ [text |-> text.pair]
        /\ bytes' = IF blank THEN bytes ELSE text.mem
        /\ at' = tag
  /\ reading' = "end"
  /\ UNCHANGED <<written, mode, given, printed>>

\* White space alone is no text (Identify); one is left on the < that ends it.
ReadText ==
  /\ reading = "text"
  /\ LET tag == FindTag(bytes, at, Less)
     IN /\ pair' = IF SkipWhiteSpace(bytes, at) = tag THEN pair
                   ELSE pair @@ [text |-> Set(at, tag, Flags(mode.entities, mode.collapse))]
        /\ at' = tag
  /\ reading' = "end"
  /\ UNCHANGED <<written, mode, given, bytes, printed>>

\* The end tag's name is compared with the element's, both read for it.
ReadEndTag ==
  /\ reading = "end"
  /\ bytes[at] = Less
  /\ LET end == ParseName(bytes, at + 2)
         theirs == GetStr(bytes, Set(at + 2, end, {}))
         ours == GetStr(theirs.mem, pair.name)
     IN /\ bytes' = ours.mem
        /\ pair' = [pair EXCEPT !.name = ours.pair]
        /\ at' = end + 1
        /\ reading' = IF CString(bytes', at + 2) = CString(bytes', ours.pair.start)
                      THEN "done" ELSE "mismatch"
  /\ UNCHANGED <<written, mode, given, printed>>

\* XMLNode::Value and XMLAttribute::Value, in any order and again.
Value(k) ==
  /\ reading = "done"
  /\ k \in DOMAIN pair
  /\ LET got == GetStr(bytes, pair[k])
     IN bytes' = got.mem /\ pair' = [pair EXCEPT ![k] = got.pair]
  /\ UNCHANGED <<written, mode, given, at, reading, printed>>

\* XMLDocument::Print, and Parse of what was printed.
Reprint ==
  /\ reading = "done" /\ printed = << >>
  /\ printed' = [k \in {"value", "text"} \intersect DOMAIN pair |->
                   LET got == GetStr(bytes, pair[k]) IN CString(got.mem, got.pair.start)]
  /\ LET shown(k) == PrintString(printed'[k], k = "text", mode.entities)
     IN Given(TheElement(Quote, shown("value"),
                      IF "text" \in DOMAIN pair THEN WithText(shown("text")) ELSE Sealed))
  /\ UNCHANGED <<written, mode>>

\* XMLDocument::Clear; the next text is another.
Clear ==
  /\ reading \in {"done", "refused"}
  /\ written' = [value |-> <<>>, text |-> <<>>]
  /\ mode' = [entities |-> TRUE, collapse |-> FALSE]
  /\ given' = <<>> /\ bytes' = <<>> /\ at' = 0
  /\ pair' = << >> /\ printed' = << >>
  /\ reading' = "nothing"

NextText == Write \/ BeginText \/ ReadName \/ ReadAttribute \/ ReadText \/ ReadEndTag
            \/ (\E k \in {"value", "text"} : Value(k)) \/ Reprint \/ Clear

(***************************************************************************)
(* What the text says, without pointers                                    *)
(***************************************************************************)

\* A carriage return and a line feed that meet are one line end.
LineEnds(str) ==
  LET add(acc, c) ==
        CASE c \in {CR, LF} /\ acc.open \in {CR, LF} \ {c} -> [acc EXCEPT !.open = 0]
          [] c \in {CR, LF} /\ acc.open \notin {CR, LF} \ {c} ->
               [out |-> Append(acc.out, LF), open |-> c]
          [] OTHER -> [out |-> Append(acc.out, c), open |-> 0]
  IN FoldLeft(add, [out |-> <<>>, open |-> 0], str).out

\* The words, one blank apart.
Words(str) ==
  LET begins(i) == ~IsWhiteSpace(str[i]) /\ (i = 1 \/ IsWhiteSpace(str[i-1]))
      start == Min({i \in DOMAIN str : begins(i)})
      keep(i) == IF IsWhiteSpace(str[i]) THEN <<>>
                 ELSE IF begins(i) /\ i # start THEN <<Blank, str[i]>> ELSE <<str[i]>>
  IN FlattenSeq([i \in DOMAIN str |-> keep(i)])

\* What a reference stands for is no line end: it is shielded meanwhile.
Says(pieces) ==
  LET shield == 256
      of(x) == IF mode.entities /\ x.says # x.src THEN [i \in DOMAIN x.says |-> x.says[i] + shield] ELSE x.src
      said == LineEnds(FlattenSeq([i \in DOMAIN pieces |-> of(pieces[i])]))
  IN [i \in DOMAIN said |-> said[i] % shield]

\* A bare & is kept where it is, and lost behind anything that got shorter.
BareAmp(pieces) ==
  mode.entities /\ \E i \in DOMAIN pieces :
    pieces[i].src = <<Amp>> /\ Len(Says(SubSeq(pieces, 1, i-1))) < Len(Source(SubSeq(pieces, 1, i-1)))

Got(k) == CString(bytes, pair[k].start)

(***************************************************************************)
(* Properties                                                              *)
(***************************************************************************)

\* However often and in whatever order values are read, and although each is
\* written over the text it came from, each reads as what was written, line
\* ends and entities translated once and white space collapsed where asked for
\* (StrPair::GetStr, tinyxml2.cpp:261-357); but for an & that begins nothing,
\* behind something that got shorter: it is passed over and what stood there
\* before is read (334-336).
ReadAsWritten ==
  \A k \in {"value", "text"} \intersect DOMAIN pair :
    printed = << >> /\ pair[k].flags = {} /\ ~BareAmp(written[k]) =>
      Got(k) = IF k = "text" /\ mode.collapse THEN Words(Says(written[k])) ELSE Says(written[k])

\* A terminator is put only where the parser has been: reading a name in the
\* middle of the work changes neither what is still to be parsed nor a value
\* that was set and not read, and no end tag is taken for another's
\* (tinyxml2.cpp:266, 1023, 1669).
RestUntouched ==
  reading # "nothing" =>
    /\ reading # "mismatch"
    /\ SubSeq(bytes, at, Len(bytes)) = SubSeq(given, at, Len(given))
    /\ \A k \in DOMAIN pair :
         pair[k].flags # {} =>
           SubSeq(bytes, pair[k].start, pair[k].end - 1) = SubSeq(given, pair[k].start, pair[k].end - 1)

\* Without entities a double quote cannot be printed in an attribute, whatever
\* quotes it was read from.
Unprintable == ~mode.entities /\ Quote \in ToSet(printed.value)

\* What was parsed and is printed is parsed again, with the same switches, to
\* the same value and text, up to carriage returns (tinyxml2.cpp:2222-2269,
\* 2486); but for a double quote without entities, which ends the value early,
\* and for a text of which translating left only white space, which is no text
\* when it is read as it is.
PrintedReadsBack ==
  printed # << >> /\ ~Unprintable =>
    /\ reading # "refused"
    /\ \A k \in {"value", "text"} \intersect DOMAIN pair :
         pair[k].flags = {} => Got(k) = LineEnds(printed[k])
    /\ reading = "done" /\ "text" \in DOMAIN printed =>
         ("text" \in DOMAIN pair <=> \E c \in ToSet(printed.text) : ~IsWhiteSpace(c))

=============================================================================
