-------------------------------- MODULE Yaml --------------------------------
(***************************************************************************)
(* How yaml.rs writes a string into the frontmatter of a claim, and what a *)
(* YAML reader makes of it.  A string is a sequence of classes of          *)
(* characters; a word that YAML resolves to something else than a string   *)
(* is a class of its own, so that <<"null">> is null and <<"null", "a">>   *)
(* is text.  The writer is the code's; the reader is yaml-rust2, taken by  *)
(* the rules of YAML for what this writer produces, with the typed access  *)
(* of yaml::de.                                                            *)
(***************************************************************************)
EXTENDS Integers, Sequences, SequencesExt

\* What is_timestamp takes for a date or a time.
Timestamps == {"time"}
Words == {"null", "bool", "yes", "hex"} \cup Timestamps
Chars == {"a", "1", ".", "-", ":", "#", "[", "'", "dq", "bs", " ", "tab", "nl", "cr", "ctl"}
Strings == Seq(Words \cup Chars)

\* Where a scalar stands: in the top mapping, in a mapping below it, in a mapping
\* that is an item of a sequence, or in a mapping below such an item.
Places == {"root", "nested", "item", "deep"}

\* The column of the key, which is the indentation of its mapping, and the column
\* at which write_map and write_map_item put the lines of a literal.
KeyColumn  == [root |-> 0, nested |-> 4, item |-> 10, deep |-> 12]
TextColumn == [root |-> 4, nested |-> 8, item |-> 10, deep |-> 14]

Has(s, set) == \E i \in DOMAIN s : s[i] \in set
HasPair(s, x, y) == \E i \in 1 .. Len(s) - 1 : s[i] = x /\ s[i + 1] = y
First(s) == s[1]

-----------------------------------------------------------------------------
(* The style of a scalar *)

Digits(s) == s # <<>> /\ \A i \in DOMAIN s : s[i] = "1"
Unsigned(s) ==
    IF \E i \in DOMAIN s : s[i] # "-"
    THEN SubSeq(s, CHOOSE i \in DOMAIN s : s[i] # "-" /\ \A j \in 1 .. i - 1 : s[j] = "-", Len(s))
    ELSE <<>>

\* parse_go_float, for at most one sign in front.
IsFloat(s) ==
    LET body == IF First(s) = "-" THEN Tail(s) ELSE s
    IN  \/ Digits(body)
        \/ /\ Has(body, {"1"}) /\ ~Has(body, (Words \cup Chars) \ {"1", "."})
           /\ \A i, j \in DOMAIN body : body[i] = "." /\ body[j] = "." => i = j

\* is_base60: groups of one or two digits, below 60 the way digits are taken here.
IsBase60(s) ==
    LET colons == {i \in DOMAIN s : s[i] = ":"}
    IN  /\ colons # {} /\ ~Has(s, (Words \cup Chars) \ {"1", ":"})
        /\ First(s) = "1" /\ Last(s) = "1" /\ ~HasPair(s, ":", ":")
        /\ \A i \in colons : i + 3 <= Len(s) =>
              \E j \in 1 .. 3 : s[i + j] = ":"

\* resolves_as_non_string
ResolvesAsNonString(s) ==
    \/ Len(s) = 1 /\ First(s) \in Words
    \/ /\ First(s) \in {"1", "-", "."}
       /\ \/ Digits(Unsigned(s))
          \/ IsFloat(s)
          \/ Unsigned(s) # <<>> /\ IsBase60(Unsigned(s))

\* A line that ends in a space.
TrailingBlank(s) == \E i \in DOMAIN s : s[i] = " " /\ (i = Len(s) \/ s[i + 1] = "nl")

LiteralAllowed(s) == ~Has(s, {"cr", "ctl"}) /\ ~TrailingBlank(s)

\* Mutant: a comment sign inside a text is not looked for.
PlainAllowed_NoComment(s) ==
    /\ First(s) # " " /\ Last(s) # " "
    /\ First(s) \notin {"#", "[", "'", "dq"}
    /\ First(s) \in {"-", ":"} => Len(s) > 1 /\ s[2] # " "
    /\ ~HasPair(s, ":", " ") /\ Last(s) # ":"

PlainAllowed(s) ==
    /\ First(s) # " " /\ Last(s) # " "
    /\ First(s) \notin {"#", "[", "'", "dq"}
    /\ First(s) \in {"-", ":"} => Len(s) > 1 /\ s[2] # " "
    /\ \A x \in {"-", "."} : ~IsPrefix(<<x, x, x>>, s)
    /\ ~HasPair(s, ":", " ") /\ ~HasPair(s, " ", "#") /\ Last(s) # ":"

ChooseStyle(s) ==
    CASE s = <<>> -> "double"
      [] Has(s, {"nl"}) -> IF LiteralAllowed(s) THEN "literal" ELSE "double"
      [] ~Has(s, {"nl"}) /\ s # <<>> ->
            IF ResolvesAsNonString(s) \/ Has(s, {"tab", "cr", "ctl"}) THEN "double"
            ELSE IF PlainAllowed(s) THEN "plain" ELSE "single"

-----------------------------------------------------------------------------
(* Writing: an inline scalar is its text between marks, a literal is a header *)
(* and its lines, each at a column.                                           *)

Longer(lines, char) == [lines EXCEPT ![Len(lines)] = Append(@, char)]

Lines(s) ==
    LET upto[n \in 0 .. Len(s)] ==
            IF n = 0 THEN << <<>> >>
            ELSE IF s[n] = "nl" THEN Append(upto[n - 1], <<>>) ELSE Longer(upto[n - 1], s[n])
    IN  upto[Len(s)]

\* The number of line breaks at the end.
TrailingBreaks(s) ==
    IF \A i \in DOMAIN s : s[i] = "nl" THEN Len(s)
    ELSE CHOOSE n \in 0 .. Len(s) : /\ s[Len(s) - n] # "nl"
                                    /\ \A i \in Len(s) - n + 1 .. Len(s) : s[i] = "nl"

\* What is escaped in a style, and the mark in front of it.
Escaped == [plain |-> {}, single |-> {"'"}, double |-> {"dq", "bs", "tab", "nl", "cr", "ctl"}]
Mark    == [single |-> "'", double |-> "bs"]

\* render_inline and render_double_quoted
Inline(s, style) ==
    FlattenSeq([i \in DOMAIN s |->
                   IF s[i] \in Escaped[style] THEN <<Mark[style], s[i]>> ELSE <<s[i]>>])

\* write_literal
Literal(s, place) ==
    LET trailing == TrailingBreaks(s)
        content  == Lines(SubSeq(s, 1, Len(s) - trailing))
    IN  [indicator |-> IF content[1] = <<>> \/ First(content[1]) = " "
                       THEN TextColumn[place] ELSE 0,
         chomp |-> IF trailing = 0 THEN "strip" ELSE IF trailing = 1 THEN "clip" ELSE "keep",
         column |-> TextColumn[place],
         lines |-> content, blank |-> IF trailing = 0 THEN 0 ELSE trailing - 1]

-----------------------------------------------------------------------------
(* Reading *)

Unreadable == <<"unreadable">>

\* The words the reader resolves; old booleans and timestamps are text to it.
Untyped == {"null", "bool", "hex"}

\* A plain scalar ends at a comment and must not look like anything else; a
\* field must hold a string (de::string).
ReadPlain(s) ==
    IF \/ First(s) \in {"#", "[", "'", "dq", " "} \/ Last(s) = " "
       \/ First(s) \in {"-", ":"} /\ (Len(s) = 1 \/ s[2] = " ")
       \/ HasPair(s, ":", " ") \/ Last(s) = ":" \/ HasPair(s, " ", "#")
       \/ Len(s) = 1 /\ First(s) \in Untyped
       \/ IsFloat(s) \/ Has(s, {"nl", "cr", "tab", "ctl"})
    THEN Unreadable ELSE s

\* Quotes are doubled between single quotes, a backslash escapes what follows it
\* between double quotes.
Unquote(t, mark) ==
    LET from[i \in 1 .. Len(t) + 1] ==
            IF i > Len(t) THEN <<>>
            ELSE IF t[i] = mark
                 THEN IF i < Len(t) THEN <<t[i + 1]>> \o from[i + 2] ELSE Unreadable
                 ELSE <<t[i]>> \o from[i + 1]
    IN  from[1]

\* The text column of a literal: given relative to its mapping, or that of its
\* first line, which must be to the right of its mapping.  Empty lines stand at no
\* column, and when there are no others they are all breaks at the end, which only
\* "keep" keeps.
ReadLiteral(lit, place) ==
    LET column == IF lit.indicator # 0 THEN KeyColumn[place] + lit.indicator ELSE lit.column
        joined == FlattenSeq([n \in DOMAIN lit.lines |->
                                 IF n = 1 THEN lit.lines[n] ELSE <<"nl">> \o lit.lines[n]])
        empty  == \A i \in DOMAIN joined : joined[i] = "nl"
    IN  IF empty /\ lit.chomp # "keep" THEN <<>>
        ELSE IF ~empty /\ (column <= KeyColumn[place] \/ column # lit.column) THEN Unreadable
        ELSE joined \o (CASE lit.chomp = "strip" -> <<>>
                          [] lit.chomp = "clip" -> <<"nl">>
                          [] lit.chomp = "keep" -> [i \in 1 .. lit.blank + 1 |-> "nl"])

\* What is read where s was written.
ReadBack(s, place) ==
    CASE ChooseStyle(s) = "plain"   -> ReadPlain(Inline(s, "plain"))
      [] ChooseStyle(s) = "single"  -> Unquote(Inline(s, "single"), Mark.single)
      [] ChooseStyle(s) = "double"  -> Unquote(Inline(s, "double"), Mark.double)
      [] ChooseStyle(s) = "literal" -> ReadLiteral(Literal(s, place), place)
=============================================================================
