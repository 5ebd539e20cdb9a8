------------------------------ MODULE MCRecall ------------------------------
(* A small instance of Recall for TLC. *)
EXTENDS Recall, TLC

CONSTANTS a, b, c, p1, p2

\* b replaces a; b and c contradict each other, which only c records.
Replaced  == (a :> {}) @@ (b :> {a}) @@ (c :> {})
Disputed  == (a :> {}) @@ (b :> {}) @@ (c :> {b})
FewDates == {Never, 1}

\* The ranking that a list of the claims stands for.
As(list) == [d \in Claims |-> CHOOSE i \in DOMAIN list : list[i] = d]
FewQueries ==
    {[hits |-> {a, b, c}, lex |-> As(<<a, b, c>>), vec |-> As(<<c, b, a>>), limit |-> 2],
     [hits |-> {b, c},    lex |-> As(<<c, b, a>>), vec |-> As(<<a, c, b>>), limit |-> 1]}

\* A text with everything usual, but for what is named.
Usual(year, month, day, hour, minute, second) ==
    [form |-> "exact", year |-> year, month |-> month, day |-> day, hour |-> hour,
     minute |-> minute, second |-> second, fraction |-> FALSE, zone |-> Zulu]
East(t, sign, hour, minute) == [t EXCEPT !.zone = [sign |-> sign, hour |-> hour, minute |-> minute]]
Fraction(t) == [t EXCEPT !.fraction = TRUE]

\* The clock starts in the last second before a leap day.
LeapEve == ReadField(Usual(2028, 2, 28, 23, 59, 59))
Eve     == Usual(2028, 2, 28, 23, 59, 59)
EveWest == Fraction(East(Usual(2028, 2, 28, 0, 0, 59), -1, 23, 59))
Leap    == Usual(2028, 2, 29, 0, 0, 0)
LeapEast == East(Usual(2028, 2, 29, 5, 30, 0), 1, 5, 30)
Nowhen  == Usual(2028, 2, 30, 0, 0, 0)

Asked(after, before, asof) == [after |-> after, before |-> before, as_of |-> asof]
FewWindows ==
    {Asked(NoText, NoText, NoText), Asked(NoText, NoText, EveWest), Asked(NoText, NoText, LeapEast),
     Asked(Leap, NoText, Fraction(Leap)), Asked(LeapEast, NoText, NoText),
     Asked(NoText, Eve, NoText), Asked(Leap, Eve, NoText), Asked(NoText, NoText, Nowhen)}

\* Every edge of a date, and every edge of a time and a zone on a few days.
Dates == {Usual(year, month, day, 12, 0, 0) :
             year \in {0, 1900, 1999, 2000, 2023, 2024, 2100}, month \in {0, 1, 2, 3, 4, 12, 13},
             day \in {0, 1, 28, 29, 30, 31, 32}}
Hours == {Usual(d[1], d[2], d[3], hour, minute, second) :
             d \in {<<0, 1, 1>>, <<2000, 1, 1>>, <<2024, 2, 29>>, <<2100, 2, 28>>,
                    <<9999, 12, 31>>},
             hour \in {0, 23, 24}, minute \in {0, 59, 60}, second \in {0, 59, 60}}
Zoned == {East(t, sign, hour, minute) :
             t \in Hours, sign \in {1, -1}, hour \in {0, 5, 23, 24}, minute \in {0, 30, 59, 60}}
ManyTexts == Dates \cup Zoned
             \cup {[t EXCEPT !.form = form, !.fraction = TRUE] : t \in Hours, form \in Forms}
=============================================================================
