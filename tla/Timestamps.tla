----------------------------- MODULE Timestamps -----------------------------
(***************************************************************************)
(* The two readers of an RFC 3339 timestamp: the one of the bounds of a    *)
(* query, written by hand with the messages of Go (parse_rfc3339_go in     *)
(* query.rs), and the library's, which reads what a claim file says        *)
(* (clock.rs).  A text is its numbers, in or out of range, its zone, and   *)
(* how far its layout is the usual one.  An instant is the day, the second *)
(* of the day and what is below a second, all in UTC.                      *)
(***************************************************************************)
EXTENDS Integers

\* "exact": digits, "-", "T", ":" and "Z" where RFC 3339 has them.  "loose": a comma,
\* or no digit, after the second; "lower": another separator, or a small letter;
\* "garbled": anything else.
Forms == {"exact", "loose", "lower", "garbled"}
Day   == 86400
Bad   == <<>>  \* the reader refuses the text

\* A zone is an hour and a minute to the east (sign 1) or to the west.
Zulu == [sign |-> 1, hour |-> 0, minute |-> 0]
IsText(t) ==
    /\ t.form \in Forms /\ t.fraction \in BOOLEAN
    /\ {t.year, t.month, t.day, t.hour, t.minute, t.second} \subseteq Nat
    /\ t.zone.sign \in {1, -1} /\ {t.zone.hour, t.zone.minute} \subseteq Nat
Offset(zone) == zone.sign * (zone.hour * 3600 + zone.minute * 60)

-----------------------------------------------------------------------------
(* The calendar of the library *)

\* The number of a day; years begin in March here, so that a leap day is the last.
DayNumber(y, m, d) ==
    LET year == IF m <= 2 THEN y - 1 ELSE y
    IN  365 * year + (year \div 4) - (year \div 100) + (year \div 400)
          + ((153 * ((m + 9) % 12) + 2) \div 5) + d - 1

\* The date of a day: 400 years are 146097 days.
DateOf(n) ==
    LET rest  == n % 146097
        year  == (rest - (rest \div 1460) + (rest \div 36524) - (rest \div 146096)) \div 365
        doy   == rest - (365 * year + (year \div 4) - (year \div 100))
        march == (5 * doy + 2) \div 153
        month == IF march < 10 THEN march + 3 ELSE march - 9
    IN  [year  |-> 400 * (n \div 146097) + year + (IF month <= 2 THEN 1 ELSE 0),
         month |-> month,
         day   |-> doy - ((153 * march + 2) \div 5) + 1]

IsDate(t) ==
    DateOf(DayNumber(t.year, t.month, t.day)) = [year |-> t.year, month |-> t.month, day |-> t.day]

\* with_ymd_and_hms, then with_timezone(&Utc)
Instant(t, below) ==
    LET local == t.hour * 3600 + t.minute * 60 + t.second - Offset(t.zone)
    IN  <<DayNumber(t.year, t.month, t.day) + (local \div Day), local % Day, below>>

Below(t) == IF t.fraction THEN 1 ELSE 0

\* clock.rs: a leap second is what is below the second before it.
ReadField(t) ==
    IF /\ t.form \in {"exact", "lower"}
       /\ t.month \in 1 .. 12 /\ IsDate(t)
       /\ t.hour <= 23 /\ t.minute <= 59 /\ t.second <= 60
       /\ t.zone.hour <= 23 /\ t.zone.minute <= 59
    THEN IF t.second = 60 THEN Instant([t EXCEPT !.second = 59], 2 + Below(t))
         ELSE Instant(t, Below(t))
    ELSE Bad

FourDigits(year) == year \in 0 .. 9999

\* What the program writes for an instant (clock::rfc3339): whole seconds, in UTC, with
\* a sign before a year that is not of four digits, which RFC 3339 does not have.
Written(i) ==
    LET date == DateOf(i[1])
    IN  [form |-> IF FourDigits(date.year) THEN "exact" ELSE "garbled",
         year |-> date.year, month |-> date.month, day |-> date.day,
         hour |-> i[2] \div 3600, minute |-> (i[2] % 3600) \div 60, second |-> i[2] % 60,
         fraction |-> FALSE, zone |-> Zulu]

-----------------------------------------------------------------------------
(* parse_rfc3339_go *)

\* Mutant: every fourth year.
DaysIn_Julian(year, month) ==
    IF month \in {4, 6, 9, 11} THEN 30
    ELSE IF month # 2 THEN 31
    ELSE IF year % 4 = 0 THEN 29 ELSE 28

DaysIn(year, month) ==
    IF month \in {4, 6, 9, 11} THEN 30
    ELSE IF month # 2 THEN 31
    ELSE IF (year % 4 = 0 /\ year % 100 # 0) \/ year % 400 = 0 THEN 29 ELSE 28

\* The minute of a zone is not limited; together with the hour it is less than a day.
ZoneFits(zone) == zone.hour <= 23 /\ zone.hour * 3600 + zone.minute * 60 < Day

\* What is below a second is dropped.
ReadBound(t) ==
    IF /\ t.form \in {"exact", "loose"}
       /\ t.month \in 1 .. 12 /\ t.day \in 1 .. DaysIn(t.year, t.month)
       /\ t.hour <= 23 /\ t.minute <= 59 /\ t.second <= 59
       /\ ZoneFits(t.zone)
    THEN Instant(t, 0)
    ELSE Bad

\* Both readers take a text for the same second; the query takes every text that a
\* claim file may have, but for leap seconds and separators, and takes nothing else
\* for a date that is none (parse_rfc3339_go, clock::parse_rfc3339).
SameReading(t) ==
    LET bound == ReadBound(t)  field == ReadField(t)
    IN  /\ bound # Bad => IsDate(t)
        /\ bound # Bad /\ field # Bad => <<bound[1], bound[2]>> = <<field[1], field[2]>>
        /\ field # Bad /\ t.form = "exact" /\ t.second # 60 => bound # Bad
        /\ bound # Bad /\ t.form = "exact" /\ t.zone.minute <= 59 => field # Bad

\* What the program wrote is read as the instant it was written for.
ReadsBack(i) ==
    Written(i).form = "exact" => ReadBound(Written(i)) = i /\ ReadField(Written(i)) = i
=============================================================================
