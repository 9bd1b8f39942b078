------------------------------ MODULE Calendar ------------------------------
(***************************************************************************)
(* Civil time and the XUNI window (tm-submit/src/clocktime.rs) and the      *)
(* server clock the miner and the submitter share (treeminer/src/clock.rs). *)
(* Instants are counted in a unit of the model's choice where the code      *)
(* counts milliseconds; the length of an hour is a constant.                *)
(***************************************************************************)
EXTENDS Integers, Sequences

CONSTANTS PerHour,     \* MS_PER_HOUR
          OpenBefore,  \* XUNI_OPEN_BEFORE_HOUR_MS
          OpenAfter    \* XUNI_OPEN_AFTER_HOUR_MS

ASSUME CalendarAssumption ==
    /\ {PerHour, OpenBefore, OpenAfter} \subseteq Nat \ {0}
    /\ OpenBefore + OpenAfter < PerHour

\* i64 division and remainder truncate towards zero.
Quotient(a, b) == IF a >= 0 THEN a \div b ELSE -((-a) \div b)
Remainder(a, b) == a - b * Quotient(a, b)

\* floor_div, for a positive divisor.
FloorDiv(a, b) ==
    IF Remainder(a, b) # 0 /\ a < 0 THEN Quotient(a, b) - 1 ELSE Quotient(a, b)

\* An era is 400 years of 146097 days.  Its years begin in March: the day of
\* the era on which year yoe begins, and the year that day doe falls in.
EraOf(n, length) == Quotient(IF n >= 0 THEN n ELSE n - (length - 1), length)
YearStart(yoe) == yoe * 365 + (yoe \div 4) - (yoe \div 100)
YearOf(doe) == (doe - (doe \div 1460) + (doe \div 36524) - (doe \div 146096)) \div 365

\* The day of the year on which its month mp begins, March being month 0, and
\* the month that day doy falls in.
MonthStart(mp) == (153 * mp + 2) \div 5
MonthOf(doy) == (5 * doy + 2) \div 153

\* days_from_civil: days since 1970-01-01.
DaysFromCivil(date) ==
    LET y == IF date.m <= 2 THEN date.y - 1 ELSE date.y
        era == EraOf(y, 400)
        doy == MonthStart(date.m + (IF date.m > 2 THEN -3 ELSE 9)) + date.d - 1
    IN  era * 146097 + YearStart(y - era * 400) + doy - 719468

\* The date of day doy of a year of an era.
DateOf(era, yoe, doy) ==
    LET mp == MonthOf(doy)
        m == IF mp < 10 THEN mp + 3 ELSE mp - 9
    IN  [y |-> yoe + era * 400 + (IF m <= 2 THEN 1 ELSE 0), m |-> m,
         d |-> doy - MonthStart(mp) + 1]

\* civil_from_days
CivilFromDays(days) ==
    LET z == days + 719468
        era == EraOf(z, 146097)
        doe == z - era * 146097
    IN  DateOf(era, YearOf(doe), doe - YearStart(YearOf(doe)))

\* The Gregorian calendar: the day after a date.
IsLeap(y) == y % 4 = 0 /\ (y % 100 # 0 \/ y % 400 = 0)
MonthLength(y, m) ==
    CASE m \in {4, 6, 9, 11} -> 30
      [] m = 2 -> IF IsLeap(y) THEN 29 ELSE 28
      [] OTHER -> 31
DayAfter(date) ==
    IF date.d < MonthLength(date.y, date.m) THEN [date EXCEPT !.d = @ + 1]
    ELSE IF date.m < 12 THEN [date EXCEPT !.m = @ + 1, !.d = 1]
    ELSE [y |-> date.y + 1, m |-> 1, d |-> 1]

\* iso_utc, as its fields; instants in seconds.
IsoUtc(seconds) ==
    LET days == FloorDiv(seconds, 86400)
        rem == seconds - days * 86400
    IN  [date |-> CivilFromDays(days), h |-> rem \div 3600,
         mi |-> (rem % 3600) \div 60, s |-> rem % 60]

\* parse_http_date_ms on the fields of a header that has them all.
NoInstant == -1
ParseHttpDate(t) ==
    IF t.date.m = 0 \/ t.date.d \notin 1..31 \/ t.date.y < 1970
         \/ t.h > 23 \/ t.mi > 59 \/ t.s > 60
    THEN NoInstant
    ELSE DaysFromCivil(t.date) * 86400 + t.h * 3600 + t.mi * 60 + t.s

\* Mutant: the window closes at the full hour when it opened before it.
ClosesOnTheHour(now) ==
    LET into == now - FloorDiv(now, PerHour) * PerHour
    IN  CASE into >= PerHour - OpenBefore ->
               [open |-> TRUE, untilClose |-> PerHour - into]
          [] into < OpenAfter -> [open |-> TRUE, untilClose |-> OpenAfter - into]
          [] OTHER -> [open |-> FALSE, untilClose |-> 0]

\* xuni_window_at
XuniWindowAt(now) ==
    LET into == now - FloorDiv(now, PerHour) * PerHour
    IN  CASE into >= PerHour - OpenBefore ->
               [open |-> TRUE, untilClose |-> (PerHour - into) + OpenAfter]
          [] into < OpenAfter -> [open |-> TRUE, untilClose |-> OpenAfter - into]
          [] OTHER -> [open |-> FALSE, untilClose |-> 0]

\* now_server_ms: plain UTC until an offset is known.
NowServer(wall, known, offset) == IF known THEN wall + offset ELSE wall
=============================================================================
