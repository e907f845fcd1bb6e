------------------------------ MODULE DateTime ------------------------------
(***************************************************************************)
(* Dates and times (base/datetime.c).  A datetime_t counts microseconds    *)
(* from 0001-01-01 in 64 bits; here it is <<rdn, sec, usec>>, its days,    *)
(* the seconds of the day and the rest, what the code gets by dividing by  *)
(* TICKS_PER_DAY and TICKS_PER_SECOND.  A text is the record of its        *)
(* fields.  The operators are checked against a calendar that counts the   *)
(* days one by one; years go to 9999, so nothing overflows 16 or 32 bits.  *)
(***************************************************************************)
EXTENDS Integers, Sequences, FiniteSets

CONSTANTS
    Years,      \* the years the calendar goes through
    Seconds,    \* seconds of the day to try
    Usecs,      \* microseconds to try
    Offsets     \* offsets from UTC to try, in minutes

DateTimeAssumption ==
    /\ \A y \in Years : y \in Nat /\ 1 <= y /\ y <= 9999
    /\ \A sec \in Seconds : sec \in Nat /\ sec < 86400
    /\ \A usec \in Usecs : usec \in Nat /\ usec < 1000000
    /\ \A offset \in Offsets : offset \in Int /\ -1440 < offset /\ offset < 1440

EPOCH_DATE_TIME == <<719162, 0, 0>>

days_preceding_month ==
    [leap |-> <<0, 31, 60, 91, 121, 152, 182, 213, 244, 274, 305, 335>>,
     plain |-> <<0, 31, 59, 90, 120, 151, 181, 212, 243, 273, 304, 334>>]

DayOffset == <<306, 337, 0, 31, 61, 92, 122, 153, 184, 214, 245, 275>>

leap_year(y) == y % 4 = 0 /\ (y % 100 # 0 \/ y % 400 = 0)

month_days(y, m) ==
    IF m = 2 /\ leap_year(y) THEN 29
    ELSE <<31, 28, 31, 30, 31, 30, 31, 31, 30, 31, 30, 31>>[m]

\* rdn++ and the 306 days from March to the end of the year.
FromMarch(rdn) == rdn + 1 + 306

\* Peter Baum's algorithm: years begin in March, 100 years are 36525 days but
\* for the centuries A - B.
rdn_to_ymd(rdn) ==
    LET Z == FromMarch(rdn)
        H == 100 * Z - 25
        A == H \div 3652425
        B == A - A \div 4
        y == (100 * B + H) \div 36525
        d == B + Z - (1461 * y) \div 4
        m == (535 * d + 48950) \div 16384
    IN  IF m > 12
        THEN [year |-> y + 1, month |-> m - 12, day |-> d - DayOffset[m - 12],
              yday |-> d - 306]
        ELSE [year |-> y, month |-> m, day |-> d - DayOffset[m],
              yday |-> d + 59 + (IF leap_year(y) THEN 1 ELSE 0)]

yd_to_rdn(year, d) ==
    LET y == year - 1
    IN  365 * y + y \div 4 - y \div 100 + y \div 400 + d

\* Mutant: month 12 k is taken for the first month of a year.
CarryEarly(y, m) == [year |-> y + m \div 12, month |-> (m % 12) + 1]

\* Months beyond December carry over; month 12 k is December of year k - 1.
Carry(y, m) ==
    IF m \in 1 .. 12 THEN [year |-> y, month |-> m]
    ELSE IF m % 12 < 1 THEN [year |-> y + m \div 12 - 1, month |-> 12]
    ELSE [year |-> y + m \div 12, month |-> m % 12]

ymd_to_rdn(y, m, d) ==
    LET c == Carry(y, m)
        before == days_preceding_month[IF leap_year(c.year) THEN "leap" ELSE "plain"]
    IN  yd_to_rdn(c.year, before[c.month] + d - 1)

\* Days and seconds, the seconds possibly outside of the day.
Instant(rdn, sec, usec) == <<rdn + sec \div 86400, sec % 86400, usec>>

datetime_from_ymd(y, m, d) == <<ymd_to_rdn(y, m, d), 0, 0>>

\* The sum of datetime_from_ymd and datetime_from_hmsu.
datetime_from(y, m, d, hour, minute, second, usec) ==
    Instant(ymd_to_rdn(y, m, d), hour * 3600 + minute * 60 + second, usec)

Hour(sod) == sod \div 3600
Minute(sod) == (sod \div 60) % 60
Second(sod) == sod % 60

datetime_decode(t) ==
    LET ymd == rdn_to_ymd(t[1])
    IN  [year |-> ymd.year, month |-> ymd.month, day |-> ymd.day,
         hour |-> Hour(t[2]), min |-> Minute(t[2]), sec |-> Second(t[2]), usec |-> t[3]]

\* datetime_from_timeval, and datetime_now after gettimeofday.
datetime_from_timeval(tv_sec, tv_usec) ==
    Instant(EPOCH_DATE_TIME[1], tv_sec, tv_usec)

Pow10(n) == <<1, 10, 100, 1000, 10000, 100000, 1000000, 10000000, 100000000,
              1000000000>>[n + 1]

\* The checks of datetime_from_iso8601 on a text whose separators are in place;
\* a fraction has digits digits, 0 if it is absent, and Z is the zone +00:00.
WellFormed(s) ==
    /\ s.year >= 1 /\ s.month \in 1 .. 12 /\ s.day \in 1 .. 31
    /\ s.hour <= 23 /\ s.min <= 59 /\ s.sec <= 59
    /\ s.day <= 28 \/ s.day <= month_days(s.year, s.month)
    /\ s.digits <= 9
    /\ s.zone.hour <= 23 /\ s.zone.min <= 59

\* The answer of datetime_from_iso8601 for a well-formed text: local time minus
\* the offset.  (Before 0001-01-01 the 64 bits wrap round.)
datetime_from_iso8601(s) ==
    LET nsec == s.frac * Pow10(9 - s.digits)
        offset == s.zone.sign * (s.zone.hour * 60 + s.zone.min)
        t == datetime_from(s.year, s.month, s.day, s.hour, s.min, s.sec, nsec \div 1000)
    IN  Instant(t[1], t[2] - 60 * offset, t[3])

\* Mutant: the fraction is what the type says.
MicrosecondPrecision(usec) ==
    IF usec = 0 THEN 0 ELSE IF usec % 1000 = 0 THEN 3 ELSE 6

\* datetime_format takes the microseconds for nanoseconds.
Precision(usec) ==
    IF usec = 0 THEN 0
    ELSE IF usec % 1000000 = 0 THEN 3
    ELSE IF usec % 1000 = 0 THEN 6
    ELSE 9

\* timestamp_format_internal: the fields are those of t, whatever the offset.
datetime_format(t, offset) ==
    LET f == datetime_decode(t)
        precision == Precision(t[3])
        v == IF offset < 0 THEN -offset ELSE offset
    IN  [year |-> f.year, month |-> f.month, day |-> f.day,
         hour |-> f.hour, min |-> f.min, sec |-> f.sec,
         digits |-> precision,
         frac |-> IF precision = 0 THEN 0 ELSE t[3] \div Pow10(9 - precision),
         zone |-> [sign |-> IF offset < 0 THEN -1 ELSE 1,
                   hour |-> v \div 60, min |-> v % 60]]

Fraction(precision) == IF precision = 0 THEN 0 ELSE 1 + precision

\* What datetime_format returns, computed for a text that ends in Z, ...
FormattedLength(t) == 20 + Fraction(Precision(t[3]))

\* ... and the characters it writes.
WrittenLength(t, offset) ==
    19 + Fraction(datetime_format(t, offset).digits) + (IF offset = 0 THEN 1 ELSE 6)

\* datetime_to_tm; it returns 1 for times before the epoch.
BeforeEpoch(t) == t[1] < EPOCH_DATE_TIME[1]

datetime_to_tm(t) ==
    LET ymd == rdn_to_ymd(t[1])
    IN  [tm_mday |-> ymd.day, tm_yday |-> ymd.yday - 1, tm_mon |-> ymd.month - 1,
         tm_year |-> ymd.year - 1900, tm_wday |-> t[1] % 7,
         tm_sec |-> Second(t[2]), tm_min |-> Minute(t[2]), tm_hour |-> Hour(t[2])]

-----------------------------------------------------------------------------
(* The calendar, day by day: today, its number, its day of the year and of  *)
(* the week.                                                                *)

VARIABLES year, month, day, rdn, yday, wday

today == <<year, month, day, rdn, yday, wday>>

\* Every fourth year, but of the centuries only every fourth.
IsLeap(y) == IF \E c \in 0 .. 99 : y = 100 * c THEN y % 400 = 0 ELSE y % 4 = 0

\* The number of days before year y.
DaysBefore(y) == 365 * (y - 1) + Cardinality({x \in 1 .. y - 1 : IsLeap(x)})

Thirty == {4, 6, 9, 11}

LastOfMonth ==
    IF month = 2 THEN (IF IsLeap(year) THEN 29 ELSE 28)
    ELSE IF month \in Thirty THEN 30 ELSE 31

\* The first day of the first year was a Monday.
FirstDay ==
    /\ year \in Years /\ month = 1 /\ day = 1 /\ yday = 1
    /\ rdn = DaysBefore(year)
    /\ wday = (1 + rdn) % 7

NextDay ==
    /\ rdn' = rdn + 1
    /\ wday' = (wday + 1) % 7
    /\ IF day < LastOfMonth
       THEN day' = day + 1 /\ yday' = yday + 1 /\ UNCHANGED <<year, month>>
       ELSE IF month < 12
       THEN month' = month + 1 /\ day' = 1 /\ yday' = yday + 1 /\ UNCHANGED year
       ELSE year' = year + 1 /\ year' \in Years /\ month' = 1 /\ day' = 1 /\ yday' = 1

DayByDay == FirstDay /\ [][NextDay]_today
-----------------------------------------------------------------------------
(* Properties. *)

\* A day number gives the date that counting gives, at the ends of months,
\* years, centuries and of the 400 years.
DecodesDays ==
    rdn_to_ymd(rdn) = [year |-> year, month |-> month, day |-> day, yday |-> yday]

\* A date gives the number that counting gives, also if its month is given as
\* one of an earlier year.
EncodesDays ==
    \A k \in 0 .. 2 : k < year => ymd_to_rdn(year - k, month + 12 * k, day) = rdn

\* datetime_to_tm agrees with the calendar from the epoch on, but for tm_wday,
\* which counts from Monday, and refuses every earlier time.
BreaksDown ==
    \A sec \in Seconds :
        LET t == <<rdn, sec, 0>>
            tm == datetime_to_tm(t)
        IN  /\ BeforeEpoch(t) <=> year < 1970
            /\ <<tm.tm_year, tm.tm_mon, tm.tm_mday, tm.tm_yday>> =
               <<year - 1900, month - 1, day, yday - 1>>
            /\ tm.tm_wday = (wday + 6) % 7
            /\ tm.tm_hour * 3600 + tm.tm_min * 60 + tm.tm_sec = sec
            /\ tm.tm_hour < 24 /\ tm.tm_min < 60 /\ tm.tm_sec < 60
            /\ (datetime_from_timeval(0, 0) = t)
                  <=> (<<year, month, day, sec>> = <<1970, 1, 1, 0>>)

\* A date is parsed if and only if the calendar has it.
ParsesRealDates ==
    LET s(d) == [year |-> year, month |-> month, day |-> d, hour |-> 0, min |-> 0,
                 sec |-> 0, digits |-> 0, frac |-> 0,
                 zone |-> [sign |-> 1, hour |-> 0, min |-> 0]]
    IN  /\ WellFormed(s(day)) /\ datetime_from_iso8601(s(day)) = <<rdn, 0, 0>>
        /\ day = LastOfMonth => ~WellFormed(s(day + 1))

\* What becomes of a time that is formatted and parsed again: the fraction is
\* written with the digits of nanoseconds, so that it shrinks a thousandfold,
\* and the fields of UTC are given an offset, so that the time moves by it.
RoundTrip ==
    \A sec \in Seconds, usec \in Usecs, offset \in Offsets :
        LET text == datetime_format(<<rdn, sec, usec>>, offset)
        IN  /\ WellFormed(text)
            /\ datetime_from_iso8601(text) =
                 Instant(rdn, sec - 60 * offset, usec \div 1000)

\* The length that is returned, and compared with the buffer, is the length
\* that is written, for UTC; with an offset it is five short.
LengthIsRight ==
    \A usec \in Usecs, offset \in Offsets :
        WrittenLength(<<rdn, 0, usec>>, offset) =
            FormattedLength(<<rdn, 0, usec>>) + (IF offset = 0 THEN 0 ELSE 5)

\* Day numbers, dates, broken down times and parsed dates agree with a calendar
\* that counts days one by one.
CalendarIsRight == DecodesDays /\ EncodesDays /\ BreaksDown /\ ParsesRealDates

\* Texts are as long as announced and give back what can be given back.
TextComesBack == RoundTrip /\ LengthIsRight
=============================================================================
