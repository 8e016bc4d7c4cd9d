------------------------------ MODULE Calendar ------------------------------
(***************************************************************************)
(* Dates and time zones (ulibtime.c), on a system whose time is counted in *)
(* seconds from 1970.  What the C library does is at the end of the first  *)
(* part: a local zone is an offset, another in summer, and the days of the *)
(* year between which that is used.                                        *)
(***************************************************************************)
EXTENDS Integers, Sequences, SequencesExt, FiniteSetsExt

Error == <<"error">>
Result(x) == <<"ok", x>>
Unsure == -1  \* tm_isdst, or null

M2d == <<0, 31, 59, 90, 120, 151, 181, 212, 243, 273, 304, 334, 365>>
Until(month) == M2d[month + 1]

IsLeapYear(y) == y % 400 = 0 \/ (y % 100 # 0 /\ y % 4 = 0)
DaysPerMonth(month, y) ==
  IF IsLeapYear(y) /\ month = 1 THEN 29 ELSE Until(month + 1) - Until(month)
One(condition) == IF condition THEN 1 ELSE 0
GetDayOfYear(mday, mon, y) == mday - 1 + Until(mon) + One(IsLeapYear(y) /\ mon > 1)

(* Mutant: the century years before 1900 are not taken out. *)
GetDayFromYearMonthLate(year, month) ==
  (year - 1970) * 365 + Until(month)
  + (IF year < 1968 THEN - ((1971 - year) \div 4) ELSE (year - 1968) \div 4)
  - (IF year < 1900 THEN 0 ELSE (year - 1900) \div 100)
  + (IF year < 1600 THEN - ((1999 - year) \div 400) ELSE (year - 1600) \div 400)
  - One(IsLeapYear(year) /\ month <= 1)

GetDayFromYearMonth(year, month) ==
  (year - 1970) * 365 + Until(month)
  + (IF year < 1968 THEN - ((1971 - year) \div 4) ELSE (year - 1968) \div 4)
  + (IF year < 1900 THEN (1999 - year) \div 100 ELSE - ((year - 1900) \div 100))
  + (IF year < 1600 THEN - ((1999 - year) \div 400) ELSE (year - 1600) \div 400)
  - One(IsLeapYear(year) /\ month <= 1)

GetWeekday(year, yday) == ((((GetDayFromYearMonth(year, 0) % 7) + 4) % 7) + yday) % 7

Seconds(day, tm) == 60 * (60 * (24 * day + tm.hour) + tm.min) + tm.sec

(* unc0_mkgmtime *)
MkGmTime(tm) ==
  LET year == tm.year + (IF tm.mon < 0 THEN - ((11 - tm.mon) \div 12) ELSE tm.mon \div 12)
  IN Seconds(GetDayFromYearMonth(year, tm.mon % 12) + tm.mday - 1, tm)

-----------------------------------------------------------------------------
(* The C library. *)

GmTime(t) ==
  LET day == t \div 86400
      rest == t % 86400
      Jan1(y) == GetDayFromYearMonth(y, 0)
      guess == 1970 + (day \div 366)
      year == Max({y \in guess..(guess + 1 + (day \div 10000)) : Jan1(y) <= day})
      mon == Max({m \in 0..11 : GetDayFromYearMonth(year, m) <= day})
  IN [year |-> year, mon |-> mon, mday |-> day - GetDayFromYearMonth(year, mon) + 1,
      hour |-> rest \div 3600, min |-> (rest \div 60) % 60, sec |-> rest % 60,
      yday |-> day - Jan1(year), wday |-> (day + 4) % 7, isdst |-> 0]

Summer(zone, t) ==
  zone.from # zone.until /\ GmTime(t + zone.std).yday \in zone.from..(zone.until - 1)
LocalTime(zone, t) ==
  [GmTime(t + IF Summer(zone, t) THEN zone.dst ELSE zone.std) EXCEPT !.isdst = One(Summer(zone, t))]
TimeGm(tm) == MkGmTime(tm)
MkTime(zone, tm) ==
  LET winter == TimeGm(tm) - zone.std
      summer == TimeGm(tm) - zone.dst
  IN IF tm.isdst = 1 \/ (tm.isdst = Unsure /\ Summer(zone, summer)) THEN summer ELSE winter

-----------------------------------------------------------------------------
(* Objects. *)

ToObj(tm, us) ==
  [second |-> tm.sec, minute |-> tm.min, hour |-> tm.hour, day |-> tm.mday,
   month |-> tm.mon + 1, year |-> tm.year, weekday |-> IF tm.wday = 0 THEN 7 ELSE tm.wday,
   yearday |-> tm.yday + 1, dst |-> tm.isdst, us |-> us]

(* The fields are checked one by one. *)
FromObj(o) ==
  IF /\ o.second \in 0..61 /\ o.minute \in 0..59 /\ o.hour \in 0..23
     /\ o.day \in 1..31 /\ o.month \in 1..12 /\ o.year >= 1582 /\ o.us \in 0..999999
  THEN Result([sec |-> o.second, min |-> o.minute, hour |-> o.hour, mday |-> o.day,
               mon |-> o.month - 1, year |-> o.year, isdst |-> o.dst, usec |-> o.us])
  ELSE Error

Possible(y, month, day, hour, minute, second) ==
  /\ y >= 1583 /\ month \in 1..12 /\ day \in 1..DaysPerMonth(month - 1, y)
  /\ hour \in 0..23 /\ minute \in 0..59 /\ second \in 0..60

Made(y, month, day, hour, minute, second, dst) ==
  LET yday == GetDayOfYear(day, month - 1, y)
  IN ToObj([year |-> y, mon |-> month - 1, mday |-> day, hour |-> hour, min |-> minute,
            sec |-> second, yday |-> yday, wday |-> GetWeekday(y, yday), isdst |-> dst], 0)

(* uncl_time_dt_new *)
New(y, month, day, hour, minute, second, dst) ==
  IF Possible(y, month, day, hour, minute, second)
  THEN Result(Made(y, month, day, hour, minute, second, dst)) ELSE Error

-----------------------------------------------------------------------------
(* Zones.  The offsets of the local one are found by looking at now and      *)
(* twelve times thirty days later.                                           *)

Month30 == 30 * 86400

TzLocalInfo(zone, now) ==
  LET Offset(t) == MkGmTime(LocalTime(zone, t)) - t
      isdst == LocalTime(zone, now).isdst
      other == {i \in 1..12 : LocalTime(zone, now + i * Month30).isdst # isdst}
      o == Offset(now)
      odst == IF other = {} THEN o ELSE Offset(now + Min(other) * Month30)
  IN IF isdst = 1 THEN [offset |-> odst, offsetdst |-> o] ELSE [offset |-> o, offsetdst |-> odst]

TzUtc == [type |-> "utc", offset |-> 0, offsetdst |-> 0]
TzLocal(zone, now) ==
  LET i == TzLocalInfo(zone, now)
  IN [type |-> "local", offset |-> i.offset, offsetdst |-> i.offsetdst]

(* What is asked of a local zone is found anew. *)
TzDst(zone, now, tz) ==
  IF tz.type = "utc" THEN FALSE
  ELSE LET i == TzLocalInfo(zone, now) IN i.offset # i.offsetdst
TzOffset(zone, now, tz) == IF tz.type = "utc" THEN 0 ELSE TzLocalInfo(zone, now).offset
TzOffsetDst(zone, now, tz) == IF tz.type = "utc" THEN 0 ELSE TzLocalInfo(zone, now).offsetdst

FromTime(zone, tz, t) == IF tz.type = "utc" THEN GmTime(t) ELSE LocalTime(zone, t)
(* A minute one second before 1970 looks like a failure. *)
ToTime(zone, tz, tm) ==
  LET t == IF tz.type = "utc" THEN TimeGm(tm) ELSE MkTime(zone, tm)
  IN IF t = -1 THEN Error ELSE Result(t)

(* uncl_time_dt_gmtime, ..._localtime, ..._fromtime, uncl_time_tz_now *)
DtFromTime(zone, tz, t, us) == ToObj(FromTime(zone, tz, t), us)
TzNow(zone, tz, now, us) == DtFromTime(zone, tz, now, us)

(* uncl_time_dt_mktime, uncl_time_dt_totime *)
DtToTime(zone, tz, o) ==
  LET tm == FromObj(o) IN IF tm = Error THEN Error ELSE ToTime(zone, tz, tm[2])
DtMkTime(zone, o) == DtToTime(zone, [type |-> "local"], o)

DtConvert(zone, from, to, o) ==
  LET t == DtToTime(zone, from, o)
  IN IF t = Error THEN Error ELSE Result(DtFromTime(zone, to, t[2], o.us))

-----------------------------------------------------------------------------
(* ISO 8601, as codes of characters. *)

Dash == 45
Colon == 58
Plus == 43
LetterT == 84
LetterZ == 90

RECURSIVE Decimal(_, _)
Decimal(n, width) ==
  IF n < 10 /\ width <= 1 THEN <<48 + n>> ELSE Decimal(n \div 10, width - 1) \o <<48 + (n % 10)>>

(* Behind a Z the text is not ended: garbage follows, up to a zero there     *)
(* happens to be.                                                            *)
Garbage == {<<>>, <<57, 86>>}

ToIso(zone, now, o, tz) ==
  LET TwoOf(n) == Decimal(n, 2)
      text == Decimal(o.year, 4) \o <<Dash>> \o TwoOf(o.month) \o <<Dash>> \o TwoOf(o.day)
              \o <<LetterT>> \o TwoOf(o.hour) \o <<Colon>> \o TwoOf(o.minute) \o <<Colon>>
              \o TwoOf(o.second)
      z == tz[1]
      offset == IF o.dst = 1 THEN TzOffsetDst(zone, now, z) ELSE TzOffset(zone, now, z)
      minutes == (IF offset < 0 THEN - offset ELSE offset) \div 60
      sign == IF offset < 0 THEN Dash ELSE Plus
  IN IF FromObj(o) = Error THEN {Error}
     ELSE IF tz = <<>> THEN {Result(text)}
     ELSE IF minutes = 0 THEN {Result(text \o <<LetterZ>> \o g) : g \in Garbage}
     ELSE {Result(text \o <<sign>> \o TwoOf(minutes \div 60) \o <<Colon>> \o TwoOf(minutes % 60))}

(* readidig: the number in d digits at p, or -1. *)
ReadIDig(s, p, d) ==
  IF \E k \in 1..d : p + k > Len(s) \/ s[p + k] \notin 48..57 THEN -1
  ELSE FoldLeft(LAMBDA n, x : n * 10 + (x - 48), 0, SubSeq(s, p + 1, p + d))

CodeAt(s, p) == IF p < Len(s) THEN s[p + 1] ELSE 0
Past(s, p, c) == IF CodeAt(s, p) = c THEN p + 1 ELSE p

(* The offset: what it is when there is none, or another letter, was never   *)
(* set.                                                                      *)
Unset == {<<>>, <<12345>>}
ReadOffset(s, p) ==
  LET sign == CodeAt(s, p)
      h == ReadIDig(s, p + 1, 2)
      q == Past(s, p + 3, Colon)
      m == ReadIDig(s, q, 2)
  IN IF p = Len(s) THEN Unset
     ELSE IF sign = LetterZ THEN {<<0>>}
     ELSE IF sign \notin {Plus, Dash} THEN {<<12345>>}
     ELSE IF h = -1 \/ m = -1 \/ h > 24 \/ m > 59 THEN {}
     ELSE {<<(IF sign = Dash THEN -60 ELSE 60) * (h * 60 + m)>>}

FromIso(s) ==
  LET pm == Past(s, 4, Dash)
      pd == Past(s, pm + 2, Dash)
      ph == pd + 3
      pn == Past(s, ph + 2, Colon)
      ps == Past(s, pn + 2, Colon)
      y == ReadIDig(s, 0, 4)
      mo == ReadIDig(s, pm, 2)
      d == ReadIDig(s, pd, 2)
      h == ReadIDig(s, ph, 2)
      mi == ReadIDig(s, pn, 2)
      sec == ReadIDig(s, ps, 2)
      offsets == ReadOffset(s, ps + 2)
  IN IF \/ -1 \in {y, mo, d, h, mi, sec} \/ CodeAt(s, pd + 2) # LetterT
        \/ ~ Possible(y, mo, d, h, mi, sec) \/ offsets = {}
     THEN {Error}
     ELSE {Result([date |-> Made(y, mo, d, h, mi, sec, Unsure), offset |-> x]) : x \in offsets}
=============================================================================
