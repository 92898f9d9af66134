----------------------------- MODULE TimeStamp -----------------------------
(***************************************************************************)
(* Time stamps: the packed 64-bit form the records keep (strftime.c), and  *)
(* how `tpbcli task` shows one in the local zone and reads one from a      *)
(* datetime filter (tpbcli-task-time.c).                                   *)
(*                                                                         *)
(* An instant is <<days, seconds of the day>> since 1970-01-01 UTC and the *)
(* packed bits are <<bits 17.., bits 0-16>>, for TLC's integers are 32 bits*)
(* wide. A conversion that can be refused answers with a set: {} when it   *)
(* is. libc is external: a zone is an offset in seconds and another that   *)
(* holds from one instant to another.                                      *)
(***************************************************************************)
EXTENDS Integers, Sequences, FiniteSets

Civil(y, mo, d, h, mi, s) ==
  [year |-> y, month |-> mo, day |-> d, hour |-> h, min |-> mi, sec |-> s]

Day == 86400

Earlier(a, b) == a[1] < b[1] \/ (a[1] = b[1] /\ a[2] < b[2])

(* The instant s seconds after e; s may be negative. *)
Plus(e, s) == <<e[1] + (e[2] + s) \div Day, (e[2] + s) % Day>>

(* Integer division of C, which drops the fraction. *)
TruncDiv(a, b) == IF a >= 0 THEN a \div b ELSE -((-a) \div b)

-----------------------------------------------------------------------------
(* libc: gmtime, localtime and mktime, by counting the days of the years.  *)

LeapYears == {y \in 1969..2227 : y % 4 = 0} \ {2100, 2200}

MonthDays(y) ==
  <<31, IF y \in LeapYears THEN 29 ELSE 28, 31, 30, 31, 30, 31, 31, 30, 31, 30, 31>>

YearStart(y) == 365 * (y - 1970) + Cardinality({l \in LeapYears : l < y})

MonthStart(y) ==
  LET start[m \in 1..13] ==
        IF m = 1 THEN YearStart(y) ELSE start[m - 1] + MonthDays(y)[m - 1]
  IN  start

Gmtime(e) ==
  LET y == CHOOSE n \in (1970 + e[1] \div 366)..(1970 + e[1] \div 365) :
             YearStart(n) <= e[1] /\ e[1] < YearStart(n + 1)
      start == MonthStart(y)
      m == CHOOSE n \in 1..12 : start[n] <= e[1] /\ e[1] < start[n + 1]
  IN  Civil(y, m, e[1] - start[m] + 1, e[2] \div 3600, (e[2] % 3600) \div 60, e[2] % 60)

Offset(zone, e) ==
  IF ~Earlier(e, zone.from) /\ Earlier(e, zone.to) THEN zone.dst ELSE zone.std

Localtime(e, zone) == Gmtime(Plus(e, Offset(zone, e)))

(* The instants mktime may give for a wall clock: one that shows it; for a *)
(* wall clock that the zone skips, one of the two readings.                *)
Readings(wall, zone) ==
  LET asUtc == <<MonthStart(wall.year)[wall.month] + wall.day - 1,
                 3600 * wall.hour + 60 * wall.min + wall.sec>>
      readings == {Plus(asUtc, -zone.std), Plus(asUtc, -zone.dst)}
      shown == {e \in readings : Localtime(e, zone) = wall}
  IN  IF shown # {} THEN shown ELSE readings

(* mktime also rewrites the wall clock it is given as the instant shows it. *)
Mktime(wall, zone) ==
  {[at |-> e, wall |-> Localtime(e, zone)] : e \in Readings(wall, zone)}

-----------------------------------------------------------------------------
(* strftime.c *)

GetDatetime(local, now, zone) == IF local THEN Localtime(now, zone) ELSE Gmtime(now)

(* Six fields side by side under an 8-bit zone in quarters of an hour. *)
DatetimeToBits(dt, bias) ==
  LET inc == TruncDiv(bias, 15)
      tz  == IF inc < -128 THEN -128 ELSE IF inc > 127 THEN 127 ELSE inc
  IN  IF dt.year \notin 1970..2225 THEN {}
      ELSE {<<131072 * (tz % 256) + 512 * ((dt.year - 1970) % 256)
                + 32 * (dt.month % 16) + (dt.day % 32),
              4096 * (dt.hour % 32) + 64 * (dt.min % 64) + (dt.sec % 64)>>}

BitsToDatetime(b) ==
  Civil(1970 + ((b[1] \div 512) % 256), (b[1] \div 32) % 16, b[1] % 32,
        (b[2] \div 4096) % 32, (b[2] \div 64) % 64, b[2] % 64)

BitsToBias(b) ==
  LET inc == (b[1] \div 131072) % 256
  IN  15 * (IF inc <= 127 THEN inc ELSE inc - 256)

(* A text: the civil time it shows, and what follows it. *)
Text(dt, suffix, bias) == [civil |-> dt, suffix |-> suffix, bias |-> bias]

BitsToIsoutc(b) == Text(BitsToDatetime(b), "Z", 0)
BitsToIsotz(b, bias) == Text(BitsToDatetime(b), "offset", bias)

(* The scan takes six numbers and ignores what follows them. *)
IsoutcToBits(text) == DatetimeToBits(text.civil, 0)

IsotzToBits(text) ==
  IF text.suffix # "offset" THEN {} ELSE DatetimeToBits(text.civil, text.bias)

Smaller(a, b) == IF a < b THEN a ELSE b

(* Time since boot on a calendar of 8760-hour years and 730-hour months.   *)
(* The boot time is <<days, seconds>> like an instant.                     *)
BtimeToDatetime(bt) ==
  LET hours  == 24 * bt[1] + bt[2] \div 3600
      years  == Smaller(hours \div 8760, 255)
      inYear == hours - 8760 * years
      months == Smaller(inYear \div 730, 11)
      inMon  == inYear - 730 * months
      days   == Smaller(inMon \div 24, 30)
  IN  Civil(1970 + years, 1 + months, 1 + days, (inMon - 24 * days) % 256,
            (bt[2] % 3600) \div 60, bt[2] % 60)

-----------------------------------------------------------------------------
(* tpbcli-task-time.c *)

DaysInMonth(y, m) ==
  LET leap == (y % 4 = 0 /\ y % 100 # 0) \/ y % 400 = 0
  IN  IF m = 2 /\ leap THEN 29
      ELSE <<31, 28, 31, 30, 31, 30, 31, 31, 30, 31, 30, 31>>[m]

ValidateCivil(dt) ==
  /\ dt.year \in 1970..2225 /\ dt.month \in 1..12
  /\ dt.hour \in 0..23 /\ dt.min \in 0..59 /\ dt.sec \in 0..59
  /\ dt.day \in 1..DaysInMonth(dt.year, dt.month)

(* The days of the years that begin in March, by eras of 400 years. *)
CivilToEpochUtc(dt) ==
  LET y   == IF dt.month <= 2 THEN dt.year - 1 ELSE dt.year
      m   == IF dt.month <= 2 THEN dt.month + 9 ELSE dt.month - 3
      era == y \div 400
      yoe == y - era * 400
      doy == (153 * m + 2) \div 5 + dt.day - 1
      doe == yoe * 365 + yoe \div 4 - yoe \div 100 + doy
  IN  IF ~ValidateCivil(dt) THEN {}
      ELSE {<<era * 146097 + doe - 719468,
              3600 * dt.hour + 60 * dt.min + dt.sec>>}

(* The offset in minutes, when both times are in the range of years. *)
LocalOffsetMinutes(e, zone) ==
  {TruncDiv(Day * (l[1] - g[1]) + l[2] - g[2], 60) :
     l \in CivilToEpochUtc(Localtime(e, zone)), g \in CivilToEpochUtc(Gmtime(e))}

(* Up to 18:59. *)
ParseOffsetSuffix(bias) == IF bias \in -1139..1139 THEN {bias} ELSE {}

FormatLocal(b, zone) ==
  {Text(Localtime(f[1], zone), "offset", f[2]) :
     f \in UNION {{<<e, off>> : off \in LocalOffsetMinutes(e, zone)} :
                    e \in CivilToEpochUtc(BitsToIsoutc(b).civil)}}

FormatUtc(b) == BitsToIsoutc(b)

(* The civil time of a text, with a zone of its own, as an instant. *)
ZonedInstant(text) ==
  {Plus(e, -60 * bias) : e \in CivilToEpochUtc(text.civil),
     bias \in IF text.suffix = "Z" THEN {0} ELSE ParseOffsetSuffix(text.bias)}

(* A bare time is local: the instant of mktime, when localtime shows the   *)
(* wall clock that mktime has left behind.                                 *)
LocalInstant(text, zone) ==
  {r.at : r \in {q \in Mktime(text.civil, zone) : Localtime(q.at, zone) = q.wall}}

(* Mutant of ParseFilter: the offset is applied with the wrong sign. *)
ParseFilterAddsOffset(text, zone) ==
  IF ~ValidateCivil(text.civil) THEN {}
  ELSE UNION {DatetimeToBits(Gmtime(e), 0) :
                e \in IF text.suffix = "bare" THEN LocalInstant(text, zone)
                      ELSE ZonedInstant([text EXCEPT !.bias = -@])}

(* The bits a datetime filter may stand for. *)
ParseFilter(text, zone) ==
  IF ~ValidateCivil(text.civil) THEN {}
  ELSE UNION {{b \in DatetimeToBits(Gmtime(e), 0) :
                 CivilToEpochUtc(Gmtime(e)) = {e}} :
                e \in IF text.suffix = "bare" THEN LocalInstant(text, zone)
                      ELSE ZonedInstant(text)}

(* The stamp of a record made at instant e (_sf_get_timestamps). *)
Stamp(e) == DatetimeToBits(GetDatetime(FALSE, e, [std |-> 0]), 0)

-----------------------------------------------------------------------------
(* What the conversions promise, for instants and zones. *)

InRange(dt) == dt.year \in 1970..2225

(* The stamp of e unpacks to the UTC civil time of e, stamps are ordered   *)
(* as the instants are, and the day count is the one of the calendar.      *)
StampsOrdered(instants) ==
  \A e \in instants :
    /\ \A b \in Stamp(e) : /\ BitsToDatetime(b) = Gmtime(e) /\ BitsToBias(b) = 0
                           /\ CivilToEpochUtc(BitsToDatetime(b)) = {e}
                           /\ IsoutcToBits(BitsToIsoutc(b)) = {b}
    /\ \A f \in instants : \A b \in Stamp(e), c \in Stamp(f) :
         Earlier(b, c) <=> Earlier(e, f)

(* The time `task ls` shows in one zone, given back as a filter in any     *)
(* zone, stands for the same stamp; it is not shown only when the local    *)
(* year is out of range.                                                   *)
ShownReadsBack(instants, zones) ==
  \A e \in instants : \A b \in Stamp(e) : \A z \in zones :
    /\ FormatLocal(b, z) = {} <=> ~InRange(Localtime(e, z))
    /\ \A text \in FormatLocal(b, z), y \in zones : ParseFilter(text, y) = {b}
    /\ ParseFilter(FormatUtc(b), z) = {b}

(* A bare local time stands for an instant at which clocks of the zone     *)
(* show it, unless the zone skips it.                                      *)
BareReadsBack(instants, zones) ==
  \A e \in instants : \A z \in zones :
    LET wall == Gmtime(e)
        found == ParseFilter(Text(wall, "bare", 0), z)
        shows(i) == Localtime(i, z) = wall
    IN  (\E i \in Readings(wall, z) : shows(i)) /\ ValidateCivil(wall) =>
          found = UNION {Stamp(i) : i \in {j \in Readings(wall, z) : shows(j)}}

(* The comment at the round trip of tpbcli-task-time.c, "Reject            *)
(* nonexistent DST wall clocks": false of the code, see LocalInstant.      *)
SkippedIsRefused(instants, zones) ==
  \A e \in instants : \A z \in zones :
    (\A i \in Readings(Gmtime(e), z) : Localtime(i, z) # Gmtime(e)) =>
      ParseFilter(Text(Gmtime(e), "bare", 0), z) = {}

(* A text with an offset keeps its civil time and, to a quarter of an      *)
(* hour, its zone; and time since boot never goes back.                    *)
OffsetsReadBack(instants, biases) ==
  \A e \in instants : \A b \in Stamp(e) :
    /\ \A bias \in biases : \A c \in IsotzToBits(BitsToIsotz(b, bias)) :
         /\ BitsToDatetime(c) = BitsToDatetime(b)
         /\ BitsToBias(c) = 15 * TruncDiv(bias, 15)
    /\ \A f \in {g \in instants : ~Earlier(g, e) /\ e[1] >= 0} :
         \A c \in DatetimeToBits(BtimeToDatetime(e), 0),
            d \in DatetimeToBits(BtimeToDatetime(f), 0) : ~Earlier(d, c)
=============================================================================
