------------------------------ MODULE EpgEvents ------------------------------
(***************************************************************************)
(* Programme events, as the broadcast EPG (eit.go) and the XMLTV guide     *)
(* (xmltv.go) keep them, and the DVB times they come in.                   *)
(*                                                                         *)
(* The events of a service are a set: the code keeps a slice, sorted by    *)
(* start and without repetitions.  Time is counted in slots of no          *)
(* particular length.                                                      *)
(***************************************************************************)
EXTENDS Integers, FiniteSets

CONSTANT None   \* the nil event

Until(e) == e.start + e.dur

OnAt(e, t) == e.start <= t /\ t < Until(e)

(* epgNowNext and xmltvNowNext: the event running at t, of several the     *)
(* last in the slice, and the first of those that begin after t.           *)
Current(on) == IF on = {} THEN None ELSE CHOOSE e \in on : \A f \in on : f.start <= e.start

Upcoming(after) == IF after = {} THEN None ELSE CHOOSE e \in after : \A f \in after : e.start <= f.start

NowNext(events, t) == [now  |-> Current({e \in events : OnAt(e, t)}),
                       next |-> Upcoming({e \in events : e.start > t})]

Nothing == [now |-> None, next |-> None]

(* mergeEvents: an event already there, by title and start, is kept as it  *)
(* is, even if the new one has another duration.                           *)
MergeEvents(existing, add) ==
    existing \cup
    {e \in add : ~ \E f \in existing : f.title = e.title /\ f.start = e.start}

(* Both ends of the cache leave out what ended more than an hour ago.      *)
Prune(events, t, hour) == {e \in events : Until(e) > t - hour}

-----------------------------------------------------------------------------
(* dvbTime: the date of a Modified Julian Day, by the formula of EN 300    *)
(* 468 with its fractions cleared (floating point rounds none of them      *)
(* across an integer in the range used).                                   *)
DvbDate(mjd) ==
    LET yy == (20 * mjd - 301564) \div 7305
        ys == (yy * 1461) \div 4
        mm == (10000 * (mjd - ys) - 149561000) \div 306001
        dd == mjd - 14956 - ys - (mm * 306001) \div 10000
        k  == IF mm \in {14, 15} THEN 1 ELSE 0
    IN [year |-> 1900 + yy + k, month |-> mm - 1 - 12 * k, day |-> dd]

(* bcd: one byte, given as its two digits.                                 *)
Bcd(b) == (b \div 16) * 10 + (b % 16)

(* bcdDuration, in seconds.                                                *)
BcdDuration(b) == Bcd(b[1]) * 3600 + Bcd(b[2]) * 60 + Bcd(b[3])

(* The reference: days from 1858-11-17 to the first of a month, counted    *)
(* from the Gregorian calendar's rule of leap years.                       *)
Leap(y) == y % 4 = 0 /\ (y % 100 # 0 \/ y % 400 = 0)

DaysBefore(y) == 365 * y + (y + 3) \div 4 - (y + 99) \div 100 + (y + 399) \div 400

DaysInMonth(y, m) == CASE m = 2 -> IF Leap(y) THEN 29 ELSE 28
                       [] m \in {4, 6, 9, 11} -> 30
                       [] OTHER -> 31

Day(d) ==
    LET lengths[m \in 0..11] == IF m = 0 THEN 0 ELSE lengths[m - 1] + DaysInMonth(d.year, m)
    IN DaysBefore(d.year) + lengths[d.month - 1] + d.day

Epoch == [year |-> 1858, month |-> 11, day |-> 17]

IsDate(d) == d.month \in 1..12 /\ d.day \in 1..DaysInMonth(d.year, d.month)
=============================================================================
