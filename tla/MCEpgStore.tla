---------------------------- MODULE MCEpgStore -------------------------------
(* Instance of EpgStore: a film that runs into the slot of the programme   *)
(* after it, or does not, and a guide that was written before that; and    *)
(* the conversions of EpgEvents against their definitions.                 *)
EXTENDS EpgStore

E(start, dur, title) == [start |-> start, dur |-> dur, title |-> title]

OneMux == {"yle"}

AsPlanned == {E(0, 2, "film"), E(2, 1, "news"), E(3, 1, "late")}
Overrun   == {E(0, 3, "film"), E(3, 1, "late")}

OneMuxPlans == {[s \in OneMux |-> AsPlanned], [s \in OneMux |-> Overrun]}

NeverPlanned == {E(1, 2, "news")}

TwoGuides == << [s \in OneMux |-> AsPlanned], [s \in OneMux |-> {E(0, 3, "film"), E(4, 1, "night")}] >>

(* dvbTime gives the date whose day number is the MJD, from March 1900,    *)
(* where the formula begins to hold, to February 2100.                     *)
ASSUME DvbDateIsItsDay ==
    \A mjd \in 15079..88127 :
        LET d == DvbDate(mjd) IN IsDate(d) /\ Day(d) - Day(Epoch) = mjd

(* Two BCD digits give every minute and hour once.                         *)
ASSUME BcdCounts == \A t \in 0..9, u \in 0..9 : Bcd(16 * t + u) = 10 * t + u
=============================================================================
