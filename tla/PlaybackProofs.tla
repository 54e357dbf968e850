--------------------------- MODULE PlaybackProofs ---------------------------
(***************************************************************************)
(* Theorems about Playback: its types, the single automatic retry, the     *)
(* agreement of the UI with mpv's last load, and the status line; and      *)
(* about Subtitles on top of it: what is shown follows the preference.     *)
(* For every set of channels, every list of tracks and every bound.        *)
(***************************************************************************)
EXTENDS Subtitles, NaturalsInduction, WellFoundedInduction, TLAPS

(* The file mpv runs has been loaded.                                      *)
FileKnown == phase # "none" => file >= 1

(* The automatic load is only counted on the attempt that was a retry.     *)
AutosAreRetries == autos <= 1 /\ (autos = 1 => retried)

(* The "loaded" event that will clear the status.                          *)
LoadedQueued == \E i \in 1..Len(events) : events[i].type = "loaded"

(* While the current channel plays under a status that says it does not    *)
(* yet, the event that clears the status is in the queue.                  *)
StatusWillSettle ==
    /\ status = "failed" => current = None
    /\ file = last /\ phase = "playing" /\ current # None
       /\ status \in {"tuning", "retrying"} => LoadedQueued

IInv == TypeOK /\ FileKnown /\ AutosAreRetries /\ CurrentIsLoaded /\ StatusWillSettle

-----------------------------------------------------------------------------
(* Taking the head off mpv's queue leaves a shorter queue of events, and   *)
(* loses no "loaded" event but the head.                                   *)
LEMMA ReceiveFacts ==
    ASSUME events \in Seq(Event), NEW type, Receive(type), Len(events) <= MaxEvents,
           MaxEvents \in Nat
    PROVE  /\ events' \in Seq(Event)
           /\ Len(events') <= MaxEvents
           /\ Head(events) \in Event /\ Head(events).type = type
           /\ type # "loaded" /\ LoadedQueued => LoadedQueued'
  <1>1. /\ events # <<>> /\ Head(events).type = type /\ events' = Tail(events)
    BY DEF Receive
  <1>2. /\ events' \in Seq(Event) /\ Len(events') = Len(events) - 1
        /\ Head(events) = events[1] /\ Len(events) \in Nat /\ Len(events) >= 1
        /\ \A i \in 1..Len(events') : events'[i] = events[i + 1]
    BY <1>1
  <1>3. Head(events) \in Event
    BY <1>1
  <1>4. ASSUME type # "loaded", LoadedQueued PROVE LoadedQueued'
    <2>1. PICK i \in 1..Len(events) : events[i].type = "loaded"
      BY <1>4 DEF LoadedQueued
    <2>2. i # 1
      BY <2>1, <1>1, <1>2, <1>4
    <2>3. i - 1 \in 1..Len(events') /\ events'[i - 1] = events[i]
      BY <2>2, <1>2
    <2> QED BY <2>1, <2>3 DEF LoadedQueued
  <1> QED BY <1>1, <1>2, <1>3, <1>4

(* An event mpv reports is queued last; the others stay.                   *)
LEMMA EmitFacts ==
    ASSUME events \in Seq(Event), NEW type \in {"loaded", "stop", "eof", "error", "log"},
           Emit(type), file \in 1..MaxLoads, MaxEvents \in Nat
    PROVE  /\ events' \in Seq(Event)
           /\ Len(events') <= MaxEvents
           /\ LoadedQueued => LoadedQueued'
           /\ type = "loaded" => LoadedQueued'
  <1> DEFINE e == [type |-> type, of |-> file]
  <1>1. e \in Event /\ e.type = type
    BY DEF Event
  <1>2. Len(events) < MaxEvents /\ events' = Append(events, e)
    BY DEF Emit
  <1> HIDE DEF e
  <1>3. /\ events' \in Seq(Event) /\ Len(events') = Len(events) + 1
        /\ Len(events) \in Nat
        /\ events'[Len(events) + 1] = e
        /\ \A i \in 1..Len(events) : events'[i] = events[i]
    BY <1>1, <1>2
  <1>4. Len(events') <= MaxEvents
    BY <1>2, <1>3
  <1>5. ASSUME LoadedQueued PROVE LoadedQueued'
    <2>1. PICK i \in 1..Len(events) : events[i].type = "loaded"
      BY <1>5 DEF LoadedQueued
    <2>2. i \in 1..Len(events') /\ events'[i] = events[i]
      BY <1>3
    <2> QED BY <2>1, <2>2 DEF LoadedQueued
  <1>6. ASSUME type = "loaded" PROVE LoadedQueued'
    <2>1. Len(events) + 1 \in 1..Len(events')
      BY <1>3
    <2> QED BY <2>1, <1>1, <1>3, <1>6 DEF LoadedQueued
  <1> QED BY <1>3, <1>4, <1>5, <1>6

-----------------------------------------------------------------------------
(* The program starts in a state that satisfies the invariant.             *)
LEMMA InitInv == Init => IInv
  <1> SUFFICES ASSUME Init PROVE IInv
    OBVIOUS
  <1>1. events \in Seq(Event) /\ Len(events) = 0
    <2>1. events = <<>>
      BY DEF Init
    <2> QED BY <2>1
  <1>2. TypeOK
    <2>1. /\ MaxLoads \in Nat /\ MaxLoads # 0
          /\ MaxEvents \in Nat /\ MaxRefreshes \in Nat
      BY PlaybackAssumption
    <2>2. 1 \in 1..MaxLoads /\ 0 \in 0..MaxLoads /\ 0 \in 0..MaxRefreshes
      BY <2>1
    <2>3. 0 <= MaxEvents /\ 0 \in 0..1 /\ 0 \in Nat
      BY <2>1
    <2> QED BY <1>1, <2>2, <2>3 DEF Init, TypeOK, Statuses
  <1>3. FileKnown /\ CurrentIsLoaded /\ StatusWillSettle
    BY DEF Init, FileKnown, CurrentIsLoaded, StatusWillSettle
  <1>4. AutosAreRetries
    <2>1. autos = 0
      BY DEF Init
    <2> QED BY <2>1 DEF AutosAreRetries
  <1> QED BY <1>2, <1>3, <1>4 DEF IInv

(* playAttempt preserves the invariant, whoever calls it, as long as a     *)
(* retry follows an attempt that was none.                                 *)
LEMMA PlayInv ==
    ASSUME IInv, NEW c \in list, NEW isRetry \in BOOLEAN, isRetry => ~retried,
           PlayAttempt(c, isRetry) \/ PlayRefused(isRetry),
           UNCHANGED mpvVars,
           events' \in Seq(Event), Len(events') <= MaxEvents,
           LoadedQueued => LoadedQueued'
    PROVE  IInv'
  <1> USE DEF IInv
  <1>1. /\ TypeOK' /\ FileKnown' /\ AutosAreRetries' /\ CurrentIsLoaded'
    <2>1. CASE PlayAttempt(c, isRetry)
      <3>1. /\ last < MaxLoads /\ last' = last + 1 /\ loaded' = c /\ lastErr' = 0
            /\ retried' = isRetry /\ current' = c
            /\ status' \in {"retrying", "tuning"}
            /\ autos' = IF isRetry THEN autos + 1 ELSE 0
            /\ UNCHANGED <<list, refreshes, file, phase>>
        BY <2>1 DEF PlayAttempt, RetriedAfter, Loadfile, mpvVars
      <3>2. AutosAreRetries' /\ autos' \in Nat
        BY <3>1 DEF AutosAreRetries, TypeOK
      <3>3. last' \in 1..MaxLoads /\ file' \in 0..last' /\ lastErr' \in 0..MaxLoads
        BY <3>1, PlaybackAssumption DEF TypeOK
      <3>4. TypeOK'
        BY <3>1, <3>2, <3>3 DEF TypeOK, Statuses
      <3> QED BY <3>1, <3>2, <3>4 DEF FileKnown, CurrentIsLoaded
    <2>2. CASE PlayRefused(isRetry)
      <3>1. /\ lastErr' = 0 /\ retried' = isRetry /\ status' = "not started"
            /\ autos' = IF isRetry THEN autos ELSE 0
            /\ UNCHANGED <<list, current, refreshes, last, loaded, file, phase>>
        BY <2>2 DEF PlayRefused, RetriedAfter, cmdVars, mpvVars
      <3>2. AutosAreRetries' /\ autos' \in Nat
        <4>1. CASE isRetry
          <5>1. ~retried /\ autos \in Nat /\ autos <= 1 /\ autos # 1
            BY <4>1 DEF AutosAreRetries, TypeOK
          <5>2. autos' = autos
            BY <3>1, <4>1
          <5>3. autos' = 0
            BY <5>1, <5>2
          <5> QED BY <5>3 DEF AutosAreRetries
        <4>2. CASE ~isRetry
          <5>1. autos' = 0
            BY <3>1, <4>2
          <5> QED BY <5>1 DEF AutosAreRetries
        <4> QED BY <4>1, <4>2
      <3>3. 0 \in 0..MaxLoads
        BY PlaybackAssumption
      <3>4. TypeOK'
        BY <3>1, <3>2, <3>3 DEF TypeOK, Statuses
      <3> QED BY <3>1, <3>2, <3>4 DEF FileKnown, CurrentIsLoaded
    <2> QED BY <2>1, <2>2
  <1>2. StatusWillSettle'
    <2>1. CASE PlayAttempt(c, isRetry)
      <3>1. last' # file' /\ status' # "failed"
        BY <2>1 DEF PlayAttempt, Loadfile, TypeOK, mpvVars
      <3> QED BY <3>1 DEF StatusWillSettle
    <2>2. CASE PlayRefused(isRetry)
      BY <2>2 DEF PlayRefused, StatusWillSettle
    <2> QED BY <2>1, <2>2
  <1> QED BY <1>1, <1>2

(* Every step preserves the invariant.                                     *)
LEMMA NextInv == IInv /\ [Next]_vars => IInv'
  <1> SUFFICES ASSUME IInv, [Next]_vars PROVE IInv'
    OBVIOUS
  <1> USE PlaybackAssumption DEF IInv
  <1>0. events \in Seq(Event) /\ Len(events) <= MaxEvents /\ MaxEvents \in Nat
    BY DEF TypeOK
  <1>1. ASSUME NEW c \in Chans, Play(c) PROVE IInv'
    <2>1. UNCHANGED events /\ c \in list
          /\ (PlayAttempt(c, FALSE) \/ PlayRefused(FALSE)) /\ UNCHANGED mpvVars
      BY <1>1 DEF Play
    <2>2. LoadedQueued => LoadedQueued'
      BY <2>1 DEF LoadedQueued
    <2> QED BY <2>1, <2>2, <1>0, PlayInv
  <1>2. ASSUME NEW new \in SUBSET Chans, Refresh(new) PROVE IInv'
    BY <1>2 DEF Refresh, TypeOK, FileKnown, AutosAreRetries, CurrentIsLoaded,
                StatusWillSettle, LoadedQueued, cmdVars, mpvVars
  <1>3. CASE HandleLoaded
    <2>1. events' \in Seq(Event) /\ Len(events') <= MaxEvents
      BY <1>3, <1>0, ReceiveFacts DEF HandleLoaded
    <2> QED
      BY <1>3, <2>1
         DEF HandleLoaded, TypeOK, Statuses, FileKnown, AutosAreRetries, CurrentIsLoaded,
             StatusWillSettle, cmdVars, mpvVars
  <1>4. CASE HandleLog
    <2>1. /\ events' \in Seq(Event) /\ Len(events') <= MaxEvents
          /\ Head(events) \in Event /\ (LoadedQueued => LoadedQueued')
      BY <1>4, <1>0, ReceiveFacts DEF HandleLog
    <2>2. Head(events).of \in 1..MaxLoads
      BY <2>1 DEF Event
    <2>3. UNCHANGED <<list, current, retried, status, refreshes, autos, cmdVars, mpvVars>>
          /\ lastErr' \in 0..MaxLoads
      BY <1>4, <2>2 DEF HandleLog, TypeOK
    <2> QED
      BY <2>1, <2>3
         DEF TypeOK, FileKnown, AutosAreRetries, CurrentIsLoaded, StatusWillSettle,
             cmdVars, mpvVars
  <1>5. CASE HandleEndIgnored
    <2>1. PICK type \in {"stop", "eof", "error"} : Receive(type)
      BY <1>5 DEF HandleEndIgnored
    <2>2. /\ events' \in Seq(Event) /\ Len(events') <= MaxEvents
          /\ LoadedQueued => LoadedQueued'
      BY <2>1, <1>0, ReceiveFacts
    <2>3. UNCHANGED <<uiVars, cmdVars, mpvVars>>
      BY <1>5 DEF HandleEndIgnored
    <2> QED
      BY <2>2, <2>3
         DEF TypeOK, FileKnown, AutosAreRetries, CurrentIsLoaded, StatusWillSettle,
             uiVars, cmdVars, mpvVars
  <1>6. CASE HandleEndRetry
    <2>1. PICK type \in {"eof", "error"} : Receive(type)
      BY <1>6 DEF HandleEndRetry
    <2>2. /\ events' \in Seq(Event) /\ Len(events') <= MaxEvents
          /\ LoadedQueued => LoadedQueued'
      BY <2>1, <1>0, ReceiveFacts
    <2>3. /\ current \in list /\ ~retried
          /\ PlayAttempt(current, TRUE) \/ PlayRefused(TRUE)
          /\ UNCHANGED mpvVars
      BY <1>6 DEF HandleEndRetry, TypeOK
    <2>4. TRUE => ~retried
      BY <2>3
    <2> QED BY ONLY <2>2, <2>3, <2>4, IInv, PlayInv
  <1>7. CASE HandleEndGiveUp
    <2>1. PICK type \in {"eof", "error"} : Receive(type)
      BY <1>7 DEF HandleEndGiveUp
    <2>2. events' \in Seq(Event) /\ Len(events') <= MaxEvents
      BY <2>1, <1>0, ReceiveFacts
    <2>3. /\ status' = "failed" /\ current' = None
          /\ last' \in 1..MaxLoads /\ last' >= last
          /\ loaded' \in Chans \cup {IdleSource}
          /\ UNCHANGED <<list, retried, lastErr, refreshes, autos, mpvVars>>
      BY <1>7 DEF HandleEndGiveUp, Loadfile, cmdVars, TypeOK
    <2>4. TypeOK'
      <3>1. list' \subseteq Chans /\ None \in list' \cup {None}
        BY <2>3 DEF TypeOK
      <3>2. file \in Nat /\ file <= last /\ last \in Nat /\ last' \in Nat
        BY <2>3 DEF TypeOK
      <3>3. file' = file /\ phase' = phase
        BY <2>3 DEF mpvVars
      <3>4. file' \in 0..last'
        BY <3>2, <3>3, <2>3
      <3> QED
        BY ONLY TypeOK, <2>2, <2>3, <3>1, <3>3, <3>4 DEF TypeOK, Statuses
    <2>5. AutosAreRetries'
      BY <2>3 DEF AutosAreRetries
    <2>6. FileKnown' /\ CurrentIsLoaded' /\ StatusWillSettle'
      BY <2>3 DEF FileKnown, CurrentIsLoaded, StatusWillSettle, mpvVars
    <2> QED BY <2>4, <2>5, <2>6
  <1>8. CASE MpvBegin
    <2>1. events' \in Seq(Event) /\ Len(events') <= MaxEvents
      <3>1. CASE phase = "none"
        BY <3>1, <1>8, <1>0 DEF MpvBegin
      <3>2. CASE phase # "none"
        <4>1. file \in 1..MaxLoads
          BY <3>2 DEF TypeOK, FileKnown
        <4> QED BY <3>2, <4>1, <1>8, <1>0, EmitFacts DEF MpvBegin
      <3> QED BY <3>1, <3>2
    <2>2. file' = last /\ phase' = "opening" /\ UNCHANGED <<uiVars, cmdVars>>
      BY <1>8 DEF MpvBegin
    <2> QED
      BY <2>1, <2>2
         DEF TypeOK, FileKnown, AutosAreRetries, CurrentIsLoaded, StatusWillSettle,
             uiVars, cmdVars
  <1>9. CASE MpvLoaded
    <2>1. file \in 1..MaxLoads
      BY <1>9 DEF MpvLoaded, TypeOK
    <2>2. events' \in Seq(Event) /\ Len(events') <= MaxEvents /\ LoadedQueued'
      BY <2>1, <1>9, <1>0, EmitFacts DEF MpvLoaded
    <2>3. phase' = "playing" /\ UNCHANGED <<uiVars, cmdVars, file>>
      BY <1>9 DEF MpvLoaded
    <2> QED
      BY <2>1, <2>2, <2>3
         DEF TypeOK, FileKnown, AutosAreRetries, CurrentIsLoaded, StatusWillSettle,
             uiVars, cmdVars
  <1>10. CASE MpvEnds
    <2>1. file \in 1..MaxLoads
      BY <1>10 DEF MpvEnds, TypeOK
    <2>2. events' \in Seq(Event) /\ Len(events') <= MaxEvents
      <3>1. PICK type \in {"error", "eof"} : Emit(type)
        BY <1>10 DEF MpvEnds
      <3> QED BY <3>1, <2>1, <1>0, EmitFacts
    <2>3. phase' = "none" /\ UNCHANGED <<uiVars, cmdVars, file>>
      BY <1>10 DEF MpvEnds
    <2> QED
      BY <2>1, <2>2, <2>3
         DEF TypeOK, FileKnown, AutosAreRetries, CurrentIsLoaded, StatusWillSettle,
             uiVars, cmdVars
  <1>11. CASE MpvLog
    <2>1. file \in 1..MaxLoads
      BY <1>11 DEF MpvLog, TypeOK
    <2>2. /\ events' \in Seq(Event) /\ Len(events') <= MaxEvents
          /\ LoadedQueued => LoadedQueued'
      BY <2>1, <1>11, <1>0, EmitFacts DEF MpvLog
    <2>3. UNCHANGED <<uiVars, cmdVars, mpvVars>>
      BY <1>11 DEF MpvLog
    <2> QED
      BY <2>2, <2>3
         DEF TypeOK, FileKnown, AutosAreRetries, CurrentIsLoaded, StatusWillSettle,
             uiVars, cmdVars, mpvVars
  <1>12. CASE UNCHANGED vars
    BY <1>12 DEF vars, uiVars, cmdVars, mpvVars, TypeOK, FileKnown, AutosAreRetries,
                 CurrentIsLoaded, StatusWillSettle, LoadedQueued
  <1> QED
    BY <1>1, <1>2, <1>3, <1>4, <1>5, <1>6, <1>7, <1>8, <1>9, <1>10, <1>11, <1>12
       DEF Next, Handle, Mpv

-----------------------------------------------------------------------------
(* Handlers and mpv only produce well-typed states: ui.current never       *)
(* points outside ui.channels, so playbackEnded's ui.channels[ui.current]  *)
(* never fails.                                                            *)
THEOREM TypeCorrect == Spec => []TypeOK
  <1>1. IInv => TypeOK
    BY DEF IInv
  <1> QED BY InitInv, NextInv, <1>1, PTL DEF Spec

(* One choice of the user causes at most one automatic load, and a channel *)
(* the UI shows as current is the one mpv was told to load last.           *)
THEOREM RetriesBounded == Spec => [](OneRetry /\ CurrentIsLoaded)
  <1>1. IInv => OneRetry /\ CurrentIsLoaded
    BY DEF IInv, AutosAreRetries, OneRetry
  <1> QED BY InitInv, NextInv, <1>1, PTL DEF Spec

(* A channel that plays, with every event handled, is not shown as tuning, *)
(* retrying or failed.                                                     *)
THEOREM StatusHonest == Spec => []StatusSettles
  <1>1. IInv => StatusSettles
    BY DEF IInv, StatusWillSettle, StatusSettles, LoadedQueued, TypeOK
  <1> QED BY InitInv, NextInv, <1>1, PTL DEF Spec

-----------------------------------------------------------------------------
(* Subtitles.                                                              *)

(* What is shown is what the preference asks for, or what the key chose    *)
(* and the preference remembers.                                           *)
AsPreferred == IF cycled THEN Remembered(sid) ELSE Preferred(sid)

(* Until the preference is applied, the event that will is in the queue.   *)
SubInv ==
    /\ tracks \in Seq([lang : STRING, kind : STRING]) /\ subPref \in Seq(STRING)
    /\ file = last /\ phase = "playing" /\ current # None => LoadedQueued \/ AsPreferred

SubNext == SubUser \/ SubHandle \/ SubMpv

(* A set of track or language numbers has a least one, which Min gives.    *)
LEMMA MinFact == \A S : S \subseteq Nat /\ S # {} => Min(S) \in S /\ \A y \in S : Min(S) <= y
  <1> SUFFICES ASSUME NEW S, S \subseteq Nat, S # {}
               PROVE  Min(S) \in S /\ \A y \in S : Min(S) <= y
    OBVIOUS
  <1>1. PICK x \in S : \A y \in S : <<y, x>> \notin OpToRel(<, Nat)
    BY NatLessThanWellFounded, WFMin, Zenon
  <1>2. ASSUME NEW y \in S, y < x PROVE FALSE
    <2> DEFINE p == <<y, x>>
    <2>1. p \in Nat \X Nat /\ p[1] < p[2]
      BY <1>2
    <2> HIDE DEF p
    <2>2. p \in OpToRel(<, Nat)
      BY <2>1 DEF OpToRel
    <2> QED BY <1>1, <2>2 DEF p
  <1>3. \A y \in S : x <= y
    BY <1>2
  <1> QED BY <1>3 DEF Min

(* applySubPref: the track chosen is in the best language there is, and    *)
(* not for the hearing impaired if that language has another.              *)
LEMMA ChosenFits ==
    ASSUME SubInv
    PROVE  Preferred(Chosen)
  <1>0. SubTracks \subseteq Nat \ {0} /\ DOMAIN subPref \subseteq Nat
    BY DEF SubTracks, SubInv
  <1>1. CASE Available = {}
    <2>1. Chosen = 0
      BY <1>1 DEF Chosen
    <2>2. \A o \in SubTracks, j \in DOMAIN subPref : tracks[o].lang # subPref[j]
      BY <1>1 DEF Available, OfLang
    <2> QED BY <2>1, <2>2 DEF Preferred
  <1>2. CASE Available # {}
    <2> DEFINE k     == Min(Available)
               fit   == OfLang(subPref[k])
               plain == {i \in fit : tracks[i].kind = "plain"}
               best  == IF plain = {} THEN fit ELSE plain
    <2>1. Available \subseteq DOMAIN subPref
      BY DEF Available
    <2>2. k \in Available /\ \A j \in Available : k <= j
      BY <1>0, <1>2, <2>1, MinFact
    <2>3. fit # {} /\ fit \subseteq SubTracks
      BY <2>2 DEF Available, OfLang
    <2>4. Chosen = Min(best)
      BY <1>2 DEF Chosen
    <2>5. best # {} /\ best \subseteq fit /\ best \subseteq Nat
      BY <1>0, <2>3
    <2> HIDE DEF k
    <2>6. Min(best) \in best
      BY <2>5, MinFact
    <2>7. Chosen # 0 /\ Chosen \in SubTracks /\ tracks[Chosen].lang = subPref[k]
      BY <1>0, <2>3, <2>4, <2>5, <2>6 DEF OfLang
    <2>8. plain # {} => tracks[Chosen].kind = "plain"
      BY <2>4, <2>6
    <2>9. ASSUME NEW o \in SubTracks, NEW j \in DOMAIN subPref, tracks[o].lang = subPref[j]
          PROVE  k <= j /\ (k = j /\ tracks[o].kind = "plain" => tracks[Chosen].kind = "plain")
      <3>1. j \in Available
        BY <2>9 DEF Available, OfLang
      <3>2. k = j /\ tracks[o].kind = "plain" => o \in plain
        BY <2>9 DEF OfLang
      <3> QED BY <2>2, <2>8, <3>1, <3>2
    <2> HIDE DEF fit, plain, best
    <2> QED BY <2>1, <2>2, <2>7, <2>9 DEF Preferred
  <1> QED BY <1>1, <1>2

(* cycleSub shows a track and remembers its language, or neither.          *)
LEMMA CycleFits == SubInv /\ CycleSub => subPref' \in Seq(STRING) /\ AsPreferred'
  <1> SUFFICES ASSUME SubInv, CycleSub PROVE subPref' \in Seq(STRING) /\ AsPreferred'
    OBVIOUS
  <1> DEFINE after == {i \in SubTracks : i > sid}
             next  == IF after = {} \/ sid \notin SubTracks \cup {0} THEN 0 ELSE Min(after)
  <1>1. /\ sid' = next /\ tracks' = tracks /\ cycled' = TRUE
        /\ subPref' = IF next = 0 \/ tracks[next].lang = "" THEN <<>> ELSE <<tracks[next].lang>>
    BY DEF CycleSub
  <1>2. next = 0 \/ next \in SubTracks
    <2>1. after \subseteq Nat
      BY DEF SubTracks, SubInv
    <2>2. after # {} => Min(after) \in after
      BY <2>1, MinFact
    <2> QED BY <2>2
  <1> HIDE DEF next
  <1>3. next # 0 => tracks[next].lang \in STRING
    <2> DEFINE Track == [lang : STRING, kind : STRING]
    <2>1. tracks \in Seq(Track)
      BY DEF SubInv
    <2> HIDE DEF Track
    <2>2. next # 0 => tracks[next] \in Track
      BY <1>2, <2>1 DEF SubTracks
    <2> QED BY <2>2 DEF Track
  <1>4. subPref' \in Seq(STRING)
    <2>1. CASE next = 0 \/ tracks[next].lang = ""
      <3>1. subPref' = <<>>
        BY <1>1, <2>1
      <3> QED BY <3>1
    <2>2. CASE next # 0 /\ tracks[next].lang # ""
      <3>1. PICK l \in STRING : l = tracks[next].lang
        BY <1>3, <2>2
      <3>2. subPref' = <<tracks[next].lang>>
        BY <1>1, <2>2
      <3> QED BY <3>1, <3>2
    <2> QED BY <2>1, <2>2
  <1>5. Remembered(sid)'
    BY <1>1, <1>2 DEF Remembered, SubTracks
  <1> QED BY <1>1, <1>4, <1>5 DEF AsPreferred

(* A channel plays, and the UI knows which.                                *)
Showing == file = last /\ phase = "playing" /\ current # None

(* A step that leaves what is shown and the preference alone may only stop *)
(* the channel, or keep the event that will apply the preference.          *)
LEMMA SubKept ==
    ASSUME SubInv, UNCHANGED subVars, Showing' => Showing /\ (LoadedQueued => LoadedQueued')
    PROVE  SubInv'
  <1>1. UNCHANGED <<tracks, sid, subPref, cycled>>
    BY DEF subVars
  <1>2. SubTracks' = SubTracks
    BY <1>1 DEF SubTracks
  <1>3. (Preferred(sid) <=> Preferred(sid)') /\ (Remembered(sid) <=> Remembered(sid)')
    BY <1>1, <1>2 DEF Preferred, Remembered
  <1>4. AsPreferred => AsPreferred'
    BY <1>1, <1>3, Zenon DEF AsPreferred
  <1> QED BY <1>1, <1>4 DEF SubInv, Showing

(* The steps of Subtitles are steps of Playback.                           *)
LEMMA SubRefines == [SubNext]_allVars => [Next]_vars
  <1>1. CycleSub => UNCHANGED vars
    BY DEF CycleSub
  <1>2. SubUser => [Next]_vars
    BY <1>1 DEF SubUser, Next
  <1>3. SubHandle => Next
    BY DEF SubHandle, SubLoaded, Next, Handle
  <1>4. SubMpv => Next
    BY DEF SubMpv, Next, Mpv
  <1>5. UNCHANGED allVars => UNCHANGED vars
    BY DEF allVars
  <1> QED BY <1>2, <1>3, <1>4, <1>5 DEF SubNext

(* Every step keeps what is shown as preferred, or the event queued that   *)
(* will make it so.                                                        *)
LEMMA SubStep == IInv /\ SubInv /\ [SubNext]_allVars => SubInv'
  <1> SUFFICES ASSUME IInv, SubInv, [SubNext]_allVars PROVE SubInv'
    OBVIOUS
  <1> USE PlaybackAssumption
  <1>0. /\ events \in Seq(Event) /\ Len(events) <= MaxEvents /\ MaxEvents \in Nat
        /\ file \in Nat /\ last \in Nat /\ file <= last
        /\ loaded \in Chans \cup {IdleSource}
    BY DEF IInv, TypeOK
  <1>1. ASSUME NEW c, NEW isRetry, PlayAttempt(c, isRetry) \/ PlayRefused(isRetry),
               UNCHANGED mpvVars
        PROVE  Showing' => Showing
    <2>1. CASE PlayAttempt(c, isRetry)
      BY <1>0, <1>1, <2>1 DEF PlayAttempt, Loadfile, Showing, mpvVars
    <2>2. CASE PlayRefused(isRetry)
      BY <1>1, <2>2 DEF PlayRefused, Showing, mpvVars, cmdVars
    <2> QED BY <1>1, <2>1, <2>2
  <1>2. ASSUME NEW c \in Chans, Play(c), UNCHANGED subVars PROVE SubInv'
    <2>1. Showing' => Showing
      BY <1>1, <1>2, Zenon DEF Play
    <2>2. LoadedQueued => LoadedQueued'
      BY <1>2 DEF Play, LoadedQueued
    <2> QED BY <2>1, <2>2, <1>2, SubKept
  <1>3. ASSUME NEW new \in SUBSET Chans, Refresh(new), UNCHANGED subVars PROVE SubInv'
    <2>1. (Showing' => Showing) /\ (LoadedQueued => LoadedQueued')
      BY <1>3 DEF Refresh, Showing, LoadedQueued, cmdVars, mpvVars
    <2> QED BY <2>1, <1>3, SubKept
  <1>4. CASE CycleSub
    <2>1. tracks' = tracks
      BY <1>4 DEF CycleSub
    <2> QED BY <1>4, <2>1, CycleFits DEF SubInv
  <1>5. CASE SubLoaded
    <2>1. /\ UNCHANGED <<current, tracks, subPref>>
          /\ current # None => sid' = Chosen /\ cycled' = FALSE
      BY <1>5 DEF SubLoaded, HandleLoaded
    <2>2. CASE current = None
      BY <2>1, <2>2 DEF SubInv
    <2>3. CASE current # None
      <3>1. Preferred(Chosen)
        BY ChosenFits
      <3>2. AsPreferred'
        BY <2>1, <2>3, <3>1 DEF AsPreferred, Preferred, SubTracks
      <3> QED BY <2>1, <3>2 DEF SubInv
    <2> QED BY <2>2, <2>3
  <1>6. CASE (HandleLog \/ HandleEndIgnored) /\ UNCHANGED subVars
    <2>1. PICK type \in {"log", "stop", "eof", "error"} : Receive(type)
      BY <1>6 DEF HandleLog, HandleEndIgnored
    <2>2. LoadedQueued => LoadedQueued'
      BY <2>1, <1>0, ReceiveFacts
    <2>3. Showing' => Showing
      BY <1>6 DEF HandleLog, HandleEndIgnored, Showing, uiVars, cmdVars, mpvVars
    <2> QED BY <2>2, <2>3, <1>6, SubKept
  <1>7. CASE HandleEndRetry /\ UNCHANGED subVars
    <2>1. PICK type \in {"eof", "error"} : Receive(type)
      BY <1>7 DEF HandleEndRetry
    <2>2. LoadedQueued => LoadedQueued'
      BY <2>1, <1>0, ReceiveFacts
    <2>3. Showing' => Showing
      BY <1>1, <1>7, Zenon DEF HandleEndRetry
    <2> QED BY <2>2, <2>3, <1>7, SubKept
  <1>8. CASE HandleEndGiveUp /\ UNCHANGED subVars
    <2>1. ~Showing'
      BY <1>8 DEF HandleEndGiveUp, Showing
    <2> QED BY <2>1, <1>8, SubKept
  <1>9. CASE MpvLoaded /\ tracks' = TracksOf[loaded] /\ UNCHANGED subPref
    <2>1. file \in 1..MaxLoads /\ Emit("loaded")
      BY <1>9 DEF MpvLoaded, IInv, TypeOK
    <2>2. LoadedQueued'
      BY <2>1, <1>0, EmitFacts
    <2>3. tracks' \in Seq([lang : STRING, kind : STRING])
      BY <1>0, <1>9, SubtitlesAssumption
    <2> QED BY <1>9, <2>2, <2>3 DEF SubInv
  <1>10. CASE (MpvBegin \/ MpvEnds) /\ tracks' = <<>> /\ UNCHANGED subPref
    <2>1. phase' # "playing"
      BY <1>10 DEF MpvBegin, MpvEnds
    <2>2. tracks' \in Seq([lang : STRING, kind : STRING])
      BY <1>10
    <2> QED BY <1>10, <2>1, <2>2 DEF SubInv
  <1>11. CASE MpvLog /\ UNCHANGED subVars
    <2>1. file \in 1..MaxLoads /\ Emit("log")
      BY <1>11 DEF MpvLog, IInv, TypeOK, FileKnown
    <2>2. LoadedQueued => LoadedQueued'
      BY <2>1, <1>0, EmitFacts
    <2>3. Showing' => Showing
      BY <1>11 DEF MpvLog, Showing, uiVars, cmdVars, mpvVars
    <2> QED BY <2>2, <2>3, <1>11, SubKept
  <1>12. CASE UNCHANGED allVars
    <2>1. UNCHANGED <<vars, subVars>>
      BY <1>12 DEF allVars
    <2>2. (Showing' => Showing) /\ (LoadedQueued => LoadedQueued')
      BY <2>1 DEF vars, uiVars, cmdVars, mpvVars, Showing, LoadedQueued
    <2> QED BY <2>1, <2>2, SubKept
  <1> QED
    BY <1>2, <1>3, <1>4, <1>5, <1>6, <1>7, <1>8, <1>9, <1>10, <1>11, <1>12
       DEF SubNext, SubUser, SubHandle, SubMpv

(* Whenever a channel plays and every event is handled, the track shown is *)
(* one the preference asks for, the best language and plain before hearing *)
(* impaired, or the key's last choice as it is remembered: for every       *)
(* choice of tracks, and whatever mpv started with.                        *)
THEOREM SubsAsPreferred == SubSpec => []SubsFollow
  <1>1. SubInit => IInv /\ SubInv
    <2>1. ASSUME SubInit PROVE SubInv
      <3>1. tracks = <<>> /\ subPref = RegionLangs /\ current = None
        BY <2>1 DEF SubInit, Init
      <3>2. tracks \in Seq([lang : STRING, kind : STRING])
        BY <3>1
      <3> QED BY <3>1, <3>2, SubtitlesAssumption DEF SubInv
    <2> QED BY <2>1, InitInv DEF SubInit
  <1>2. IInv /\ SubInv /\ [SubNext]_allVars => IInv' /\ SubInv'
    BY SubStep, SubRefines, NextInv
  <1>3. IInv /\ SubInv => SubsFollow
    <2>1. events = <<>> => ~LoadedQueued
      BY DEF LoadedQueued
    <2> QED BY <2>1 DEF SubInv, SubsFollow, AsPreferred
  <1> QED BY <1>1, <1>2, <1>3, PTL DEF SubSpec, SubNext
=============================================================================
