--------------------------- MODULE EpgStoreProofs ----------------------------
(***************************************************************************)
(* Theorems about EpgStore, for any services, plans and guides, and any    *)
(* number of replans, outages and restarts: the bar tells the truth while  *)
(* the plan stays, survives a restart, and never goes back to an older     *)
(* guide.                                                                  *)
(***************************************************************************)
EXTENDS EpgStore, WellFoundedInduction, TLAPS

-----------------------------------------------------------------------------
(* Events.                                                                 *)

(* Times are natural numbers.                                              *)
LEMMA EventTypes ==
    /\ \A e \in Event : e.start \in Nat /\ e.dur \in Nat /\ Until(e) \in Nat /\ e.start <= Until(e)
    /\ \A p \in Plans, s \in Services : p[s] \subseteq Event
    /\ None \notin Event
  <1>1. Event \subseteq [start : Nat, dur : Nat, title : STRING]
    BY EpgAssumption DEF Event
  <1>2. \A e \in [start : Nat, dur : Nat, title : STRING] :
          e.start \in Nat /\ e.dur \in Nat /\ Until(e) \in Nat /\ e.start <= Until(e)
    BY DEF Until
  <1> QED BY <1>1, <1>2, EpgAssumption DEF Event

(* A set of natural numbers that is not empty has a least one.             *)
LEMMA LeastExists ==
    ASSUME NEW T \in SUBSET Nat, T # {}
    PROVE  \E x \in T : \A y \in T : x <= y
  <1>1. PICK x \in T : \A y \in T : ~ (<<y, x>> \in OpToRel(<, Nat))
    BY NatLessThanWellFounded, WFMin
  <1>2. \A y \in T : ~ (y < x)
    BY <1>1 DEF OpToRel
  <1> QED BY <1>2

(* Of events that are on, one began last.                                  *)
LEMMA LatestExists ==
    ASSUME NEW on \in SUBSET Event, on # {}, NEW t \in Nat, \A e \in on : e.start <= t
    PROVE  \E e \in on : \A f \in on : f.start <= e.start
  <1> DEFINE T == {t - e.start : e \in on}
  <1>1. T \in SUBSET Nat /\ T # {}
    BY EventTypes
  <1>2. PICK x \in T : \A y \in T : x <= y
    BY <1>1, LeastExists
  <1>3. PICK e \in on : x = t - e.start
    BY <1>2
  <1>4. \A f \in on : t - e.start <= t - f.start
    BY <1>2, <1>3
  <1> QED BY <1>4, EventTypes

(* Pruning keeps what is on and what comes.                                *)
LEMMA PruneKeeps ==
    ASSUME NEW events \in SUBSET Event, NEW t \in Nat
    PROVE  /\ Prune(events, t, Hour) \in SUBSET Event
           /\ NowNext(Prune(events, t, Hour), t) = NowNext(events, t)
  <1>1. \A e \in events : OnAt(e, t) \/ e.start > t => Until(e) > t - Hour
    BY EventTypes, EpgAssumption DEF OnAt
  <1>2. {e \in Prune(events, t, Hour) : OnAt(e, t)} = {e \in events : OnAt(e, t)}
    BY <1>1 DEF Prune
  <1>3. {e \in Prune(events, t, Hour) : e.start > t} = {e \in events : e.start > t}
    BY <1>1 DEF Prune
  <1>4. NowNext(Prune(events, t, Hour), t) = NowNext(events, t)
    BY <1>2, <1>3 DEF NowNext
  <1> QED BY <1>4 DEF Prune

(* Events pruned alike now are pruned alike later.                         *)
LEMMA PruneLater ==
    ASSUME NEW a \in SUBSET Event, NEW b \in SUBSET Event, NEW t \in Nat,
           Prune(a, t, Hour) = Prune(b, t, Hour)
    PROVE  Prune(a, t + 1, Hour) = Prune(b, t + 1, Hour)
  <1>1. \A e \in Event : Until(e) > (t + 1) - Hour => Until(e) > t - Hour
    BY EventTypes, EpgAssumption
  <1>2. \A e \in Event : Until(e) > t - Hour => (e \in a <=> e \in b)
    BY DEF Prune
  <1>3. \A e \in Event : Until(e) > (t + 1) - Hour => (e \in a <=> e \in b)
    BY <1>1, <1>2
  <1> QED BY <1>3 DEF Prune

(* Pruning twice is pruning once.                                          *)
LEMMA PruneTwice ==
    ASSUME NEW a, NEW t
    PROVE  Prune(Prune(a, t, Hour), t, Hour) = Prune(a, t, Hour)
  BY DEF Prune

-----------------------------------------------------------------------------
(* The invariant.                                                          *)

Types ==
    /\ now \in Nat /\ plan \in Plans /\ replans \in Nat /\ began \in 0..replans
    /\ epg \in [Services -> SUBSET Event] /\ heard \in [Services -> SUBSET Event]
    /\ file \in [Services -> SUBSET Event]
    /\ asOf \in [Services -> {NoPlan} \cup 0..replans]
    /\ fileOf \in [Services -> {NoPlan} \cup 0..replans]
    /\ spliced \subseteq Services

(* What is true of an event as long as the plan stays.                     *)
Planned(e, s) == e \in plan[s] /\ (e.start > now => e \in Following(s))

(* Events collected since the plan last changed are of it.                 *)
PlanOk ==
    \A s \in Services :
        /\ asOf[s] = replans   => \A e \in epg[s] : Planned(e, s)
        /\ fileOf[s] = replans => \A e \in file[s] : Planned(e, s)
        /\ began = replans /\ s \notin spliced => \A e \in heard[s] : Planned(e, s)

(* Cache and store agree on what is still of use, unless a save failed.    *)
CacheOk ==
    up /\ sweep \in {"idle", "listen"} /\ ~unsaved =>
        \A s \in Services : Prune(file[s], now, Hour) = Prune(epg[s], now, Hour)

StoreInv == Types /\ PlanOk /\ CacheOk

(* The guide in memory is no newer than the server's, and no newer than    *)
(* its copy.                                                               *)
GuideInv ==
    /\ guide \in {0} \cup Published /\ latest \in {0} \cup Published
    /\ server \in Pages /\ (server \in Published => server = latest)
    /\ guide <= latest
    /\ writing \in {None, NoProgrammes} \cup Published
    /\ guideFile \in {0, Cut, NoProgrammes} \cup Published
    /\ writing \in Published => guide = writing
    /\ guideFile \in Published => guideFile <= latest
    /\ ~up => ~looked /\ writing = None
    /\ ~looked => guide = 0
    /\ up /\ guideFile \in Published /\ ~uncached => guide <= guideFile
    /\ up /\ looked /\ writing = None /\ guideFile # NoProgrammes /\ ~uncached =>
           guide = IF guideFile \in Published THEN guideFile ELSE 0

-----------------------------------------------------------------------------
(* The store and its cache.                                                *)

(* What follows goes on to follow until it begins, while the plan stays.   *)
LEMMA PlannedLater ==
    ASSUME Types, Tick, NEW s \in Services, NEW e \in Event, Planned(e, s)
    PROVE  Planned(e, s)'
  <1>1. now' = now + 1 /\ plan' = plan /\ now \in Nat /\ e.start \in Nat
    BY EventTypes DEF Tick, Types
  <1>2. \A f \in plan[s] : f.start \in Nat
    BY EventTypes DEF Types
  <1> QED BY <1>1, <1>2 DEF Planned, Following

(* Neither begins nor ends anything that a sweep, a save or a guide does.  *)
LEMMA PlannedSame ==
    ASSUME UNCHANGED <<now, plan>>, NEW s, NEW e
    PROVE  Planned(e, s)' <=> Planned(e, s)
  BY DEF Planned, Following

(* A section says what is on or what follows.                              *)
LEMMA SectionPlanned ==
    ASSUME Types, NEW s \in Services,
           NEW section \in {Present(s), Following(s)}, NEW e \in section
    PROVE  e \in Event /\ Planned(e, s)
  <1>1. e \in plan[s] /\ (e \in Present(s) \/ e \in Following(s))
    BY DEF Present, Following
  <1>2. e \in Event /\ e.start \in Nat /\ now \in Nat
    BY <1>1, EventTypes DEF Types
  <1>3. CASE e \in Present(s)
    <2>1. e.start <= now
      BY <1>3 DEF Present, OnAt
    <2> QED BY <2>1, <1>1, <1>2 DEF Planned
  <1>4. CASE e \in Following(s)
    BY <1>1, <1>2, <1>4 DEF Planned
  <1> QED BY <1>1, <1>3, <1>4

(* Steps that change neither the store nor its file nor the clock.         *)
LEMMA StoreSame ==
    ASSUME StoreInv,
           UNCHANGED <<now, plan, replans, epg, asOf, heard, began, spliced, file, fileOf, unsaved>>,
           up' /\ sweep' \in {"idle", "listen"} => up /\ sweep \in {"idle", "listen"}
    PROVE  StoreInv'
  <1>1. Types'
    BY DEF StoreInv, Types
  <1>2. PlanOk'
    <2>1. \A s \in Services : \A e : Planned(e, s)' <=> Planned(e, s)
      BY PlannedSame
    <2> QED BY <2>1 DEF StoreInv, PlanOk
  <1>3. CacheOk'
    BY DEF StoreInv, CacheOk
  <1> QED BY <1>1, <1>2, <1>3 DEF StoreInv

(* Every step keeps the store's invariant.                                 *)
LEMMA StoreStep == StoreInv /\ [Next]_vars => StoreInv'
  <1> SUFFICES ASSUME StoreInv, [Next]_vars PROVE StoreInv'
    OBVIOUS
  <1> USE DEF clock, running, sweepVars, fileVars, guideVars
  <1>0. Types /\ PlanOk /\ CacheOk
    BY DEF StoreInv
  <1>1. CASE Tick
    <2>1. UNCHANGED <<plan, replans, up, epg, asOf, sweep, heard, began, spliced, file, fileOf, unsaved>>
          /\ now' = now + 1
      BY <1>1 DEF Tick
    <2>2. Types'
      BY <1>0, <2>1 DEF Types
    <2>3. PlanOk'
      <3>1. \A s \in Services : epg[s] \subseteq Event /\ file[s] \subseteq Event /\ heard[s] \subseteq Event
        BY <1>0 DEF Types
      <3>2. \A s \in Services : \A e \in Event : Planned(e, s) => Planned(e, s)'
        BY <1>0, <1>1, PlannedLater
      <3> QED BY <1>0, <2>1, <3>1, <3>2 DEF PlanOk
    <2>4. CacheOk'
      <3>1. ASSUME NEW s \in Services, Prune(file[s], now, Hour) = Prune(epg[s], now, Hour)
            PROVE  Prune(file[s], now + 1, Hour) = Prune(epg[s], now + 1, Hour)
        BY <1>0, <3>1, PruneLater DEF Types
      <3> QED BY <1>0, <2>1, <3>1 DEF CacheOk
    <2> QED BY <2>2, <2>3, <2>4 DEF StoreInv
  <1>2. CASE Replan
    <2>1. UNCHANGED <<now, up, epg, asOf, sweep, heard, began, spliced, file, fileOf, unsaved>>
          /\ replans' = replans + 1 /\ plan' \in Plans
      BY <1>2 DEF Replan
    <2>2. Types'
      BY <1>0, <2>1 DEF Types
    <2>3. PlanOk'
      <3>1. \A s \in Services : asOf[s] # replans + 1 /\ fileOf[s] # replans + 1 /\ began # replans + 1
        BY <1>0 DEF Types, NoPlan
      <3> QED BY <2>1, <3>1 DEF PlanOk
    <2>4. CacheOk'
      BY <1>0, <2>1 DEF CacheOk
    <2> QED BY <2>2, <2>3, <2>4 DEF StoreInv
  <1>3. CASE Serve
    BY <1>3, StoreSame DEF Serve
  <1>4. CASE SweepBegins
    <2>1. /\ UNCHANGED <<now, plan, replans, up, epg, asOf, file, fileOf, unsaved>>
          /\ sweep = "idle" /\ heard' = Empty /\ began' = replans /\ spliced' = {}
      BY <1>4 DEF SweepBegins
    <2>2. Types'
      BY <1>0, <2>1 DEF Types, Empty
    <2>3. PlanOk'
      <3>1. \A s \in Services : heard'[s] = {}
        BY <2>1 DEF Empty
      <3>2. \A s \in Services : \A e : Planned(e, s)' <=> Planned(e, s)
        BY <2>1, PlannedSame
      <3> QED BY <1>0, <2>1, <3>1, <3>2 DEF PlanOk
    <2>4. CacheOk'
      BY <1>0, <2>1 DEF CacheOk
    <2> QED BY <2>2, <2>3, <2>4 DEF StoreInv
  <1>5. ASSUME NEW r \in Services, Hear(r) PROVE StoreInv'
    <2>1. /\ UNCHANGED <<now, plan, replans, up, epg, asOf, sweep, began, spliced, file, fileOf, unsaved>>
      BY <1>5 DEF Hear
    <2>2. PICK section \in {Present(r), Following(r)} :
            heard' = [heard EXCEPT ![r] = MergeEvents(@, section)]
      BY <1>5 DEF Hear
    <2>3. /\ \A s \in Services \ {r} : heard'[s] = heard[s]
          /\ heard'[r] \subseteq heard[r] \cup section
      BY <1>0, <2>2 DEF Types, MergeEvents
    <2>4. \A e \in section : e \in Event /\ Planned(e, r)
      BY <1>0, SectionPlanned
    <2>5. Types'
      <3>1. MergeEvents(heard[r], section) \subseteq Event
        BY <1>0, <2>4 DEF Types, MergeEvents
      <3> QED BY <1>0, <2>1, <2>2, <3>1 DEF Types
    <2>6. PlanOk'
      <3>1. \A s \in Services : \A e : Planned(e, s)' <=> Planned(e, s)
        BY <2>1, PlannedSame
      <3>2. ASSUME NEW s \in Services, began = replans, s \notin spliced, NEW e \in heard'[s]
            PROVE  Planned(e, s)
        BY <1>0, <2>3, <2>4, <3>2 DEF PlanOk
      <3> QED BY <1>0, <2>1, <3>1, <3>2 DEF PlanOk
    <2>7. CacheOk'
      BY <1>0, <2>1 DEF CacheOk
    <2> QED BY <2>5, <2>6, <2>7 DEF StoreInv
  <1>14. ASSUME NEW r \in Services, HearSpliced(r) PROVE StoreInv'
    <2>1. /\ UNCHANGED <<now, plan, replans, up, epg, asOf, sweep, began, file, fileOf, unsaved>>
          /\ spliced' = spliced \cup {r}
      BY <1>14 DEF HearSpliced
    <2>2. PICK e \in Misread : heard' = [heard EXCEPT ![r] = MergeEvents(@, {e})]
      BY <1>14 DEF HearSpliced
    <2>3. \A s \in Services \ {r} : heard'[s] = heard[s]
      BY <1>0, <2>2 DEF Types
    <2>4. Types'
      <3>1. MergeEvents(heard[r], {e}) \subseteq Event
        BY <1>0 DEF Types, MergeEvents, Event
      <3> QED BY <1>0, <2>1, <2>2, <3>1 DEF Types
    <2>5. PlanOk'
      <3>1. \A s \in Services : \A f : Planned(f, s)' <=> Planned(f, s)
        BY <2>1, PlannedSame
      <3> QED BY <1>0, <2>1, <2>3, <3>1 DEF PlanOk
    <2>6. CacheOk'
      BY <1>0, <2>1 DEF CacheOk
    <2> QED BY <2>4, <2>5, <2>6 DEF StoreInv
  <1>6. CASE SweepEnds
    <2>1. /\ UNCHANGED <<now, plan, replans, up, began, spliced, file, fileOf, unsaved>> /\ heard' = Empty
          /\ sweep = "listen"
      BY <1>6 DEF SweepEnds
    <2>2. \A s \in Services : heard'[s] = {}
      BY <2>1 DEF Empty
    <2>3. \A s \in Services : \A e : Planned(e, s)' <=> Planned(e, s)
      BY <2>1, PlannedSame
    <2>4. CASE UNCHANGED <<epg, asOf>>
      <3>1. Types'
        BY <1>0, <2>1, <2>4 DEF Types, Empty
      <3>2. PlanOk'
        BY <1>0, <2>1, <2>2, <2>3, <2>4 DEF PlanOk
      <3>3. CacheOk'
        BY <1>0, <2>1, <2>4 DEF CacheOk
      <3> QED BY <3>1, <3>2, <3>3 DEF StoreInv
    <2>5. CASE /\ sweep' = "save"
               /\ epg'  = [s \in Services |-> IF heard[s] = {} THEN epg[s] ELSE heard[s]]
               /\ asOf' = HeardOf
      <3>1. Types'
        BY <1>0, <2>1, <2>5 DEF Types, Empty, HeardOf
      <3>2. PlanOk'
        <4>1. ASSUME NEW s \in Services, asOf'[s] = replans, NEW e \in epg'[s] PROVE Planned(e, s)
          <5>1. CASE heard[s] = {}
            BY <1>0, <2>5, <4>1, <5>1 DEF PlanOk, HeardOf
          <5>2. CASE heard[s] # {}
            <6>1. s \notin spliced /\ began = replans
              BY <1>0, <2>5, <4>1, <5>2 DEF HeardOf, NoPlan, Types
            <6> QED BY <1>0, <2>5, <4>1, <5>2, <6>1 DEF PlanOk
          <5> QED BY <5>1, <5>2
        <4> QED BY <1>0, <2>1, <2>2, <2>3, <4>1 DEF PlanOk
      <3>3. CacheOk'
        BY <2>5 DEF CacheOk
      <3> QED BY <3>1, <3>2, <3>3 DEF StoreInv
    <2> QED BY <1>6, <2>4, <2>5 DEF SweepEnds
  <1>7. CASE StartSave
    BY <1>7, StoreSame DEF StartSave
  <1>8. CASE FinishSave
    <2>0. CASE unsaved' = TRUE /\ UNCHANGED <<file, fileOf>>
      <3>1. UNCHANGED <<now, plan, replans, up, epg, asOf, heard, began, spliced, file, fileOf>>
        BY <1>8, <2>0 DEF FinishSave
      <3>2. Types' /\ CacheOk'
        BY <1>0, <2>0, <3>1 DEF Types, CacheOk
      <3>3. PlanOk'
        <4>1. \A s \in Services : \A e : Planned(e, s)' <=> Planned(e, s)
          BY <3>1, PlannedSame
        <4> QED BY <1>0, <3>1, <4>1 DEF PlanOk
      <3> QED BY <3>2, <3>3 DEF StoreInv
    <2> SUFFICES ASSUME file' = [s \in Services |-> Prune(epg[s], now, Hour)] /\ fileOf' = asOf
                 PROVE  StoreInv'
      BY <1>8, <2>0 DEF FinishSave
    <2>1. /\ UNCHANGED <<now, plan, replans, up, epg, asOf, heard, began, spliced>>
          /\ file' = [s \in Services |-> Prune(epg[s], now, Hour)] /\ fileOf' = asOf
      BY <1>8 DEF FinishSave
    <2>2. \A s \in Services : Prune(epg[s], now, Hour) \subseteq epg[s]
      BY DEF Prune
    <2>3. Types'
      BY <1>0, <2>1, <2>2 DEF Types
    <2>4. PlanOk'
      <3>1. \A s \in Services : \A e : Planned(e, s)' <=> Planned(e, s)
        BY <2>1, PlannedSame
      <3>2. \A s \in Services : file'[s] \subseteq epg[s]
        BY <2>1, <2>2
      <3> QED BY <1>0, <2>1, <3>1, <3>2 DEF PlanOk
    <2>5. CacheOk'
      <3>1. \A s \in Services : Prune(file'[s], now, Hour) = Prune(epg[s], now, Hour)
        BY <2>1, PruneTwice
      <3> QED BY <2>1, <3>1 DEF CacheOk
    <2> QED BY <2>3, <2>4, <2>5 DEF StoreInv
  <1>9. CASE Refresh
    BY <1>9, StoreSame DEF Refresh
  <1>10. CASE FinishGuide
    BY <1>10, StoreSame DEF FinishGuide
  <1>11. CASE Stop
    <2>1. /\ UNCHANGED <<now, plan, replans, began, file, fileOf>> /\ ~up'
          /\ epg' = Empty /\ asOf' = Unsaid /\ heard' = Empty /\ spliced' = {}
      BY <1>11 DEF Stop
    <2>2. Types'
      BY <1>0, <2>1 DEF Types, Empty, Unsaid
    <2>3. PlanOk'
      <3>1. \A s \in Services : epg'[s] = {} /\ heard'[s] = {}
        BY <2>1 DEF Empty
      <3>2. \A s \in Services : \A e : Planned(e, s)' <=> Planned(e, s)
        BY <2>1, PlannedSame
      <3> QED BY <1>0, <2>1, <3>1, <3>2 DEF PlanOk
    <2>4. CacheOk'
      BY <2>1 DEF CacheOk
    <2> QED BY <2>2, <2>3, <2>4 DEF StoreInv
  <1>12. CASE Start
    <2>1. /\ UNCHANGED <<now, plan, replans, heard, began, spliced, file, fileOf, unsaved>>
          /\ epg' = Restored /\ asOf' = fileOf
      BY <1>12 DEF Start
    <2>2. Restored = [s \in Services |-> Prune(file[s], now, Hour)]
      BY <1>0, EpgAssumption DEF Restored, Types
    <2>3. \A s \in Services : Prune(file[s], now, Hour) \subseteq file[s]
      BY DEF Prune
    <2>4. Types'
      BY <1>0, <2>1, <2>2, <2>3 DEF Types
    <2>5. PlanOk'
      <3>1. \A s \in Services : \A e : Planned(e, s)' <=> Planned(e, s)
        BY <2>1, PlannedSame
      <3>2. \A s \in Services : epg'[s] \subseteq file[s]
        BY <2>1, <2>2, <2>3
      <3> QED BY <1>0, <2>1, <3>1, <3>2 DEF PlanOk
    <2>6. CacheOk'
      <3>1. \A s \in Services : Prune(file[s], now, Hour) = Prune(epg'[s], now, Hour)
        BY <2>1, <2>2, PruneTwice
      <3> QED BY <2>1, <3>1 DEF CacheOk
    <2> QED BY <2>4, <2>5, <2>6 DEF StoreInv
  <1>13. CASE UNCHANGED vars
    BY <1>13, StoreSame DEF vars
  <1> QED BY <1>1, <1>2, <1>3, <1>4, <1>5, <1>6, <1>7, <1>8, <1>9, <1>10, <1>11,
             <1>12, <1>13, <1>14 DEF Next

-----------------------------------------------------------------------------
(* The guide and its copy.                                                 *)

(* Pages have numbers, and nothing else has.                               *)
LEMMA PageTypes ==
    /\ Published \subseteq Nat \ {0} /\ 1 \in Published
    /\ {None, NoProgrammes, Down, Cut} \cap Int = {}
    /\ {None, NoProgrammes, Down, Cut} \cap ({0} \cup Published) = {}
  <1>1. Len(Guides) \in Nat /\ Len(Guides) # 0
    BY EpgAssumption
  <1>2. Published \subseteq Nat \ {0} /\ 1 \in Published
    BY <1>1 DEF Published
  <1>3. {None, NoProgrammes, Down, Cut} \cap Int = {}
    BY EpgAssumption
  <1>4. {0} \cup Published \subseteq Int
    BY <1>2
  <1> QED BY <1>2, <1>3, <1>4

(* Steps that change neither the guide nor its copy nor the server.        *)
LEMMA GuideSame ==
    ASSUME GuideInv, UNCHANGED <<server, latest, up, guideVars>>
    PROVE  GuideInv' /\ guide' = guide
  <1>1. /\ server' = server /\ latest' = latest /\ up' = up
        /\ guide' = guide /\ looked' = looked /\ writing' = writing /\ guideFile' = guideFile
        /\ uncached' = uncached
    BY DEF guideVars
  <1> QED BY <1>1 DEF GuideInv

(* Every step keeps the guide's invariant, and while the program runs none *)
(* goes back to an older guide.                                            *)
LEMMA GuideStep ==
    ASSUME GuideInv, [Next]_vars
    PROVE  GuideInv' /\ (up /\ up' /\ (uncached => guideFile = Cut) => guide' >= guide)
  <1> USE PageTypes DEF clock, running, guideVars, Pages
  <1>0. guide \in Nat /\ latest \in Nat
    <2>1. guide \in {0} \cup Published /\ latest \in {0} \cup Published
      BY DEF GuideInv
    <2> QED BY <2>1
  <1>1. CASE UNCHANGED <<server, latest, up, guideVars>>
    BY <1>0, <1>1, GuideSame
  <1>2. CASE Serve
    <2>1. /\ server' \in Pages /\ UNCHANGED <<up, guideVars>>
          /\ IF server' \in Published THEN server' >= latest /\ latest' = server' ELSE UNCHANGED latest
      BY <1>2 DEF Serve
    <2>2. latest' \in {0} \cup Published /\ latest' >= latest
      BY <1>0, <2>1 DEF GuideInv
    <2> QED BY <1>0, <2>1, <2>2 DEF GuideInv
  <1>3. CASE Refresh
    <2>1. up /\ up' /\ writing = None /\ looked' = TRUE /\ UNCHANGED <<server, latest>>
      BY <1>3 DEF Refresh
    <2>2. CASE server \in Published
      <3>1. /\ guide' = server
            /\ \/ writing' = server /\ guideFile' = Cut
               \/ uncached' = TRUE /\ UNCHANGED <<writing, guideFile>>
        BY <1>3, <2>2 DEF Refresh, Parsed
      <3> QED BY <1>0, <2>1, <2>2, <3>1 DEF GuideInv
    <2>3. CASE server = NoProgrammes
      <3>1. /\ guide' = guide
            /\ \/ writing' = NoProgrammes /\ guideFile' = Cut
               \/ uncached' = TRUE /\ UNCHANGED <<writing, guideFile>>
        <4>1. NoProgrammes \notin Published
          BY PageTypes
        <4>2. guide' = Parsed(server) /\ Parsed(server) = guide
          BY <1>3, <2>3, <4>1 DEF Refresh, Parsed
        <4> QED BY <1>3, <2>3, <4>1, <4>2 DEF Refresh
      <3> QED BY <1>0, <2>1, <2>3, <3>1 DEF GuideInv
    <2>4. CASE server \notin Published \cup {NoProgrammes}
      <3>1. guide' = Parsed(guideFile) /\ UNCHANGED <<writing, guideFile, uncached>>
        BY <1>3, <2>4 DEF Refresh
      <3>2. CASE guideFile \in Published
        BY <1>0, <2>1, <3>1, <3>2 DEF GuideInv, Parsed
      <3>3. CASE guideFile \notin Published
        BY <1>0, <2>1, <3>1, <3>3 DEF GuideInv, Parsed
      <3> QED BY <3>2, <3>3
    <2> QED BY <2>2, <2>3, <2>4
  <1>4. CASE FinishGuide
    <2>1. /\ writing # None /\ writing' = None
          /\ UNCHANGED <<server, latest, up, guide, looked>>
          /\ \/ guideFile' = writing /\ uncached' = FALSE
             \/ uncached' = TRUE /\ UNCHANGED guideFile
      BY <1>4 DEF FinishGuide
    <2> QED BY <1>0, <2>1 DEF GuideInv
  <1>5. CASE Stop
    <2>1. /\ ~up' /\ guide' = 0 /\ looked' = FALSE /\ writing' = None
          /\ UNCHANGED <<server, latest, guideFile>>
      BY <1>5 DEF Stop
    <2> QED BY <1>0, <2>1 DEF GuideInv
  <1>6. CASE Start
    <2>1. up' /\ ~up /\ UNCHANGED <<server, latest, guide, looked, writing, guideFile, uncached>>
      BY <1>6 DEF Start
    <2> QED BY <1>0, <2>1 DEF GuideInv
  <1>7. CASE Tick \/ Replan
    BY <1>1, <1>7 DEF Tick, Replan
  <1>8. CASE SweepBegins \/ (\E s \in Services : Hear(s) \/ HearSpliced(s)) \/ SweepEnds
              \/ StartSave \/ FinishSave
    BY <1>1, <1>8 DEF SweepBegins, Hear, HearSpliced, SweepEnds, StartSave, FinishSave
  <1>9. CASE UNCHANGED vars
    BY <1>1, <1>9 DEF vars
  <1> QED BY <1>2, <1>3, <1>4, <1>5, <1>6, <1>7, <1>8, <1>9 DEF Next

-----------------------------------------------------------------------------
(* The first start satisfies both.                                         *)
LEMMA InitInv == Init => StoreInv /\ GuideInv
  <1> SUFFICES ASSUME Init PROVE StoreInv /\ GuideInv
    OBVIOUS
  <1>1. Types
    BY EpgAssumption DEF Init, Types, Empty, Unsaid
  <1>2. PlanOk
    <2>1. \A s \in Services : epg[s] = {} /\ file[s] = {} /\ heard[s] = {}
      BY DEF Init, Empty
    <2> QED BY <2>1 DEF PlanOk
  <1>3. CacheOk
    BY DEF Init, CacheOk
  <1>4. GuideInv
    BY PageTypes DEF Init, GuideInv, Pages
  <1> QED BY <1>1, <1>2, <1>3, <1>4 DEF StoreInv

(* Whatever sweeps missed, however long ago they were, and through any     *)
(* restarts: while the plan stays, now is on and next is next to begin.    *)
THEOREM BarIsTrue == Spec => []NowIsTrue
  <1>1. StoreInv => NowIsTrue
    <2> SUFFICES ASSUME StoreInv, NEW s \in Services, up, asOf[s] = replans
                 PROVE  LET b == NowNext(epg[s], now)
                        IN /\ b.now # None => b.now \in Present(s)
                           /\ b.next # None => b.next \in Following(s)
      BY DEF NowIsTrue
    <2> DEFINE on    == {e \in epg[s] : OnAt(e, now)}
               after == {e \in epg[s] : e.start > now}
    <2>1. /\ \A e \in epg[s] : e \in Event /\ Planned(e, s)
          /\ now \in Nat
      BY DEF StoreInv, Types, PlanOk
    <2>2. NowNext(epg[s], now).now = Current(on) /\ NowNext(epg[s], now).next = Upcoming(after)
      BY DEF NowNext
    <2>3. ASSUME on # {} PROVE Current(on) \in Present(s)
      <3>1. on \in SUBSET Event /\ \A e \in on : e.start <= now
        BY <2>1 DEF OnAt
      <3>2. \E e \in on : \A f \in on : f.start <= e.start
        BY <2>1, <2>3, <3>1, LatestExists
      <3>3. Current(on) \in on
        BY <2>3, <3>2 DEF Current
      <3> QED BY <3>3, <2>1 DEF Planned, Present
    <2>4. ASSUME after # {} PROVE Upcoming(after) \in Following(s)
      <3>1. \A e \in after : e \in Following(s) /\ e \in plan[s] /\ e.start > now
        BY <2>1 DEF Planned
      <3>2. \A e, f \in after : e.start <= f.start
        BY <3>1 DEF Following
      <3>3. Upcoming(after) \in after
        BY <2>4, <3>2 DEF Upcoming
      <3> QED BY <3>1, <3>3
    <2>5. on = {} => Current(on) = None
      BY DEF Current
    <2>6. after = {} => Upcoming(after) = None
      BY DEF Upcoming
    <2> HIDE DEF on, after
    <2> QED BY <2>2, <2>3, <2>4, <2>5, <2>6
  <1> QED BY InitInv, StoreStep, <1>1, PTL DEF Spec

(* epg.json can always be read, and a restart without the guide's server   *)
(* brings back what the bar showed.                                        *)
THEOREM BarIsKept == Spec => []BarSurvives
  <1>1. StoreInv /\ GuideInv => BarSurvives
    <2> SUFFICES ASSUME StoreInv, GuideInv PROVE BarSurvives
      OBVIOUS
    <2>1. file # Cut
      BY EpgAssumption DEF StoreInv, Types
    <2>2. Restored = [s \in Services |-> Prune(file[s], now, Hour)]
      BY <2>1 DEF Restored
    <2>3. ASSUME up, sweep \in {"idle", "listen"}, ~unsaved, looked, writing = None,
                 guideFile # NoProgrammes, ~uncached, NEW s \in Services
          PROVE  Bar(s, Restored, guideFile) = Bar(s, epg, guide)
      <3>1. Prune(file[s], now, Hour) = Prune(epg[s], now, Hour)
        BY <2>3 DEF StoreInv, CacheOk
      <3>2. NowNext(Prune(epg[s], now, Hour), now) = NowNext(epg[s], now)
        BY PruneKeeps DEF StoreInv, Types
      <3>3. NowNext(Restored[s], now) = NowNext(epg[s], now)
        BY <2>2, <3>1, <3>2
      <3>4. guide = IF guideFile \in Published THEN guideFile ELSE 0
        BY <2>3 DEF GuideInv
      <3>5. 0 \notin Published
        BY PageTypes
      <3> QED BY <3>3, <3>4, <3>5 DEF Bar
    <2> QED BY <2>1, <2>3 DEF BarSurvives
  <1>2. GuideInv /\ [Next]_vars => GuideInv'
    BY GuideStep
  <1> QED BY InitInv, StoreStep, <1>1, <1>2, PTL DEF Spec

(* While the program runs it never goes back to an older guide or to none. *)
THEOREM GuideStays == Spec => GuideKept
  <1>1. GuideInv /\ [Next]_vars => GuideInv' /\ [up /\ up' /\ (uncached => guideFile = Cut) => guide' >= guide]_guide
    BY GuideStep
  <1> QED BY InitInv, <1>1, PTL DEF Spec, GuideKept

=============================================================================
