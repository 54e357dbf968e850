------------------------------ MODULE EpgStore -------------------------------
(***************************************************************************)
(* What the info bar knows of programmes (eit.go, xmltv.go, nowNext of     *)
(* ui.go): the now/next store that sweeps of a mux fill from the           *)
(* broadcast, the XMLTV guide that stands in where the store has nothing,  *)
(* and the cached copy of each, through sweeps that miss sections, a       *)
(* broadcaster who changes the plan, servers that are down, and restarts.  *)
(*                                                                         *)
(* One mux: its services' keys are never shared with another's.  Sweeps    *)
(* of a mux exclude each other (expandSem, see TunerBudget), so there is   *)
(* at most one, and its save is not raced by another.  A guide is named by *)
(* its place in the sequence the server publishes, 0 standing for none.    *)
(***************************************************************************)
EXTENDS EpgEvents, Sequences

CONSTANTS
    Services,      \* services of the mux
    Plans,         \* what the broadcaster may plan: [Services -> sets of events]
    Misread,       \* events a spliced section may read as
    Guides,        \* the guides the server publishes, one after the other
    NoProgrammes,  \* a page that parses and has no programme in the window
    Down,          \* the server does not answer, or with a page that does not parse
    Cut,           \* a file whose writing was cut short; it does not parse
    LastSlot,      \* bound: the clock stops there
    Hour,          \* slots in an hour
    MaxReplans,    \* bound: changes of the plan
    MaxOutages,    \* bound: changes of the guide server
    MaxStops,      \* bound: ends of the program
    MaxFaults      \* bound: sections spliced and writes that fail

Event == Misread \cup UNION {p[s] : p \in Plans, s \in Services}

Published == 1..Len(Guides)

Pages == Published \cup {NoProgrammes, Down}

ASSUME EpgAssumption ==
    /\ Plans \subseteq [Services -> SUBSET [start : Nat, dur : Nat, title : STRING]]
    /\ Misread \subseteq [start : Nat, dur : Nat, title : STRING]
    /\ Guides \in Seq([Services -> SUBSET [start : Nat, dur : Nat, title : STRING]]) \ {<<>>}
    /\ LastSlot \in Nat /\ Hour \in Nat
    /\ MaxReplans \in Nat /\ MaxOutages \in Nat
    /\ MaxStops \in Nat /\ MaxFaults \in Nat
    /\ None \notin Event
    /\ {None, NoProgrammes, Down, Cut} \cap Int = {}
    /\ Cut \notin [Services -> SUBSET Event] \cup {NoProgrammes}

VARIABLES
    now,         \* the clock
    plan,        \* the broadcaster's plan
    replans,     \* changes of it so far
    server,      \* what a fetch of the guide gets
    latest,      \* the latest guide it published so far
    outages,     \* changes of it so far
    up,          \* the program runs
    stops,       \* how often it ended
    faults,      \* how often a section was spliced or a write failed
    epg,         \* epgData
    asOf,        \* the plan each service's events are of (not in the code)
    sweep,       \* the sweep: "idle", "listen", "save" or "write"
    heard,       \* updated, what this sweep collected
    began,       \* the plan when it began (not in the code)
    spliced,     \* the services a spliced section was taken for (not in the code)
    file,        \* epg.json
    fileOf,      \* the plan its events are of (not in the code)
    unsaved,     \* the last save of this run failed (not in the code)
    guide,       \* xmltvData
    looked,      \* startXMLTV has refreshed once
    writing,     \* the page cacheXMLTV is writing, None when it is not
    guideFile,   \* epg_xmltv.xml.gz
    uncached     \* the last cacheXMLTV of this run failed (not in the code)

clock     == <<now, plan, replans, server, latest, outages>>
running   == <<up, stops, faults>>
sweepVars == <<epg, asOf, sweep, heard, began, spliced>>
fileVars  == <<file, fileOf, unsaved>>
guideVars == <<guide, looked, writing, guideFile, uncached>>
vars      == <<clock, running, sweepVars, fileVars, guideVars>>

Empty  == [s \in Services |-> {}]
Unsaid == [s \in Services |-> 0]
NoPlan == -1   \* what the events of a spliced section are of

(* The types.                                                              *)
TypeOK ==
    /\ now \in 0..LastSlot
    /\ plan \in Plans /\ replans \in 0..MaxReplans
    /\ server \in Pages /\ latest \in {0} \cup Published /\ outages \in 0..MaxOutages
    /\ up \in BOOLEAN /\ stops \in 0..MaxStops /\ faults \in 0..MaxFaults
    /\ epg \in [Services -> SUBSET Event] /\ heard \in [Services -> SUBSET Event]
    /\ asOf \in [Services -> {NoPlan} \cup 0..MaxReplans] /\ began \in 0..MaxReplans
    /\ spliced \subseteq Services
    /\ sweep \in {"idle", "listen", "save", "write"}
    /\ file \in [Services -> SUBSET Event] \cup {Cut}
    /\ fileOf \in [Services -> {NoPlan} \cup 0..MaxReplans] /\ unsaved \in BOOLEAN
    /\ guide \in {0} \cup Published /\ looked \in BOOLEAN
    /\ writing \in {None, NoProgrammes} \cup Published
    /\ guideFile \in {0, Cut, NoProgrammes} \cup Published /\ uncached \in BOOLEAN

(* The first start: no cache, and a plan on the air.                       *)
Init ==
    /\ now = 0 /\ plan \in Plans /\ replans = 0
    /\ \/ server = Down /\ latest = 0
       \/ server = 1 /\ latest = 1
    /\ outages = 0
    /\ up = TRUE /\ stops = 0 /\ faults = 0
    /\ epg = Empty /\ asOf = Unsaid
    /\ sweep = "idle" /\ heard = Empty /\ began = 0 /\ spliced = {}
    /\ file = Empty /\ fileOf = Unsaid /\ unsaved = FALSE
    /\ guide = 0 /\ looked = FALSE /\ writing = None /\ guideFile = 0 /\ uncached = FALSE

-----------------------------------------------------------------------------
(* The world.                                                              *)

Tick == /\ now < LastSlot
        /\ now' = now + 1
        /\ UNCHANGED <<plan, replans, server, latest, outages>>
        /\ UNCHANGED <<running, sweepVars, fileVars, guideVars>>

(* The broadcaster changes what is on or what comes.                       *)
Replan == /\ replans < MaxReplans
          /\ plan' \in Plans \ {plan}
          /\ replans' = replans + 1
          /\ UNCHANGED <<now, server, latest, outages, running, sweepVars, fileVars, guideVars>>

(* The guide server goes down, comes back, serves a page that is of no     *)
(* use, or publishes another guide, never one older than the last.         *)
Serve == /\ outages < MaxOutages
         /\ outages' = outages + 1
         /\ server' \in Pages \ {server}
         /\ IF server' \in Published
            THEN server' >= latest /\ latest' = server'
            ELSE UNCHANGED latest
         /\ UNCHANGED <<now, plan, replans, running, sweepVars, fileVars, guideVars>>

(* A packet is lost, or the disk is full or cannot be written to.          *)
Fault == faults < MaxFaults /\ faults' = faults + 1

(* The two sections the mux repeats for a service: what is on and what     *)
(* follows it; either may have no event.                                   *)
Present(s) == {e \in plan[s] : OnAt(e, now)}

Following(s) == {e \in plan[s] : /\ e.start > now
                                 /\ \A f \in plan[s] : f.start > now => e.start <= f.start}

-----------------------------------------------------------------------------
(* epgSweepMux.                                                            *)

(* dialSatIPBytes; a dial that fails is a sweep that hears nothing.        *)
SweepBegins ==
    /\ up /\ sweep = "idle"
    /\ sweep' = "listen" /\ heard' = Empty /\ began' = replans /\ spliced' = {}
    /\ UNCHANGED <<clock, running, epg, asOf, fileVars, guideVars>>

(* asm.feed completes a section, and it is merged with those before.       *)
Hear(s) ==
    /\ sweep = "listen"
    /\ \E section \in {Present(s), Following(s)} :
          /\ section # {}
          /\ heard' = [heard EXCEPT ![s] = MergeEvents(@, section)]
    /\ UNCHANGED <<clock, running, epg, asOf, sweep, began, spliced, fileVars, guideVars>>

(* After a loss feed puts the rest of one section behind the beginning of  *)
(* another, and nothing checks it: it may read as any event of any         *)
(* service.                                                                *)
HearSpliced(s) ==
    /\ sweep = "listen" /\ Fault
    /\ spliced' = spliced \cup {s}
    /\ \E e \in Misread : heard' = [heard EXCEPT ![s] = MergeEvents(@, {e})]
    /\ UNCHANGED <<clock, up, stops, epg, asOf, sweep, began, fileVars, guideVars>>

(* The plan what is kept of each service is of, once a sweep is merged.    *)
HeardOf == [s \in Services |-> IF heard[s] = {} THEN asOf[s]
                               ELSE IF s \in spliced THEN NoPlan ELSE began]

(* After five seconds, or when the stream ends: what was heard of a        *)
(* service replaces what was known of it, and nothing else changes.        *)
SweepEnds_Merges ==
    /\ sweep = "listen"
    /\ IF heard = Empty
       THEN sweep' = "idle" /\ UNCHANGED <<epg, asOf>>
       ELSE /\ sweep' = "save"
            /\ epg'  = [s \in Services |-> MergeEvents(epg[s], heard[s])]
            /\ asOf' = HeardOf
    /\ heard' = Empty
    /\ UNCHANGED <<clock, running, began, spliced, fileVars, guideVars>>

SweepEnds ==
    /\ sweep = "listen"
    /\ IF heard = Empty
       THEN sweep' = "idle" /\ UNCHANGED <<epg, asOf>>
       ELSE /\ sweep' = "save"
            /\ epg'  = [s \in Services |-> IF heard[s] = {} THEN epg[s] ELSE heard[s]]
            /\ asOf' = HeardOf
    /\ heard' = Empty
    /\ UNCHANGED <<clock, running, began, spliced, fileVars, guideVars>>

(* saveEPGCache: the events still of use, written beside the cache ...     *)
StartSave_InPlace ==
    /\ sweep = "save"
    /\ sweep' = "write"
    /\ file' = Cut
    /\ UNCHANGED <<clock, running, epg, asOf, heard, began, spliced, fileOf, unsaved, guideVars>>

StartSave ==
    /\ sweep = "save"
    /\ sweep' = "write"
    /\ UNCHANGED <<clock, running, epg, asOf, heard, began, spliced, fileVars, guideVars>>

(* ... and renamed over it, unless either fails, which nobody is told.     *)
(* The code pruned them a moment ago, at StartSave; what it kept more of,  *)
(* the next prune leaves out.                                              *)
FinishSave ==
    /\ sweep = "write"
    /\ sweep' = "idle"
    /\ \/ /\ file' = [s \in Services |-> Prune(epg[s], now, Hour)]
          /\ fileOf' = asOf /\ unsaved' = FALSE /\ UNCHANGED faults
       \/ Fault /\ unsaved' = TRUE /\ UNCHANGED <<file, fileOf>>
    /\ UNCHANGED <<clock, up, stops, epg, asOf, heard, began, spliced, guideVars>>

-----------------------------------------------------------------------------
(* startXMLTV.                                                             *)

(* parseXMLTV: the store is replaced unless nothing was kept.              *)
Parsed_Swaps(page) == IF page \in Published THEN page ELSE 0

Parsed(page) == IF page \in Published THEN page ELSE guide

(* refresh, at the start and every six hours, which here is any time.      *)
(* cacheXMLTV begins by emptying the file, or cannot open it; without a    *)
(* page that parses the copy there is parsed instead.                      *)
Refresh ==
    /\ up /\ writing = None
    /\ looked' = TRUE
    /\ \/ /\ server \in Published \cup {NoProgrammes}
          /\ guide' = Parsed(server)
          /\ \/ writing' = server /\ guideFile' = Cut /\ UNCHANGED <<uncached, faults>>
             \/ Fault /\ uncached' = TRUE /\ UNCHANGED <<writing, guideFile>>
       \/ /\ server \notin Published \cup {NoProgrammes}
          /\ guide' = Parsed(guideFile)
          /\ UNCHANGED <<writing, guideFile, uncached, faults>>
    /\ UNCHANGED <<clock, up, stops, sweepVars, fileVars>>

(* The page is written, or the disk is full and only some of it is.        *)
FinishGuide ==
    /\ writing # None
    /\ writing' = None
    /\ \/ guideFile' = writing /\ uncached' = FALSE /\ UNCHANGED faults
       \/ Fault /\ uncached' = TRUE /\ UNCHANGED guideFile
    /\ UNCHANGED <<clock, up, stops, sweepVars, fileVars, guide, looked>>

-----------------------------------------------------------------------------
(* The program.                                                            *)

(* It ends, at any point: the stores are gone, the files stay as they are. *)
Stop ==
    /\ up /\ stops < MaxStops
    /\ up' = FALSE /\ stops' = stops + 1
    /\ epg' = Empty /\ asOf' = Unsaid
    /\ sweep' = "idle" /\ heard' = Empty /\ spliced' = {}
    /\ guide' = 0 /\ looked' = FALSE /\ writing' = None
    /\ unsaved' = FALSE /\ uncached' = FALSE
    /\ UNCHANGED <<clock, faults, began, file, fileOf, guideFile>>

(* loadEPGCache, of the events still of use; startXMLTV begins.            *)
Restored == IF file = Cut THEN Empty ELSE [s \in Services |-> Prune(file[s], now, Hour)]

Start ==
    /\ ~up
    /\ up' = TRUE
    /\ epg' = Restored /\ asOf' = fileOf
    /\ UNCHANGED <<clock, stops, faults, sweep, heard, began, spliced, fileVars, guideVars>>

Next ==
    \/ Tick \/ Replan \/ Serve
    \/ SweepBegins \/ (\E s \in Services : Hear(s) \/ HearSpliced(s)) \/ SweepEnds
    \/ StartSave \/ FinishSave
    \/ Refresh \/ FinishGuide
    \/ Stop \/ Start

Spec == Init /\ [][Next]_vars

-----------------------------------------------------------------------------
(* Properties.                                                             *)

(* nowNext: the guide stands in where the broadcast has neither.           *)
Bar(s, events, g) ==
    LET b == NowNext(events[s], now)
    IN IF b = Nothing /\ g \in Published THEN NowNext(Guides[g][s], now) ELSE b

(* As long as the broadcaster does not change the plan a sweep began with, *)
(* what the store gives as now is on, and what it gives as next is the     *)
(* next to begin: whatever sections the sweep missed, however long ago it  *)
(* was, whatever an earlier sweep left, and through restarts.  Only a      *)
(* section spliced after a loss may put anything there, until a later      *)
(* sweep hears of the service (README).                                    *)
NowIsTrue ==
    \A s \in Services :
        up /\ asOf[s] = replans =>
            LET b == NowNext(epg[s], now)
            IN /\ b.now # None => b.now \in Present(s)
               /\ b.next # None => b.next \in Following(s)

(* At any moment epg.json can be read, and while no store is on its way to *)
(* its cache, a restart with the guide server out of reach brings back the *)
(* bar as it was: the pruning at both ends loses nothing the bar needs,    *)
(* and a save that never ended, or failed, leaves the last good one, which *)
(* is that of an earlier bar until a save succeeds.  A guide without       *)
(* programmes takes the good copy's place, a guide that cannot be written  *)
(* leaves an older or none, and both are left out (README).                *)
BarSurvives ==
    /\ file # Cut
    /\ /\ up /\ sweep \in {"idle", "listen"} /\ ~unsaved
       /\ looked /\ writing = None /\ guideFile # NoProgrammes /\ ~uncached
       => \A s \in Services : Bar(s, Restored, guideFile) = Bar(s, epg, guide)

(* While the program runs it never goes back to an older guide or to none: *)
(* not for a server that is down, a page cut short, a page without         *)
(* programmes, or a cached copy of either; except to an older copy that    *)
(* could not be written over (README).                                     *)
GuideKept == [][up /\ up' /\ (uncached => guideFile = Cut) => guide' >= guide]_guide
=============================================================================
