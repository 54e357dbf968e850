----------------------------- MODULE TunerBudget -----------------------------
(***************************************************************************)
(* The background users of the box's tuners (pmt.go and eit.go): the       *)
(* goroutines that probe channels for their pids, one per rebuild of the   *)
(* channel list; the EPG sweeper, started once and kicked by every         *)
(* rebuild; and one sweep per tuned channel.  They share expandSem, a      *)
(* channel of capacity 1, the two caches of what the probes found, and     *)
(* pids.json, where the caches are kept for the next start.                *)
(*                                                                         *)
(* A blocked send on a Go channel is served in the order of arrival, so    *)
(* the semaphore is the line of its holder and its waiters.  A session     *)
(* (dialSatIP, its ring, Close) is one step that succeeds or fails; its    *)
(* deadline ends it.  The main thread runs between the steps of rebuild    *)
(* that the workers can see.  A write of pids.json may fail, before it     *)
(* emptied the file or after; nobody is told.                              *)
(***************************************************************************)
EXTENDS Integers, Sequences

CONSTANTS
    Urls,         \* rtsp channels, by URL
    NoPids,       \* those whose URL has no pids= to expand
    Mux,          \* [Urls -> the frequency of each]; the box gives every URL one
    Lists,        \* the lists of local channels the box may show
    Files,        \* what earlier runs may have left in pids.json
    Prefetchers,  \* goroutines prefetchPIDExpansions may start (a bound)
    Tuned         \* goroutines sweepMuxNow may start (a bound)

(* The entries of pids.json: its keys, and those of them with a service.   *)
CacheFiles == {e \in [keys : SUBSET Urls, ids : SUBSET Urls] : e.ids \subseteq e.keys}
NoEntries  == [keys |-> {}, ids |-> {}]

ASSUME BudgetAssumption ==
    /\ Lists \subseteq Seq(Urls)
    /\ \A l \in Lists : \A i, j \in DOMAIN l : l[i] = l[j] => i = j
    /\ NoPids \subseteq Urls
    /\ DOMAIN Mux = Urls
    /\ Files \subseteq CacheFiles /\ \A f \in Files : f.keys \cap NoPids = {}
    /\ Prefetchers \cap Tuned = {}
    /\ "sweeper" \notin Prefetchers \cup Tuned

VARIABLES
    list,      \* the rtsp channels of ui.channels
    main,      \* the main thread: "idle", or "kick" inside startEPGSweeper
    urls,      \* epgSweepURLs
    kick,      \* epgSweepKick holds a token
    swept,     \* the URLs of the sweeper's last snapshot
    line,      \* expandSem: its holder, then the goroutines blocked on it
    pc,        \* where each goroutine is
    todo,      \* the URLs each prefetcher and the sweeper have yet to do
    expanded,  \* the keys of pidExpandCache
    service,   \* the keys of progNumCache
    entries,   \* what each goroutine is writing to the file
    file,      \* pids.json
    whole,     \* it was written to the end: a part of it does not parse
    failed     \* the last write failed (not in the code)

mainVars   == <<list, main, urls>>
workVars   == <<line, pc, todo>>
cacheVars  == <<expanded, service>>
fileVars   == <<entries, file, whole, failed>>
vars       == <<mainVars, kick, swept, workVars, cacheVars, fileVars>>

Workers == Prefetchers \cup Tuned \cup {"sweeper"}
Locs    == {"new", "next", "line", "probe", "store", "save", "write", "sweep", "snapshot",
            "wait", "done"}

(* What savePIDCache writes.                                               *)
Cached == [keys |-> expanded, ids |-> expanded \cap service]

(* The types.                                                              *)
TypeOK ==
    /\ list \in Lists
    /\ main \in {"idle", "kick"}
    /\ urls \in Seq(Urls) /\ swept \in Seq(Urls)
    /\ kick \in BOOLEAN
    /\ line \in Seq(Workers)
    /\ pc \in [Workers -> Locs]
    /\ todo \in [Workers -> Seq(Urls)]
    /\ expanded \subseteq Urls /\ service \subseteq Urls
    /\ entries \in [Prefetchers -> CacheFiles]
    /\ file \in CacheFiles /\ whole \in BOOLEAN /\ failed \in BOOLEAN

(* loadPIDCache: what a start reads from the file; nothing when it does    *)
(* not parse.  Without a service an entry still counts as expanded.        *)
Loaded == IF whole THEN file ELSE NoEntries

(* The file is what an earlier run left, which may have ended inside a     *)
(* write, or been of a version that knew no services.                      *)
Init ==
    /\ list = <<>> /\ main = "idle" /\ urls = <<>>
    /\ kick = FALSE /\ swept = <<>>
    /\ line = <<>>
    /\ pc = [w \in Workers |-> "new"]
    /\ todo = [w \in Workers |-> <<>>]
    /\ file \in Files \cup {NoEntries}
    /\ whole \in BOOLEAN /\ (~whole => file = NoEntries)
    /\ failed = FALSE
    /\ expanded = Loaded.keys /\ service = Loaded.ids
    /\ entries = [w \in Prefetchers |-> NoEntries]

-----------------------------------------------------------------------------
(* The semaphore.                                                          *)

Capacity_2 == 2
Capacity   == 1

Holds(w) == \E i \in 1..Capacity : i <= Len(line) /\ line[i] = w

Enqueue(w) == line' = Append(line, w)

(* A token is taken out, and the goroutine blocked longest is let in.      *)
Release_Forgotten == line' = line
Release           == line' = Tail(line)

Goto(w, at) == pc' = [pc EXCEPT ![w] = at]

(* The goroutine goes on to its next URL, whatever came of this one.       *)
Drop(w)      == todo' = [todo EXCEPT ![w] = Tail(@)]

-----------------------------------------------------------------------------
(* The main thread.                                                        *)

(* One URL per mux: the first in the list.                                 *)
MuxURLs(l) ==
    SelectSeq(l, LAMBDA u : \A j \in DOMAIN l : Mux[l[j]] = Mux[u] =>
                              \E i \in 1..j : l[i] = u)

(* rebuild up to startEPGSweeper's kick: a new goroutine is to prefetch    *)
(* the list, and the sweeper's URLs are replaced, if there are any; also   *)
(* when the list is the one before.                                        *)
Rebuild(new) ==
    /\ main = "idle"
    /\ list' = new
    /\ IF new = <<>>
       THEN UNCHANGED <<main, urls, pc, todo>>
       ELSE /\ \E w \in Prefetchers :
                 /\ pc[w] = "new"
                 /\ Goto(w, "next")
                 /\ todo' = [todo EXCEPT ![w] = new]
            /\ urls' = MuxURLs(new)
            /\ main' = "kick"
    /\ UNCHANGED <<kick, swept, line, cacheVars, fileVars>>

(* The rest of startEPGSweeper: the kick is dropped when one is pending,   *)
(* and the first call starts the sweeper.                                  *)
Kick_None ==
    /\ main = "kick" /\ main' = "idle"
    /\ kick' = (kick \/ pc["sweeper"] = "new")
    /\ pc' = [pc EXCEPT !["sweeper"] = IF @ = "new" THEN "wait" ELSE @]
    /\ UNCHANGED <<list, urls, swept, line, todo, cacheVars, fileVars>>

Kick ==
    /\ main = "kick" /\ main' = "idle"
    /\ kick' = TRUE
    /\ pc' = [pc EXCEPT !["sweeper"] = IF @ = "new" THEN "wait" ELSE @]
    /\ UNCHANGED <<list, urls, swept, line, todo, cacheVars, fileVars>>

(* sweepMuxNow, called when a local channel is tuned.  The mux it is for   *)
(* makes no difference to anyone here.                                     *)
SweepMuxNow ==
    /\ main = "idle" /\ list # <<>>
    /\ \E w \in Tuned : pc[w] = "new" /\ Goto(w, "line") /\ Enqueue(w)
    /\ UNCHANGED <<mainVars, kick, swept, todo, cacheVars, fileVars>>

-----------------------------------------------------------------------------
(* A prefetching goroutine.                                                *)

(* Known channels are skipped; the first unknown one sends it to the       *)
(* semaphore.                                                              *)
PrefetchNext(w) ==
    /\ pc[w] = "next"
    /\ \/ todo[w] = <<>> /\ Goto(w, "done") /\ UNCHANGED <<line, todo>>
       \/ /\ todo[w] # <<>> /\ Head(todo[w]) \in expanded
          /\ Drop(w) /\ UNCHANGED <<line, pc>>
       \/ /\ todo[w] # <<>> /\ Head(todo[w]) \notin expanded
          /\ Goto(w, "line") /\ Enqueue(w) /\ UNCHANGED todo
    /\ UNCHANGED <<mainVars, kick, swept, cacheVars, fileVars>>

(* expandChannelPIDs has nothing to do for a URL without pids, and looks   *)
(* again: another goroutine may have found the channel's pids while this   *)
(* one waited.                                                             *)
Expand_Unchecked(w) ==
    /\ pc[w] = "line" /\ Holds(w)
    /\ Goto(w, "probe") /\ UNCHANGED <<line, todo>>
    /\ UNCHANGED <<mainVars, kick, swept, cacheVars, fileVars>>

Expand(w) ==
    /\ pc[w] = "line" /\ Holds(w)
    /\ \/ /\ Head(todo[w]) \in NoPids \cup expanded
          /\ Goto(w, "next") /\ Release /\ Drop(w)
       \/ /\ Head(todo[w]) \notin NoPids \cup expanded
          /\ Goto(w, "probe") /\ UNCHANGED <<line, todo>>
    /\ UNCHANGED <<mainVars, kick, swept, cacheVars, fileVars>>

(* probeProgramPIDs stores the service it found, or fails.                 *)
Probe_StoreFirst(w) ==
    /\ pc[w] = "probe"
    /\ \/ /\ expanded' = expanded \cup {Head(todo[w])}
          /\ Goto(w, "store") /\ UNCHANGED <<line, todo, service>>
       \/ Goto(w, "next") /\ Release /\ Drop(w) /\ UNCHANGED <<expanded, service>>
    /\ UNCHANGED <<mainVars, kick, swept, fileVars>>

Probe(w) ==
    /\ pc[w] = "probe"
    /\ \/ /\ service' = service \cup {Head(todo[w])}
          /\ Goto(w, "store") /\ UNCHANGED <<line, todo>>
       \/ Goto(w, "next") /\ Release /\ Drop(w) /\ UNCHANGED service
    /\ UNCHANGED <<mainVars, kick, swept, expanded, fileVars>>

(* The expanded URL is cached,                                             *)
Store(w) ==
    /\ pc[w] = "store"
    /\ expanded' = expanded \cup {Head(todo[w])}
    /\ Goto(w, "save")
    /\ UNCHANGED <<mainVars, kick, swept, line, todo, service, fileVars>>

(* and savePIDCache reads the caches and writes the file in place: it is   *)
(* emptied first,                                                          *)
Save(w) ==
    /\ pc[w] = "save"
    /\ entries' = [entries EXCEPT ![w] = Cached]
    /\ file' = NoEntries /\ whole' = FALSE
    /\ Goto(w, "write")
    /\ UNCHANGED <<mainVars, kick, swept, line, todo, cacheVars, failed>>

(* and filled then.  The semaphore is released after that,                 *)
Written(w) ==
    /\ pc[w] = "write"
    /\ file' = entries[w] /\ whole' = TRUE /\ failed' = FALSE
    /\ entries' = [entries EXCEPT ![w] = NoEntries]
    /\ Goto(w, "next") /\ Release /\ Drop(w)
    /\ UNCHANGED <<mainVars, kick, swept, cacheVars>>

(* also when there is no such directory, the file cannot be opened or the  *)
(* disk is full: then it stays as it is, as before or cut.                 *)
SaveFails(w) ==
    /\ pc[w] \in {"save", "write"}
    /\ failed' = TRUE
    /\ entries' = [entries EXCEPT ![w] = NoEntries]
    /\ Goto(w, "next") /\ Release /\ Drop(w)
    /\ UNCHANGED <<mainVars, kick, swept, cacheVars, file, whole>>

-----------------------------------------------------------------------------
(* The sweeps.                                                             *)

(* The sweeper takes a kick, or its ten minutes are over.                  *)
Wake == /\ pc["sweeper"] = "wait"
        /\ kick' \in {kick, FALSE}
        /\ Goto("sweeper", "snapshot")
        /\ UNCHANGED <<mainVars, swept, line, todo, cacheVars, fileVars>>

Snapshot == /\ pc["sweeper"] = "snapshot"
            /\ todo' = [todo EXCEPT !["sweeper"] = urls]
            /\ swept' = urls
            /\ Goto("sweeper", "next")
            /\ UNCHANGED <<mainVars, kick, line, cacheVars, fileVars>>

SweepNext ==
    /\ pc["sweeper"] = "next"
    /\ \/ todo["sweeper"] = <<>> /\ Goto("sweeper", "wait") /\ UNCHANGED line
       \/ todo["sweeper"] # <<>> /\ Goto("sweeper", "line") /\ Enqueue("sweeper")
    /\ UNCHANGED <<mainVars, kick, swept, todo, cacheVars, fileVars>>

SweepBegins(w) == /\ pc[w] = "line" /\ Holds(w)
                  /\ Goto(w, "sweep")
                  /\ UNCHANGED <<mainVars, kick, swept, line, todo, cacheVars, fileVars>>

AfterSweep(w) == IF w = "sweeper" THEN "next" ELSE "done"

(* epgSweepMux; what it adds to the EPG store nobody here looks at.        *)
SweepEnds(w) ==
    /\ pc[w] = "sweep"
    /\ Goto(w, AfterSweep(w)) /\ Release
    /\ IF w = "sweeper" THEN Drop(w) ELSE UNCHANGED todo
    /\ UNCHANGED <<mainVars, kick, swept, cacheVars, fileVars>>

Sweeper == Wake \/ Snapshot \/ SweepNext

Step(w) == IF w \in Prefetchers
           THEN PrefetchNext(w) \/ Expand(w) \/ Probe(w) \/ Store(w) \/ Save(w) \/ Written(w) \/ SaveFails(w)
           ELSE SweepBegins(w) \/ SweepEnds(w)

Next == \/ \E new \in Lists : Rebuild(new)
        \/ Kick
        \/ SweepMuxNow
        \/ Sweeper
        \/ \E w \in Workers : Step(w)

Spec == Init /\ [][Next]_vars

(* The main thread comes back from rebuild, and goroutines that can run    *)
(* do.  A tick of the sweeper is not assumed: a pending kick is taken.     *)
FairSpec == /\ Spec
            /\ WF_vars(Kick)
            /\ WF_vars(Snapshot \/ SweepNext \/ Step("sweeper"))
            /\ WF_vars(Wake /\ kick /\ ~kick')
            /\ \A w \in Prefetchers \cup Tuned : WF_vars(Step(w))

-----------------------------------------------------------------------------
Busy == {w \in Workers : pc[w] \in {"probe", "store", "save", "write", "sweep"}}

(* "one short-lived session at a time" (pmt.go:265-266): prefetchers,      *)
(* sweeper and sweeps together use one tuner, and none of them for a       *)
(* channel whose pids are known, although several rebuilds prefetch it     *)
(* and look before they wait.                                              *)
OneSession ==
    /\ \A v, w \in Busy : v = w
    /\ \A w \in Prefetchers : pc[w] = "probe" => Head(todo[w]) \notin expanded

(* A channel played with its expanded URL has a service id, so the info    *)
(* bar finds its programme: no step leaves a channel with the one and      *)
(* without the other, even between two stores.  Only entries the file had  *)
(* without a service stay so, as they are not probed again.                *)
ServiceKnown == [][expanded' \ service' \subseteq expanded \ service]_vars

(* Except while a goroutine is storing, a restart would know the pids and  *)
(* the services the program knows: no save puts back a cache it read       *)
(* before another's.  After a write that failed it would know part of      *)
(* them, each as the program does, and the next write makes up for it.     *)
PidsKept ==
    (\A w \in Prefetchers : pc[w] \notin {"save", "write"}) =>
        /\ Loaded.keys \subseteq expanded /\ Loaded.ids = Loaded.keys \cap service
        /\ failed \/ Loaded = Cached

(* A list of muxes the sweeper has not copied yet is announced by a kick,  *)
(* or the sweeper is about to copy it: no change waits ten minutes.        *)
KickKept == urls # swept => main = "kick" \/ kick \/ pc["sweeper"] = "snapshot"

(* The sweeper gets round to the muxes of the last list.                   *)
SweeperFollows == main = "kick" ~> swept = urls

(* A tuned channel's mux is swept, and a prefetch gets through its list,   *)
(* however many are in line for the semaphore.                             *)
BackgroundEnds ==
    \A w \in Tuned \cup Prefetchers : pc[w] \in {"next", "line"} ~> pc[w] = "done"
=============================================================================
