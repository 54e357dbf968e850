----------------------------- MODULE SourceWatch -----------------------------
(***************************************************************************)
(* The two channel sources (loadChannels of m3u.go, discoverFritz of       *)
(* discover.go, watchSources of netwatch.go): main loads the public list,  *)
(* or its cached copy; then a goroutine looks for the Fritz!Box at start,  *)
(* after every change of the host's addresses and while none is found,     *)
(* fetches the public list after such a change and while it has none, and  *)
(* sends what it finds to the main loop over a channel it never blocks on. *)
(*                                                                         *)
(* A network is named by its signature.  A probe and a fetch answer from   *)
(* the network they run on, which may be another by the time the goroutine *)
(* goes on.  The timers (15 s and 30 s) may have run out at any tick.      *)
(***************************************************************************)
EXTENDS Playlist

CONSTANTS
    Networks,    \* the networks the host may be on
    BoxPage,     \* the list of the box on each, <<>> where there is none
    Announced,   \* the networks where only SSDP leads to the box
    OtherPage,   \* what else answers on each at the addresses tried first
    PublicPages, \* what the server of the public list may serve
    Down,        \* or that it does not answer
    None,        \* no network yet
    Cap,         \* capacity of the update channel
    MaxChanges,  \* bound: changes of the environment
    MaxStops     \* bound: ends of the program

ASSUME WatchAssumption ==
    /\ DOMAIN BoxPage = Networks /\ DOMAIN OtherPage = Networks
    /\ Announced \subseteq Networks
    /\ Down \notin PublicPages /\ None \notin Networks
    /\ Cap \in Nat \ {0} /\ MaxChanges \in Nat /\ MaxStops \in Nat

VARIABLES
    discover,    \* FALSE with an explicit -url
    net,         \* the network the host is on
    boxUp,       \* the boxes are switched on
    page,        \* what a fetch of the public list gets
    changes,     \* changes of these so far (a bound)
    pc,          \* the program: "off", main's "load" and "save", the goroutine
    stops,       \* how often it ended (a bound)
    sig,         \* networkSignature() of its last tick
    moved,       \* the network has changed since the last time a tick saw it
                 \* change (not in the code)
    want,        \* what this tick refreshes
    found,       \* what discoverFritz answered
    fetched,     \* the page in hand
    haveLocal, havePublic,
    cache,       \* tv.m3u, <<>> when there is none
    kept,        \* a list was cached, and nothing ListSurvives excepts has
                 \* happened since (not in the code)
    out,         \* the update channel
    dropped,     \* an update was dropped (not in the code)
    uiLocal, uiPublic   \* ui.localChans and ui.publicChans

env      == <<discover, net, boxUp, page, changes>>
watch    == <<moved, sig, want, found>>
beliefs  == <<haveLocal, havePublic>>
disk     == <<cache, kept>>
sent     == <<out, dropped>>
shown    == <<uiLocal, uiPublic>>
vars     == <<env, pc, stops, watch, fetched, beliefs, disk, sent, shown>>

Local(chs)  == [local |-> chs]
Public(chs) == [public |-> chs]

(* A page that is the list, and not another one that happens to parse.     *)
Good(p) == HasHeader(p) /\ ParseM3U(p) # <<>>

BoxList(n) == ProbeOne(BoxPage[n])

(* What a discovery may find on a network.                                 *)
ListsOf(n) == {BoxList(n), ProbeOne(OtherPage[n])}

Nothing == [public |-> FALSE, local |-> FALSE]

(* The first start: no cache.                                              *)
Init ==
    /\ discover \in BOOLEAN
    /\ net \in Networks /\ boxUp \in BOOLEAN /\ page \in PublicPages \cup {Down}
    /\ changes = 0
    /\ pc = "load" /\ stops = 0
    /\ sig = None /\ moved = FALSE /\ want = Nothing /\ found = <<>> /\ fetched = <<>>
    /\ haveLocal = FALSE /\ havePublic = FALSE
    /\ cache = <<>> /\ kept = FALSE
    /\ out = <<>> /\ dropped = FALSE
    /\ uiLocal = <<>> /\ uiPublic = <<>>

Running == pc \notin {"off", "load", "save"}

Reachable == boxUp /\ BoxList(net) # <<>>

-----------------------------------------------------------------------------
(* The environment.                                                        *)

Change ==
    /\ changes < MaxChanges
    /\ changes' = changes + 1
    /\ \/ net' \in Networks \ {net} /\ moved' = (pc # "off") /\ UNCHANGED <<boxUp, page>>
       \/ boxUp' = ~boxUp /\ UNCHANGED <<net, page, moved>>
       \/ page' \in (PublicPages \cup {Down}) \ {page} /\ UNCHANGED <<net, boxUp, moved>>
    /\ UNCHANGED <<discover, pc, stops, sig, want, found, fetched, beliefs, disk, sent, shown>>

-----------------------------------------------------------------------------
(* loadChannels, on the main thread before there is a window.              *)

(* A page that was fetched is cached before it is looked at; without one   *)
(* the cached copy is parsed.  The goroutine starts with the answer.       *)
Load ==
    /\ pc = "load"
    /\ IF page # Down
       THEN /\ pc' = "save" /\ fetched' = page
            /\ UNCHANGED <<havePublic, uiPublic>>
       ELSE /\ pc' = "start" /\ fetched' = <<>>
            /\ uiPublic' = ParseM3U(cache) /\ havePublic' = (uiPublic' # <<>>)
    /\ UNCHANGED <<env, stops, watch, haveLocal, disk, sent, uiLocal>>

(* cacheM3U, whose errors are ignored: the page is written, or nothing, or *)
(* the lines of it that there was room for.                                *)
CacheM3U(unspoilt) ==
    \/ cache' = fetched /\ kept' = unspoilt
    \/ UNCHANGED cache /\ kept' = (kept /\ unspoilt)
    \/ /\ \E n \in 0..Len(fetched) : cache' = SubSeq(fetched, 1, n)
       /\ kept' = FALSE

Save ==
    /\ pc = "save"
    /\ CacheM3U(Good(fetched))
    /\ uiPublic' = ParseM3U(fetched) /\ havePublic' = (uiPublic' # <<>>)
    /\ pc' = "start" /\ fetched' = <<>>
    /\ UNCHANGED <<env, stops, watch, haveLocal, sent, uiLocal>>

-----------------------------------------------------------------------------
(* The goroutine.                                                          *)

(* The update is dropped when the channel is full.                         *)
Send(u) == IF Len(out) < Cap
           THEN out' = Append(out, u) /\ UNCHANGED dropped
           ELSE dropped' = TRUE /\ UNCHANGED out

(* probeCandidates: the first list that comes, of the pages that answer;   *)
(* <<>> when none is a list.                                               *)
ProbeCandidates(pages) ==
    LET lists == {ProbeOne(p) : p \in pages} \ {<<>>}
    IN IF lists = {} THEN {<<>>} ELSE lists

BoxAnswers(n) == IF boxUp THEN {BoxPage[n]} ELSE {}

(* runDiscovery up to the answer of discoverFritz: the name of the box,    *)
(* its factory address and the gateway are tried at once ...               *)
Probe ==
    /\ pc = "start" \/ (pc = "probe" /\ want.local)
    /\ discover
    /\ found' \in ProbeCandidates({OtherPage[net]} \cup IF net \in Announced THEN {} ELSE BoxAnswers(net))
    /\ pc' = IF found' = <<>> THEN "ssdp" ELSE "report"
    /\ UNCHANGED <<env, stops, moved, sig, want, fetched, beliefs, disk, sent, shown>>

(* ... and the hosts that answer an SSDP search after them.                *)
ProbeAnnounced ==
    /\ pc = "ssdp"
    /\ found' \in ProbeCandidates(BoxAnswers(net))
    /\ pc' = "report"
    /\ UNCHANGED <<env, stops, moved, sig, want, fetched, beliefs, disk, sent, shown>>

(* The signature is taken after the first discovery only.                  *)
AfterDiscovery == IF sig = None THEN "sign" ELSE "wait"

(* Nothing to discover.                                                    *)
SkipProbe ==
    /\ \/ pc = "start" /\ ~discover
       \/ pc = "probe" /\ (~want.local \/ ~discover)
    /\ pc' = AfterDiscovery
    /\ UNCHANGED <<env, stops, watch, fetched, beliefs, disk, sent, shown>>

(* The rest of runDiscovery: a box found is sent, and so is the loss of    *)
(* one that had been found.                                                *)
Report_StillHave ==
    /\ pc = "report"
    /\ pc' = AfterDiscovery
    /\ \/ found # <<>> /\ haveLocal' = TRUE /\ Send(Local(found))
       \/ found = <<>> /\ haveLocal /\ UNCHANGED haveLocal /\ Send(Local(<<>>))
       \/ found = <<>> /\ ~haveLocal /\ UNCHANGED <<haveLocal, sent>>
    /\ UNCHANGED <<env, stops, watch, fetched, havePublic, disk, shown>>

Report ==
    /\ pc = "report"
    /\ pc' = AfterDiscovery
    /\ \/ found # <<>> /\ haveLocal' = TRUE /\ Send(Local(found))
       \/ found = <<>> /\ haveLocal /\ haveLocal' = FALSE /\ Send(Local(<<>>))
       \/ found = <<>> /\ ~haveLocal /\ UNCHANGED <<haveLocal, sent>>
    /\ UNCHANGED <<env, stops, watch, fetched, havePublic, disk, shown>>

Sign ==
    /\ pc = "sign"
    /\ sig' = net
    /\ pc' = "wait"
    /\ UNCHANGED <<env, stops, moved, want, found, fetched, beliefs, disk, sent, shown>>

(* A tick: what changed, and what is retried because its time has come.    *)
Wanted_OnChange(changed, duePublic, dueLocal) == [public |-> changed, local |-> changed]

Wanted_OnRetry(changed, duePublic, dueLocal) ==
    [public |-> changed \/ (~havePublic /\ duePublic),
     local  |-> ~haveLocal /\ (changed \/ dueLocal)]

Wanted(changed, duePublic, dueLocal) ==
    [public |-> changed \/ (~havePublic /\ duePublic),
     local  |-> changed \/ (~haveLocal /\ dueLocal)]

Tick(duePublic, dueLocal) ==
    /\ pc = "wait"
    /\ sig' = net
    /\ want' = Wanted(net # sig, duePublic, dueLocal)
    /\ moved' = (moved /\ net = sig)
    /\ pc' = "fetch"
    /\ UNCHANGED <<env, stops, found, fetched, beliefs, disk, sent, shown>>

(* fetchPublic: only a page with channels is cached, and then sent.        *)
Fetch_CachesFirst ==
    /\ pc = "fetch"
    /\ IF want.public /\ page # Down
       THEN pc' = "cache" /\ fetched' = page
       ELSE pc' = "probe" /\ UNCHANGED fetched
    /\ UNCHANGED <<env, stops, watch, beliefs, disk, sent, shown>>

Fetch ==
    /\ pc = "fetch"
    /\ IF want.public /\ page # Down /\ ParseM3U(page) # <<>>
       THEN pc' = "cache" /\ fetched' = page
       ELSE pc' = "probe" /\ UNCHANGED fetched
    /\ UNCHANGED <<env, stops, watch, beliefs, disk, sent, shown>>

Cache ==
    /\ pc = "cache"
    /\ CacheM3U(Good(fetched) \/ (kept /\ ParseM3U(fetched) = <<>>))
    /\ havePublic' = TRUE /\ Send(Public(ParseM3U(fetched)))
    /\ pc' = "probe" /\ fetched' = <<>>
    /\ UNCHANGED <<env, stops, watch, haveLocal, shown>>

Watcher == \/ Probe \/ ProbeAnnounced \/ SkipProbe \/ Report \/ Sign \/ Fetch \/ Cache
           \/ \E duePublic, dueLocal \in BOOLEAN : Tick(duePublic, dueLocal)

-----------------------------------------------------------------------------
(* The main loop takes one update per turn (setPublic, setLocal).          *)
Receive ==
    /\ out # <<>>
    /\ out' = Tail(out)
    /\ LET u == Head(out)
       IN IF "public" \in DOMAIN u
          THEN uiPublic' = u.public /\ UNCHANGED uiLocal
          ELSE uiLocal' = u.local /\ UNCHANGED uiPublic
    /\ UNCHANGED <<env, pc, stops, watch, fetched, beliefs, disk, dropped>>

(* The program ends, at any point: os.WriteFile may have written any part  *)
(* of a page by then.                                                      *)
Stop ==
    /\ pc # "off" /\ stops < MaxStops
    /\ pc' = "off" /\ stops' = stops + 1
    /\ \/ UNCHANGED disk
       \/ /\ pc \in {"save", "cache"}
          /\ \E n \in 0..Len(fetched) : cache' = SubSeq(fetched, 1, n)
          /\ kept' = FALSE
    /\ sig' = None /\ moved' = FALSE /\ want' = Nothing /\ found' = <<>> /\ fetched' = <<>>
    /\ haveLocal' = FALSE /\ havePublic' = FALSE
    /\ out' = <<>> /\ dropped' = FALSE
    /\ uiLocal' = <<>> /\ uiPublic' = <<>>
    /\ UNCHANGED env

Start ==
    /\ pc = "off"
    /\ pc' = "load"
    /\ UNCHANGED <<env, stops, watch, fetched, beliefs, disk, sent, shown>>

Next == Change \/ Load \/ Save \/ Watcher \/ Receive \/ Stop \/ Start

Spec == Init /\ [][Next]_vars

(* Probes and fetches have timeouts, the main loop goes round, and the     *)
(* timers run out again and again.                                         *)
FairSpec == /\ Spec
            /\ WF_vars(Load) /\ WF_vars(Save) /\ WF_vars(Watcher)
            /\ SF_vars(\E due \in BOOLEAN : Tick(TRUE, due))
            /\ SF_vars(\E due \in BOOLEAN : Tick(due, TRUE))
            /\ WF_vars(Receive)

-----------------------------------------------------------------------------
(* When the network has been quiet since the refresh its last change       *)
(* caused, and every update has been applied, the local channels shown, if *)
(* any, come from this network: from its box, or from another server that  *)
(* has a list where the box is looked for.  Never those of a box left      *)
(* behind, never a page that is no list.                                   *)
NoStaleBox ==
    pc = "wait" /\ ~moved /\ out = <<>> /\ ~dropped => uiLocal \in {<<>>} \cup ListsOf(net)

(* The last list of local channels sent, which is the one shown unless it  *)
(* is still under way, is one of lists.                                    *)
LastLocalIn(lists) ==
    LET IsLocal(i) == "local" \in DOMAIN out[i]
    IN \/ uiLocal \in lists /\ \A i \in DOMAIN out : ~IsLocal(i)
       \/ \E i \in DOMAIN out : /\ IsLocal(i) /\ out[i].local \in lists
                                /\ \A j \in DOMAIN out : j > i => ~IsLocal(j)

(* While nothing was dropped, what the goroutine remembers having sent is  *)
(* what the UI shows or is about to show: its retries depend on it.        *)
ShownAsSent == ~dropped => (haveLocal <=> ~LastLocalIn({<<>>}))

(* A public list is shown, or about to be.                                 *)
ListUnderWay == \E i \in DOMAIN out : "public" \in DOMAIN out[i]

ListShown == uiPublic # <<>> \/ ListUnderWay

(* While nothing was dropped, a list that was had is on the screen or on   *)
(* its way, and without one the goroutine goes on asking.  "The last       *)
(* successfully fetched public list is cached so the app also starts when  *)
(* the source is unreachable" (README.md:51): once cached it stays, and    *)
(* every start has a list, unless since then a write was cut short by an   *)
(* error or the program's end, a start was served a page without a list,   *)
(* or the goroutine one that only looks like a list (README, section 5).   *)
ListSurvives ==
    /\ Running /\ ~dropped => (havePublic <=> ListShown)
    /\ kept => Good(cache) /\ (Running => havePublic)

(* Where a box stays reachable there is a local section, however late it   *)
(* booted and however it is found, unless an update is dropped or the move *)
(* to its network was missed (README, section 5); a public list that can   *)
(* be had is had.                                                          *)
SourcesAppear ==
    <>[]Running =>
        /\ discover /\ <>[]Reachable => \/ <>[](uiLocal \in ListsOf(net) \ {<<>>})
                                        \/ <>[]dropped \/ <>[]moved
        /\ <>[](page # Down /\ ParseM3U(page) # <<>>) => <>[](uiPublic # <<>>) \/ <>[]dropped
=============================================================================
