# TLA+ models of kabel

kabel is a small TV player: a GLFW window around libmpv, a channel list made of
the Fritz!Box's cable channels (SAT>IP over RTSP/RTP) and a public IPTV list, a
prebuffer that keeps the neighbouring channels warm so that zapping is instant,
a background probe that finds each channel's subtitle and audio pids, and an EPG
collected from the broadcast itself, with an XMLTV guide for the rest.  The box has only a few tuners (typically
four), so most of the program is about who may hold one, for how long, and what
happens when the box, the network or mpv answers late.

This directory holds TLA+ modules for that logic, TLC configurations that check
them on small instances, and TLAPS proofs of the main safety properties for all
instances.  Paths such as `prebuffer.go:145` are files of `src/`.

Running things, inside this directory:

    tlc -workers 2 -config MCTsRing.cfg MCTsRing      # any run of PROJECT.json
    tlapm SessionProofs.tla                           # any *Proofs module

`PROJECT.json` lists the components, the runs with their properties, the mutants
that show each property can fail, which lines every definition models, the
hazards, and the theorems.

Inside a module, a definition `X_Y` placed before `X` (for instance
`Install_Overwrite` before `Install`) is a wrong variant of `X`: a plausible bug
that must make some property fail.  These variants are not part of any `Spec`.

## 1. Inventory

| Part | Code | State it keeps | Operations | Who calls it, on which goroutine | What is hard |
|---|---|---|---|---|---|
| ring of a session | `prebuffer.go` `tsRing` | buffer, absolute base offset, closed flag, one condition variable | Write, Close, Start, ReadFrom | RTP loop writes; proxy handlers, probe and sweep read | trims under a reader, lost wake-ups, end overtaking data |
| prebuffer | `prebuffer.go` `Prebuffer` | map URL → session under a mutex | ensure, StreamURL, SetActive, handleStream, Close | main thread, one goroutine per neighbour, HTTP handlers, `go s.Close()` | the dial is outside the lock: racing ensures, dials that outlive their reason, sessions that die by themselves |
| SAT>IP session | `satip.go` | RTSP connection, session id, CSeq, mutex, counters, stop channel, ring | dialSatIPBytes, request, rtpLoop, keepaliveLoop, Close | its caller, two loops, and the goroutine and timer of Close | retries beside a TEARDOWN, one connection for two requesters, deadlines, four closers |
| play attempts | `ui.go` playAttempt, playbackStarted, playbackEnded, noteMpvLog; `main.go` loop | ui.current, retried, status, lastMpvErr | play, retry, give up, events | main thread; mpv queues events | events carry no attempt, the list changes under the channel played |
| tuner budget | `pmt.go` expandSem, prefetch and pids.json, `eit.go` sweeper | semaphore, sweep URLs, kick channel, two caches, their file | prefetchPIDExpansions, expandChannelPIDs, loadPIDCache, savePIDCache, startEPGSweeper, sweepMuxNow | main thread; background goroutines | cache looked at before waiting, kicks dropped, token given back on every path, a file written in place |
| pid probe | `pmt.go` | section assemblers, PMT pid | feed, parsePAT, parsePMTPIDs, mergePIDsIntoURL | background goroutines | sections cut anywhere, losses, several programs |
| source watcher | `netwatch.go`, `m3u.go` loadChannels, `discover.go`, `main.go` | signature, haveLocal, havePublic, update channel, tv.m3u | load at start, ticks, discovery, fetch, send | main at start, then one goroutine; main loop receives | the network changes while a probe runs, other servers answer, updates dropped, a cache written in place |
| playlist | `m3u.go` | none | parseM3U | the two above | lines that belong together, pages that are no list |
| channel list | `order.go`, `ui.go` | channels, items, view, filter, sel, scroll, current | arrangeChannels, rebuild, applyFilter, keys, zap | main thread | rows replaced under selection, indices into replaced lists |
| EPG store | `eit.go`, nowNext of `ui.go` | now/next events per service, epg.json | epgSweepMux's merge, epgNowNext, load, save | sweeps write, UI reads | sections missed, plans that change, the clock, a restart |
| XMLTV guide | `xmltv.go` | guide by channel name, epg_xmltv.xml.gz | refresh, parse, look up | background goroutine; UI reads | servers that fail, pages without programmes, a copy written in place |
| subtitles | `subs.go`, `ui.go` | preference | applySubPref, cycleSub | main thread | applied when an event is handled, which is late |
| panel and info bar | `ui.go` | overlay, animations, bar | showList, hideList, render, tick, tickInfoBar | main thread | drawn only when a handler asks for it |
| location | `location.go` | home country | look up | start-up | I/O |
| window | `ui.go`, `titlebar_darwin.*`, `luma_darwin.go` | fullscreen, colours | | main thread | nothing a model reaches |

How they interact:

    user ─▶ UI (main thread) ──loadfile──▶ mpv ──events──▶ UI
             │ StreamURL / SetActive          │ GET /stream
             ▼                                ▼
           Prebuffer ──ensure──▶ dialSatIP   handleStream ──ReadFrom──▶ tsRing
             ▲ go s.Close()        │ RTP loop ──Write──▶ tsRing
             │                     ▼
    rebuild ─┴─▶ prefetch / EPG sweeper ──expandSem──▶ dialSatIP ──▶ box
       ▲
    watchSources ──update channel──▶ main loop
       │ tv.m3u                        ▲ nowNext
       ▼                               │
     cache files ◀── pids, EPG store, guide

What makes each part correct is listed with its module below, and the places in
the code where it could go wrong are the hazards of `PROJECT.json`.

## 2. Modules

| Module | Models | Composes / refines |
|---|---|---|
| `LiveFeed` | what the ring promises: a growing stream delivered in order, lossless for a reader close to the live edge, with a proper end | abstract specification |
| `TsRing` | `tsRing` and the loops of its readers | implements `LiveFeed` (`ImplementsFeed`) |
| `Prebuffer` | `Prebuffer` with the calls `playAttempt` and `playbackEnded` make to it, its goroutines, sessions that die, and mpv's side of the proxy | the UI–prebuffer–mpv composition; a session is a model value |
| `DialedSession` | what the callers of `dialSatIPBytes` know of a session: one is open at a time, the one returned is, it dies once, and a failed dial leaves none | abstract specification; what a session of `Prebuffer` and `TunerBudget` abbreviates |
| `SatIPSession` | one call of `dialSatIPBytes` and the life of the session it returns, with the box | implements `DialedSession` (`SessionAsPromised`) |
| `Playback` | play attempts against mpv's event queue | |
| `Subtitles` | the subtitle preference and mpv's tracks | on top of `Playback`, whose actions it takes |
| `TunerBudget` | `expandSem`, prefetchers, sweeper, sweeps of tuned muxes, pids.json | |
| `PidProbe` | `sectionAssembler` and `probeProgramPIDs` over lossy packets | the step `Probe` of `TunerBudget` |
| `Playlist` | `parseM3U` and `probeOne` as functions of a page's lines, and what a page means (`Means`) | |
| `SourceWatch` | `loadChannels`, `watchSources` with discovery, tv.m3u, and the main loop's end of the channel | uses `Playlist` |
| `EpgEvents` | events of a service, now/next, merge, pruning, DVB dates, as functions | |
| `EpgStore` | sweeps of a mux, the guide's refresh, both cache files, the bar | uses `EpgEvents`; a sweep is what `SweepEnds` of `TunerBudget` abbreviates |
| `ChannelList` | rows, search, selection, scrolling, zapping, refresh | |
| `Panel` | the overlay, the animations and the info bar | on top of `ChannelList`, whose actions it takes |
| `MC…` | constants for TLC | |
| `Subsequences` | the elements of a set, and of a sequence at a set of places, in order: what the code's filters and sorts compute | used by `PidProbe` and `ChannelList` |
| `…Proofs` | TLAPS proofs about the module of that name; `SessionProofs` about `SatIPSession` and `TsRing`, `ProbingProofs` about `TunerBudget` and `PidProbe`, `PanelProofs` about `Panel` and `ChannelList`, `PlaybackProofs` about `Playback` and `Subtitles` | |
| `SubsequenceFacts` | lemmas about `Subsequences` and `FlattenSeq` | used by `ProbingProofs` and `PanelProofs` |

The specifications of `TsRing` and `PidProbe` are named `RingSpec` and
`ProbeSpec` (with `RingInit`, `ProbeNext`, …), since each is extended by one proof
module together with another component.

### TsRing

`buf`, `base`, `closed` are the fields of `tsRing`; bytes are named by their
position in the stream, so `buf[i] = base + i - 1` says offsets are true.
`Write` is the whole method, trim and broadcast included.  `ReadFrom` is two
kinds of step: what it does when it has the lock (`ReadData`, `ReadEnd`,
`ReadWait`), and waking up after a broadcast, which only makes the reader
contend for the lock again.  `Resume` and `Leave` are the loop of
`handleStream`, which reads until the end or until its client is gone.

Properties: the window is bounded and starts on a multiple of a packet, also when
writes are no whole packets (`WindowInPackets`); no reader sleeps with data or a
close to see (`NoLostWakeup`); a closed ring lets every reader go
(`ReadersReleased`); and together: the ring implements `LiveFeed`
(`ImplementsFeed`), which implies that an offset names the same byte after any
number of trims (`OffsetNamesByte`) and that the end does not overtake data
(`DrainedToTheEnd`); these two are part of the proof's invariant.

### Prebuffer

Each critical section of `p.mu` is one action: `EnsureHit` or `EnsureMiss`, then
`DialOk` or `DialFail` outside the lock, then `Install`, which resolves the race
of two ensures.  `SetActive` is an operator shared by the actions that call it
(`PlayPublic`, `Activate`, `Quit`); it closes sessions through `closing`, the set
of pending `go s.Close()`, which `CloseRun` runs in any order.  The main thread
is one of the callers of `ensure`, since `StreamURL` dials on it.  `SessionDies`
is the session closing itself; it stays in the map.  mpv (external) asks the
proxy once per loadfile, is served, and ends.  `keep`, `lost` and `refused` are
history variables.

The last two are the exceptions the properties of the proxy need.  `lost` has the
URLs whose session died by itself after `ensure` gave it to the main thread and
before mpv got it.  `refused` is set when the loadfile of a *public* channel is
refused, a flaw of the code that stays visible in the model: `playAttempt` calls
`SetActive("", nil)` for a public channel before the loadfile (`ui.go:487`), so
when mpv refuses that, the channel that goes on playing has lost its sessions.
A refused loadfile of a local channel is no exception: the properties say that
this happens after no other step.

Properties: no live session without an owner (`NoOrphanSession`), nor with two
(`OneOwner`, proved), a live session of the active set is never replaced
(`WarmSessionKept`), what mpv is served from is not being closed by us
(`ServedNotClosing`), the proxy URL finds a live session (`ProxyReady`), the main
thread returns (`MainReturns`), sessions outside the map give back their tuner
(`TunersComeBack`).

### SatIPSession

One variable per field or goroutine, indexed by the attempt, because a closed
session's TEARDOWN, timer and loops run on beside the next attempt.  `lock` is
`s.mu`, held from the request to its answer; `sent` and `answers` are the
connection.  `Ask`, `Answered`, `GaveUp` and `Unsent` are `request`; each caller
(dialer, keepalive, Close) has actions made from them.  `MarkPsi` is the late,
unlocked write of `psiOnly` by the EPG sweeper (`eit.go:238`), which the
keepalive loop reads: the tick before it still counts bytes.

Of the clock the model keeps the order of deadlines: the probe window (1.5 s)
ends before the RTP deadline (12 s) and the first tick (15 s), and Close's timer
(2 s) before the TEARDOWN's own deadline (4 s).

Properties: the dial and its session implement `DialedSession`
(`SessionAsPromised`): no attempt but the last is left open, and none after a
failed dial (`NoAttemptLeft`, proved); during the probe window, when both loops
run already, nobody but the dialer closes; what was closed stays closed.
Answers, whose CSeq is not checked, are always those of the request
(`AnswersMatch`); the dial returns (`DialReturns`); a closed session
leaves no goroutine and no connection (`ClosedIsGone`); a starving TV session is
closed (`StarvationNoticed`), and so is any session whose stream ended
(`StallNoticed`).

### Playback

mpv (external) begins the last load it was given, ends the running one with
"stop", loads or fails, and queues events; the main loop handles them one at a
time.  Handlers are the actions `HandleLoaded`, `HandleLog`, `HandleEndIgnored`
(the early returns), `HandleEndRetry` and `HandleEndGiveUp`.  `Refresh` is the
part of `rebuild` that looks `ui.current` up again.  `autos` counts automatic
loads since the user's last choice and is not in the code.

Properties: at most one automatic load per choice (`OneRetry`), the channel
marked is the one last loaded (`CurrentIsLoaded`, proved), once all events are handled
the status does not deny a playing channel (`StatusSettles`), a tuning ends
(`TuningEnds`).

### Subtitles

`tracks` and `sid` are mpv's: it has tracks from the moment a file is loaded to
its end, and starts with a track of its own choice.  `SubLoaded` is
`playbackStarted` with `applySubPref`; `CycleSub` is the key, which may come
before the event is handled, on a channel without tracks, or on a track the code
does not list.  All other steps are `Playback`'s.

`cycled`, that the track shown was taken with the key, is not in the code.

Property: when a channel plays and the events are handled, the track shown is
`Preferred`: in the best language there is, plain before hearing impaired, and
none only if no track has a language of the preference.  Or the key was pressed
since, and then the preference is what is `Remembered` of its last choice
(`SubsFollow`, `subs.go:10`).  The two differ for a track without a language,
which is remembered as "off" while it is shown (section 5).

### TunerBudget

`line` is `expandSem` with its queue: Go serves blocked senders in order.  A
prefetcher skips known channels, waits, looks again, probes, stores the service
(`Probe`) and then the expanded URL (`Store`), and writes pids.json in two steps
(`Save` reads the caches and empties the file, `Written` fills it), before which
the program may end: `Init` starts from a file cut short, or from one of
`Files`, the files earlier runs may have left.  An entry there may have no
service, as versions without one wrote them: its key is loaded and its service
is not (`pmt.go:191`).  `SaveFails` is a write that fails, before it emptied the
file or after; the goroutine goes on (`pmt.go:216`), and `failed` remembers it
for the property.  A URL of `NoPids` has nothing to expand (`pmt.go:234`).
`Rebuild` and `Kick` are `rebuild`, with a new list or the one before, and the
end of `startEPGSweeper`; between the two the sweeper may run.  A session is one
step here.

Properties: one background session at a time, and none for a channel that is
known (`OneSession`); no step leaves a channel with an expanded URL and without
its service, so that only what the file had that way stays so (`ServiceKnown`);
a restart knows what the program knows, or part of it after a write that failed
(`PidsKept`); a list the sweeper has not
seen is announced (`KickKept`, proved) and it gets round to it
(`SweeperFollows`), a tuned mux is swept and a prefetch ends (`BackgroundEnds`).

### PidProbe

A section is a run of cells: some header cells, then one per entry.  The
broadcaster (external) repeats its tables, cuts them into packets anywhere, with
stuffing behind a section or the next one in the same packet, and packets get
lost.  `Fed`, `SectionLengths` and `Complete` are `feed`; `ChoosePMT` and
`MergePIDs` are what is done with a section.  After a loss the length read may
be anything, and the section returned may be spliced from two.  The code checks
neither continuity counters nor the CRC, so that such a section is parsed: as
the pids of `Misread`, in any order and number, as another table, or as nothing
(`Readings`).  `sent` says how far each table is sent, and `intact` that no packet of
it was lost since its last start; `merged` is the URL the probe returns.

Properties: a section returned is the one sent unless a packet of it was lost
(`SectionWhole`); the PMT followed is one the URL asks for, the expanded URL
loses no pid and is sorted, whatever was misread, and if nothing of that PMT was
lost it has all streams of its program and nothing else (`ExpandedCovers`); a
section received whole is returned (`Collected`).

### Playlist, SourceWatch

A page is the sequence of its lines, each of the kind the switch of `parseM3U`
takes it for.  `ProbeOne` also wants the header a box's list has; `loadChannels`
and `fetchPublic` do not, so that an HTML page is a list of channels with HTML
for addresses.  `Scan` is its loop; `Means` says without a loop what a page means.
TLC compares the two on all pages of up to four lines (`ParserMeans`), and
`ParserReads` proves them equal for every page; `CutPageParses`, that a page cut
short, as a crash during the write in place can leave it, is read as the first
of its channels.  A page is cut after a line there; a cut inside one leaves an
address or a name cut short besides, which is left out.

`Load` and `Save` are `loadChannels` on the main thread.  `Probe`,
`ProbeAnnounced`, `Report`, `Sign`, `Tick`, `Fetch` and `Cache` are the goroutine, cut where the environment
can change under it (`Change`): a host that moves, boxes that are switched, the
page a fetch gets.  Any answer of those a probe gets may be first, and on a
network with a box another server may have a list of its own.  `CacheM3U` writes
the page, or fails and writes nothing or the first of its lines; nobody is told.
`Send` drops when the channel is full.  `Receive` is the main loop.  `Stop` ends
the program anywhere, in the middle of a write too.

Properties: once the goroutine has caught up with a quiet network, the local
channels shown were found on it, or there are none: never those of a network
left behind, never a page that is no list (`NoStaleBox`).  What the goroutine
believes is what is shown or on its way (`ShownAsSent`), as long as nothing was
dropped.  The same holds of the public list, so that one that was had is on the
screen or on its way, and without one it goes on asking; and a good list, once
cached, stays, and every start has a list, but for the exceptions the comment of
the property names (`ListSurvives`, and section 5).  A box or list that stays
available appears (`SourcesAppear`).

### ChannelList

Pure parts as operators (`Channels`, `Items`, `View`, `Snap`, `ClampScroll`) and
one action per key or event; the wheel moves by any number of rows (`Deltas`).
What a loop of the code filters out of a slice is
`At` the places it keeps, in the order they have there.  `Enter` stands for a loadfile mpv takes (a refused
one leaves the marker alone).

Properties: the selection is a channel row on the panel, with the header above
it, and the panel is full if it can be (`SelOnPanel`); grouping neither loses nor
repeats a channel, puts the home country first and keeps the playlist's order
otherwise (`Arranged`); the marker follows the channel through a refresh
(`MarkerFollows`).

### Panel

`overlay` is what mpv shows: it changes only where the code calls `render`
(`Render`).  A frame is the rows on the panel with their channels' names, the
marker, the selection, the status and the lines above, which say so when the
public list could not be had (`Header`, `loadErr`); where the panel and the pill are during an animation
is left out, that they are moving is not (`sliding`, `gliding`).  `bar` is the
text of the info bar, set by a play and by `TickInfoBar`.  Each action takes the
one of `ChannelList` it goes with; `Retry`, `Refused` and `Plays` are the parts
of `playAttempt`, `playbackEnded` and `playbackStarted` that draw.

Properties: an open panel shows the rows, the marker and the status there are,
and a closed one is gone (`OverlayFresh`); the bar names the channel that plays
(`BarTrue`).

### EpgEvents, EpgStore

Events of a service are a set; the code keeps a sorted slice without repetitions.
The broadcaster repeats two sections per service, what is on and what follows
(`Present`, `Following`), of a plan that may change (`Replan`).  A sweep
(`SweepBegins`, `Hear`, `SweepEnds`) hears any of them and replaces what was
known of the services it heard; the save that follows writes beside the file and
renames (`StartSave`, `FinishSave`).  `Refresh` and `FinishGuide` are
`startXMLTV`: the page parses, or does not, or has no programmes; the copy is
written in place.  `Stop` and `Start` are the ends of the program; `Restored` is
`loadEPGCache`.  A section spliced after a loss is heard as any event of any
service (`HearSpliced`), and a write may fail: the one beside epg.json or its
rename, the opening of the guide's copy, or the writing of it (`Fault` counts
both kinds).  `asOf` and `fileOf`, the plan events are of (`NoPlan` for spliced
ones), `spliced`, and `unsaved` and `uncached`, that the last write of this run
failed, are not in the code.  Sweeps of one mux exclude each other (`OneSession` of `TunerBudget`), so
one sweep is enough.

Properties: as long as the plan a sweep began with stays, what is given as now is
on and as next is next to begin, unless the last heard of the service was
spliced (`NowIsTrue`); epg.json can always be read, and a restart out of the
servers' reach brings back the bar as it was, unless the last write failed
(`BarSurvives`); the guide in use never gets older or empty, except to an older
copy that could not be written over (`GuideKept`).  TLC also compares
`DvbDate`, the date formula of `dvbTime`, with the calendar for every day from
March 1900 to February 2100, and `Bcd` with its meaning.

## 3. Runs, bounds, fairness

| Run | Instance | Shows |
|---|---|---|
| `MCTsRing` | 2 readers, packets of 3 bytes, 7-byte ring, writes of 2, 3 and 6, reads of 2 and 4, 12 bytes | safety, refinement, release of readers |
| `MCPrebuffer` | 2 local channels and a public one, the main thread and 1 neighbour goroutine, 3 sessions, 2 tuners, refused loadfiles | ownership, the proxy, liveness |
| `MCPrebufferOnlyActiveUp` | 2 neighbour goroutines, 4 sessions, 3 tuners | finding 1 |
| `MCPlayback` | 1 local channel with 4 tracks, 1 public one with 2, 5 loads, 3 queued events, 1 refresh | safety, subtitles, `TuningEnds` |
| `MCPlaybackReplaced` | 4 loads | finding 2 |
| `MCTunerBudget` | 2 channels on 2 muxes and one without pids, 3 lists, 2 prefetchers, 1 tuned sweep, writes that fail, a pids.json from before: none, cut, or with an entry that has no service | safety, liveness |
| `MCSourceWatch` | 2 networks (the box is the gateway and a server with another list competes; the box is announced only and a portal answers), channel of 2, 3 changes, writes that fail, 1 restart | safety, liveness |
| `MCChannelList` | `Panel` with 3 rows, 4 public and 3 local lists, a channel with two names, 1 letter, filters of 2 | everything |
| `MCSatIPSession` | 2 attempts | safety, refinement, `DialReturns` |
| `MCSatIPSessionLive` | 1 attempt | liveness of the loops |
| `MCPidProbe` | 3 programs, packets of 3 cells, 2 losses, 2 pids a cell may be misread as, packed and stuffed | everything |
| `MCEpgStore` | 1 service, 2 plans, 2 guides, 5 slots, 1 replan, 2 outages, 1 end of the program, 1 spliced section or write that fails | everything |

Why the bounds are enough.

- The ring: the capacity is no multiple of the packet (as 4 MiB is no multiple
  of 188), there is a write of two packets and one that is no whole packet, and
  12 bytes trim the window several times.  `SessionProofs` removes every bound.
- `Prebuffer`: the two local channels are each other's only neighbour, so the
  races for one URL are those of the main thread and one goroutine.  A session
  name may be used again when nobody refers to it, so `Sessions` bounds what is
  alive, not what is dialled.  `PrebufferProofs` removes the bounds for the four
  safety properties.
- `Playback`: five loads are the idle source, a play, its retry, the idle source
  and another play.  Three events hold a "stop", an end and a log line together.
  The local channel has a track of each kind the code tells apart.
  `PlaybackProofs` removes the bounds for safety.
- `TunerBudget`: two prefetchers give the race for one channel; a third list
  while the second is being swept gives the pending kick.  The list has one
  channel with pids per mux, so that a sweep has two muxes to visit; that `MuxURLs` picks
  one URL per mux is used by no property.  `ProbingProofs` removes the bounds for
  safety.
- `SatIPSession`: a third attempt adds nothing a second does not: the dialer
  knows only the current one.  `SessionProofs` removes the bound for
  safety.  In `MCSatIPSessionLive` a session lives alone: the sessions of one
  dial share nothing but the box.
- `SourceWatch`: a channel of 2 fills up, one of 8 (the code's) needs more
  changes to do so and behaves the same.  Three changes bring the laptop home,
  away and home again, or break the list while it moves.  The two networks have
  both ways to find a box, and both kinds of server beside it.  `SourceWatchProofs`
  removes the bounds for safety.
- `PidProbe`: packets of 3 cells cut the header (2 cells) and the longest
  section (5) in every way; two losses allow a loss in the start and in the rest.
  A misread pid is one the mux has for another program, or none of it.
  `ProbingProofs` removes the bounds.
- `ChannelList`: three rows are a header, its channel and one more; the longest
  list has two headers too many for that, so the panel scrolls.  `PanelProofs`
  removes the bounds.
- `EpgStore`: five slots let a film, the news and the last programme come and go
  with one replan between them, and let events age past the hour for which the
  cache keeps them.  One end of the program, so that a run and the one after it
  can meet; one fault, which one good sweep or write makes up for.  Services do not interact, so that one is enough; and
  `EpgStoreProofs` removes the bounds.

Fairness.  Weak fairness is assumed of goroutines that can run (Go's scheduler)
and of the main loop, and for waits on the outside only where the code has a
deadline: the dial (`satip.go:61`, `83`, `152`), mpv's network timeout
(`Playback`, and with it `Subtitles`), the probe and sweep deadlines
(`TunerBudget`, one step each), the HTTP timeouts of the watcher's probes and
fetches.  Strong fairness is assumed in two places.  `Tick` of `SatIPSession`: a
tick waits in the ticker's channel until the select of the keepalive loop takes
it, and the select picks at random among what is ready.  `Tick` of
`SourceWatch`: each of the two timers runs out again and again.  Nothing is
assumed of the user, the box, the network, the broadcaster or the sweeper's
ten-minute timer, and nothing at all in `EpgStore` and `Panel`.

`CHECK_DEADLOCK FALSE` is set where the modelled system really stops: after Quit,
after a probe returned, when every goroutine ended, or at a bound.

## 4. Proofs

| Module | Theorem | For every … |
|---|---|---|
| `SessionProofs` | of `TsRing`: `RingTypeCorrect`, `WindowSafe`, `OffsetsAbsolute`, `ReadersSafe`, `RingImplementsFeed` | packet size, capacity, readers, writes |
| | of `SatIPSession`: `NothingLeftOpen`, `AnswersAreOwn`, `SessionKeepsPromise` | number of attempts, amounts of data |
| `PrebufferProofs` | `NoSessionLost`, `WarmSessionsStay`, `ProxyFindsSession`, `ServedStays` | channel list, goroutines, sessions, tuners |
| `PlaybackProofs` | `TypeCorrect`, `RetriesBounded`, `StatusHonest`, and of `Subtitles` `SubsAsPreferred` | channels, tracks, loads, queue length, refreshes |
| `ProbingProofs` | of `TunerBudget`: `OneTuner`, `PidsSurvive`, `ServicesKnown`, `NoKickLost` | channels, muxes, lists, goroutines |
| | of `PidProbe`: `SectionsWhole`, `SectionsCollected`, `ProbeCovers` | programs and their streams, URL, packet size, losses |
| `SourceWatchProofs` | of `Playlist`: `ParserReads`, `CutPageParses` | pages of any length |
| | of `SourceWatch`: `BeliefsMatch`, `OwnNetworkOnly`, `CachedListStays` | networks, boxes, pages, capacity of the channel, changes, restarts |
| `EpgStoreProofs` | `BarIsTrue`, `BarIsKept`, `GuideStays` | services, plans, guides, hours, changes, restarts |
| `PanelProofs` | `OverlayIsFresh`, `BarNamesPlaying`, and of `ChannelList` `MarkerStays`, `SelectionStays`, `RowsArranged`, `RowsTyped` | lists, searches, size of the panel |

Every safety invariant and action property of the runs that pass is stated by one
of them.  The assumptions are the named `ASSUME`s of the modules (TLC evaluates
them in every run).

The inductive invariants, and why the properties need them:

- `SessionProofs!RingInv` adds that no reader is ahead of the stream, that a reader
  told the end saw a closed ring, and that a trimmed window keeps at least
  `Max - Packet + 1` bytes.  The last is what makes a skipping reader land on
  data, and it is the `Window` of the refinement.  `CutFacts` shows that the
  clamp `trim > len(r.buf)` in the code is never reached.
- `PrebufferProofs!Inv` is types, `OneOwner`, `NoOrphanSession`, and that a caller
  inside `ensure` knows its channel.  Ownership and no-orphan are inductive only
  together: `Install` must know that the session it holds is in nobody's map
  entry.  `MpvInv` follows the session of the tuned channel from the caller's
  hand (`Held`) into the map while the loadfile is made (`Loads`), to mpv's
  request (`Asked`) and to what the proxy serves (`Served`).  The two ways to
  break this chain are those that set `lost` and `refused`, so that the proof
  says they are the only ones.
- `PlaybackProofs!IInv` adds that an automatic load implies `retried`, and that
  while a playing channel has a stale status the event that clears it is still in
  the queue.  `SubInv` says the same of the subtitles: they are as preferred, or
  as the key left them, or the event whose handler makes them so is in the queue.
- `ProbingProofs!IInv` says that a goroutine is in the line exactly once
  while it waits or works, and only its head works; that between `Probe` and
  `Store` the service is known; and that between stores the file is the cache,
  or is being written from it, or a write failed and it has part of the cache
  (`FileOk`), because only the holder of the semaphore stores, and saves before
  it lets go.
- `SessionProofs!IInv` (of `SatIPSession`) is one invariant per session: not begun
  (`Ahead`), closed or without ports (`Behind`), at most one request or answer on
  the wire (`Wire`), and who may be waiting for it (`Asking`).  The refinement of
  `DialedSession` needs `Linked` besides, that a session in use has a connection.
  `SessionEffect` and `DialEffect` say all that a step can do to what the callers
  see; that a loop closes a session only once the dial has returned it rests on
  the order of the deadlines (`Probing`).
- `ProbingProofs!ProbeInv` is, for each table read (`TableInv`): when no packet of
  it was lost since its start, the buffer begins as the section does, and while
  cells are missing the broadcaster goes on exactly where the buffer ends
  (`InStep`).  A table that nobody reads yet has an empty buffer: the PMT starts
  from its first cell, however many of its packets went by before the PAT was
  complete.  With that the three properties are inductive together: what is
  merged comes from a section that was returned, and so from the one sent, or
  from what was misread of it, of which only the shape of the URL is known.
- `SourceWatchProofs` has three invariants over the same `Types`.  `ShownAsSent`
  is inductive with them.  `BoxOk` follows a box's list through the goroutine: as
  long as the laptop has not moved since the signature was taken, what was found,
  is in the channel or is shown last is a list that is served on this network.
  `ListOk` says that once a good list was cached, the page being written or
  fetched, and the file, are good, but for the exceptions `ListSurvives` names.
- `EpgStoreProofs!StoreInv` adds to the types that the events kept of a service,
  while the plan they are of is still the broadcaster's, are events of it and
  that a future one is the next (`PlanOk`; spliced ones are of no plan), and that
  the file prunes to what the store prunes to unless a save failed (`CacheOk`):
  equality of the two would be lost at the first restart.  `GuideInv` relates the guide in use, the one being written and the
  file.
- `PanelProofs` begins with the data: the public channels on the panel are a
  rearrangement of the list (`Sorted`: the p-th is the `from[p]`-th of the list,
  each place occurs once, home before others, the list's order in each), the rows
  under each header keep to the order of their channels (`Rising`), and so do the
  rows a search leaves.  `RowsArranged` follows for every two sources, and with
  it that there is a channel among the rows unless there are none, which the
  selection needs.
  Then: channels, rows and view are always those the sources and the search give
  (`Current`), since every handler that changes one of them rebuilds the rest.
  `SelInv` adds that the selection is a channel on the panel, where `SnapFact`
  says what `snapSelectable` returns when there is a channel in some direction,
  and `ScrollFact` what `clampScroll` does.

Filters, sorts and joins of slices are reasoned about without induction over an
operator, which no installed prover can instantiate.  A filtered slice is given
by rank: the k-th element kept is the one with k of them up to it, so that what
it contains, that its order is kept, and that nothing occurs twice are facts
about cardinalities (`NthFacts`, `AtFacts`, `AscendingFacts`).  The groups of the
panel are joined by `FlattenSeq`, a recursive function; `FlattenPlaces` says at
which place of the join each element of each group is.  It is proved by induction
over the *set* of the lengths for which it fails: such a set of numbers has a
least element (`LeastElement`, from the well-founded order of the naturals), and
`IntervalInduction` is that argument stated once.  The loop of the parser is
reasoned about in the same way (`ScanStep`, `ScanMeans`); its theorems leave out
pages with a line that is too long, which `ParseM3U` gives up on by definition.

Only model-checked: all liveness, since fairness and ENABLED are out of the
prover's reach; that is 11 properties, among them that nothing waits for ever.
What `DvbDate` and `Bcd` compute is compared with their meaning by TLC for every
day of two centuries and all digits (`ASSUME`s of `MCEpgStore`).  Only proved, because the
theorem says more than a run would: the types, and the parts of the invariants
named "proved" in section 2.

## 5. What the models found

Two disagreements between the code and what it says of itself are kept as runs
that must fail:

1. **A late dial outlives its reason** (`MCPrebufferOnlyActiveUp`).  `SetActive`
   says sessions outside the active set are torn down.  `ensure` does not look at
   the set when its dial returns (`prebuffer.go:149`), so a neighbour's dial that
   ends after the user has zapped on installs a session nobody wants; it holds a
   tuner until the next `SetActive`.
2. **A replaced stream can fail its successor** (`MCPlaybackReplaced`).  The code
   ignores "stop", because a replaced stream is no failure.  If the old stream's
   error or end was queued before the zap, it is handled after it, with
   `ui.current` already on the new channel: that is retried without the proxy, or
   given up (`ui.go:665`).

Others were seen while modelling, are reachable in the modules unless said
otherwise, and are not kept as runs:

- A public channel whose loadfile is refused has already closed the sessions of
  the channel that goes on playing (`ui.go:487`).
- Giving a channel up (`ui.go:688`) leaves its own and its neighbours' sessions
  warm with nothing playing.
- When `ensure` fails, `StreamURL` returns the raw URL (`prebuffer.go:121`), and
  the expanded one that was looked up before it is not used; the retry does.
- An error line of the previous attempt that is still queued at a zap becomes the
  root cause shown for the next one (`ui.go:709`).
- A refresh that drops the playing channel makes the UI ignore the end of its
  stream (`ui.go:657`), so the idle source is not loaded.
- An automatic retry hides a list the user opened in the meantime, as every play
  does.
- A subtitle track without a language can be reached with the key, and is
  remembered as "off" while it is shown (`ui.go:646-650`): the next channel, and
  the next file of the same one, has no subtitles.
- Pressing 's' while tuning, or on a channel without subtitles, stores "off" as
  the preference.
- The "prioritized" sweep of a tuned mux queues on the semaphore behind whoever
  came before (`eit.go:224`).
- When the box goes away the sweeper keeps the URLs of the list before
  (`ui.go:151`).
- A page served faster than the box's at one of the addresses tried, if it is a
  list, is taken for the box's (`discover.go:60`), and kept as long as the
  network does not change.
- A network change during the very first discovery is no change to the watcher,
  whose signature is first taken afterwards (`netwatch.go:80-81`); the list of
  the box left behind stays (`moved` marks it).
- An update dropped at a full channel (`netwatch.go:47`) is not sent again: the
  goroutine believes it was (`dropped` marks it, and the properties of the
  watcher say what holds before).
- `loadChannels` caches a page before it is parsed (`m3u.go:131`), so a page
  without channels replaces a good copy; `parseM3U` wants no `#EXTM3U`, so a
  portal's HTML page is a list of channels.  A crash in the middle of the write
  leaves the first part of the list.
- pids.json is written in place (`pmt.go:217`): after a crash during the write
  it does not parse, and everything is probed again.
- An entry of pids.json without a service counts as expanded (`pmt.go:190-193`),
  so that the channel is never probed again and never has programmes in the bar.
- The errors of all cache writes are ignored (`m3u.go:149`, `pmt.go:217`,
  `eit.go:361`, `xmltv.go:113`): a restart then has the older copy, a part of
  the new one, or none; an older guide may even come back while the program
  runs, when the server fails after a write that did.
- After a lost packet the end of one section may be put behind the start of
  another (`pmt.go:49-58`), and nothing checks that: the probe may store, and
  pids.json keep, pids that are not the channel's, and the bar may show a
  programme that nobody broadcast until a later sweep hears the service.
- A refresh that renames the channel that plays leaves its old name in the bar
  until `tickInfoBar` writes it again, up to three seconds later (`ui.go:258`).
- A guide without programmes counts as parsed and overwrites the good copy
  (`xmltv.go:77-78`, `190`), so the next start without the server has none.
- Events that ended less than an hour ago survive a restart, though the comment
  of `loadEPGCache` (`eit.go:297`) says those that ended are dropped; `epgNowNext`
  looks at the time again, so they are not shown.
- A "next" heard without its "now" is enough for `epgNowNext` to have something,
  so the guide is not asked for what is on now.
- The retry's SETUP may reach the box before the TEARDOWN of the attempt before
  it, so one dial can hold two tuners (`satip.go:68`).
- A SETUP that was served but whose answer came too late leaves a session at the
  box that no TEARDOWN can name (`satip.go:107`); the timer of Close may close the
  connection before the TEARDOWN got its turn (`satip.go:293`).  The box's own
  timeout frees both.
- The end of a section that shares its packet with the start of the next one is
  dropped (`pmt.go:47`), so a mux that packs its tables is probed for longer.

## 6. Not modelled

- **RTP framing, NAT punching, the layout of TS packets and of EIT sections, DVB
  text**: decoding without state the other parts depend on.  `TsRing` takes
  writes of any size, `PidProbe` starts from packets, `EpgStore` from sections.
- **The attributes of an EXTINF line, the decoding of XMLTV and the matching of
  names**: functions of strings; the models take what they give.
- **The gateway's address, SSDP datagrams, HTTP**: the models take answers as
  inputs, any of them first.
- **Country lookup**: one value at start-up, a constant of `ChannelList`.  **The
  file of the subtitle preference**: one value, written whole; `Subtitles` has
  the value.
- **Cuts inside a line or an entry**: a page that was written in part ends after
  a line, and a file of JSON that was written in part does not parse.
- **Names in the info bar**: the bar stands for its channel by the URL, as the
  channel stays the same when its name changes; the overlay has the names.
- **The order of categories**: `Arranged` says which rows there are, which
  country leads and that the list's order is kept; that categories are in
  alphabetical order and each in one place is in `GroupOrder` and `Items`, and
  stated by no property.
- **Drawing, window decoration, pixel sampling**: layout.
- **Data races as such**: `psiOnly` is modelled as a write that may come at any
  time after the dial; the byte counters are read atomically in the code.

## 7. Plan

Done, in order: `TsRing` and `LiveFeed`, `Prebuffer`, `Playback`, `TunerBudget`,
`SourceWatch`, `ChannelList`, `SatIPSession`, `PidProbe`; then pids.json in
`TunerBudget`, tv.m3u, the parser and discovery in `SourceWatch` and `Playlist`,
`EpgEvents` and `EpgStore`, `Subtitles`, `Panel`; `DialedSession`; proofs of the
safety properties of all of them, and of what the parser reads.

Next, in order:

1. The zap as a whole: `Playback` on top of `Prebuffer`, with the event queue and
   the proxy in one module, and `Prebuffer` as a refinement of an abstract "one
   session per active channel".
2. Datagrams out of order, which `rtpLoop` writes to the ring as they come: what
   an assembler of `PidProbe` sees then, beyond the losses it has.
