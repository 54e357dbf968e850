----------------------------- MODULE Prebuffer ------------------------------
(***************************************************************************)
(* The Prebuffer of prebuffer.go with the part of the UI that drives it    *)
(* (playAttempt and playbackEnded of ui.go): SAT>IP sessions are kept warm *)
(* for the playing channel and its zap neighbours and served to mpv over a *)
(* loopback HTTP proxy.                                                    *)
(*                                                                         *)
(* Concurrent: the main thread, which runs the UI and may dial itself in   *)
(* StreamURL; one goroutine per neighbour started by SetActive; one        *)
(* goroutine per `go s.Close()`; the HTTP handler; the sessions, which die *)
(* by themselves; mpv.  What is done under p.mu is one action; the dial is *)
(* outside the lock, between two actions.                                  *)
(*                                                                         *)
(* A session is a model value, and what is inside it (RTSP, RTP, the ring) *)
(* is not modelled here.  mpv is external: it plays what it was last told  *)
(* and reports the end of that (Playback has the reports that come late).  *)
(***************************************************************************)
EXTENDS Integers, Sequences, FiniteSets, Functions

CONSTANTS
    URLs,             \* channel URLs
    Rtsp,             \* the ones that start with "rtsp": local channels
    Expanded,         \* the ones with a cached pid-expanded URL
    Channels,         \* ui.channels, as a sequence of URLs
    Main,             \* the main thread
    Workers,          \* bound: neighbour goroutines alive at a time
    Sessions,         \* bound: sessions referred to at a time
    Tuners,           \* tuners of the box
    LoadfileMayFail,  \* whether mpv may refuse a loadfile command
    None

Callers == {Main} \cup Workers

ASSUME PrebufferAssumption ==
    /\ Rtsp \subseteq URLs /\ Expanded \subseteq Rtsp
    /\ Channels \in Seq(URLs)
    /\ Main \notin Workers
    /\ None \notin Sessions /\ None \notin URLs
    /\ Tuners \in Nat
    /\ LoadfileMayFail \in BOOLEAN

VARIABLES
    sessions,  \* p.sessions: URL -> session, None where the map has no entry
    open,      \* sessions whose stop channel is not closed
    closing,   \* sessions with a `go s.Close()` that has not run
    pc,        \* per caller: where in ensure (or, for Main, in playAttempt) it is
    arg,       \* per worker: the URL ensure was called with, None when it has ended
    tuning,    \* idx of the playAttempt under way, 0 between two
    held,      \* per caller: the session dialSatIP returned to it
    target,    \* what playAttempt is about to load
    mpv,       \* what mpv is doing
    current,   \* ui.current, 0 for -1
    retried,   \* ui.retried
    keep,      \* the set of the last SetActive (not in the code)
    lost,      \* of the URLs awaited, those whose session died by itself after
               \* ensure gave it to the main thread (not in the code)
    refused    \* a public loadfile was refused while mpv waited for a session
               \* or was served from one (not in the code)

poolVars == <<sessions, open, closing, held>>
uiVars   == <<target, mpv, current, retried, tuning>>
ghosts   == <<lost, refused>>
vars     == <<poolVars, pc, arg, uiVars, keep, ghosts>>

Targets  == {"proxy", "raw", "expanded", "public"}
MpvModes == {"idle", "ask", "serve", "connect", "direct", "public", "ended"}

(* The types: the map and the goroutines refer to known sessions, and a    *)
(* goroutine holds a session exactly while it waits to install it.         *)
TypeOK ==
    /\ sessions \in [URLs -> Sessions \cup {None}]
    /\ open \subseteq Sessions
    /\ closing \subseteq Sessions
    /\ pc \in [Callers -> {"idle", "check", "dial", "install", "load", "active", "quit"}]
    /\ \A g \in Workers : pc[g] \in {"idle", "check", "dial", "install"}
    /\ arg \in [Workers -> URLs \cup {None}]
    /\ tuning \in 0..Len(Channels)
    /\ held \in [Callers -> Sessions \cup {None}]
    /\ \A g \in Callers : pc[g] = "install" <=> held[g] # None
    /\ target \in Targets
    /\ mpv \in [mode : MpvModes, url : URLs \cup {None},
                sess : Sessions \cup {None}, src : Targets]
    /\ current \in 0..Len(Channels)
    /\ retried \in BOOLEAN
    /\ keep \subseteq URLs
    /\ lost \subseteq URLs
    /\ refused \in BOOLEAN

Idle == [mode |-> "idle", url |-> None, sess |-> None, src |-> "public"]

Init ==
    /\ sessions = [u \in URLs |-> None]
    /\ open = {} /\ closing = {}
    /\ pc = [g \in Callers |-> "idle"]
    /\ arg = [g \in Workers |-> None]
    /\ tuning = 0
    /\ held = [g \in Callers |-> None]
    /\ target = "public" /\ mpv = Idle
    /\ current = 0 /\ retried = FALSE
    /\ keep = {} /\ lost = {} /\ refused = FALSE

-----------------------------------------------------------------------------
(* Helpers.                                                                *)

(* s, ok := p.sessions[u]; ok && !s.closed()                               *)
Live_Unclosed(u) == sessions[u] # None
Live(u) == sessions[u] \in open

(* The URL a caller of ensure passed.                                      *)
Arg(g) == IF g # Main THEN arg[g] ELSE IF tuning = 0 THEN None ELSE Channels[tuning]

Mapped == Range(sessions)

(* A session dialSatIP may create: one nobody refers to any more.          *)
Fresh(s) == /\ s \notin open \cup closing
            /\ s \notin Mapped \cup Range(held)
            /\ s # mpv.sess

(* The tuners in use: one per open session, one for mpv's own RTSP session.*)
TunersUsed == Cardinality(open) + IF mpv.mode = "direct" THEN 1 ELSE 0

(* The RTSP neighbours of channel i, one goroutine each (a list of two     *)
(* channels yields the same neighbour twice).                              *)
NeighborRTSPURLs(i) ==
    LET n == Len(Channels)
        At(d) == Channels[((i - 1 + d + n) % n) + 1]
        Warm(u) == IF u \in Rtsp /\ u # Channels[i] THEN <<u>> ELSE <<>>
    IN  IF n < 2 THEN <<>> ELSE Warm(At(-1)) \o Warm(At(1))

-----------------------------------------------------------------------------
(* ensure.                                                                 *)

(* ensure returns: a neighbour goroutine ends, the main thread goes on in  *)
(* StreamURL, with the proxy URL if it got a session and the channel's raw *)
(* URL if not.                                                             *)
EnsureReturns(g, gotSession) ==
    IF g = Main
    THEN /\ pc' = [pc EXCEPT ![g] = "load"]
         /\ target' = IF gotSession THEN "proxy" ELSE "raw"
         /\ UNCHANGED arg
    ELSE /\ pc' = [pc EXCEPT ![g] = "idle"]
         /\ arg' = [arg EXCEPT ![g] = None]
         /\ UNCHANGED target

(* Whether the session ensure gives the main thread is still live.         *)
Given(g, live) ==
    lost' = IF g # Main THEN lost ELSE IF live THEN lost \ {Arg(g)} ELSE lost \cup {Arg(g)}

(* The first critical section: a live session is returned as it is ...     *)
EnsureHit(g) ==
    /\ pc[g] = "check"
    /\ Live(Arg(g))
    /\ EnsureReturns(g, TRUE)
    /\ Given(g, TRUE)
    /\ UNCHANGED <<poolVars, mpv, current, retried, tuning, keep, refused>>

(* ... a dead or missing one is removed, and the lock released for the dial. *)
EnsureMiss(g) ==
    /\ pc[g] = "check"
    /\ ~Live(Arg(g))
    /\ sessions' = [sessions EXCEPT ![Arg(g)] = None]
    /\ pc' = [pc EXCEPT ![g] = "dial"]
    /\ UNCHANGED <<open, closing, held, arg, uiVars, keep, ghosts>>

DialOk(g) ==
    /\ pc[g] = "dial"
    /\ TunersUsed < Tuners
    /\ \E s \in Sessions :
         /\ Fresh(s)
         /\ open' = open \cup {s}
         /\ held' = [held EXCEPT ![g] = s]
    /\ pc' = [pc EXCEPT ![g] = "install"]
    /\ UNCHANGED <<sessions, closing, arg, uiVars, keep, ghosts>>

(* No tuner, no answer, or no data on any of three attempts.               *)
DialFail_WaitsForTuner(g) ==
    /\ pc[g] = "dial" /\ FALSE
    /\ UNCHANGED vars

DialFail(g) ==
    /\ pc[g] = "dial"
    /\ EnsureReturns(g, FALSE)
    /\ UNCHANGED <<poolVars, mpv, current, retried, tuning, keep, ghosts>>

(* The second critical section: of two ensures that raced, the first keeps *)
(* its session and the other closes its own.                               *)
Install_Overwrite(g) ==
    /\ pc[g] = "install"
    /\ sessions' = [sessions EXCEPT ![Arg(g)] = held[g]]
    /\ closing' = closing \cup ({sessions[Arg(g)]} \ {None})
    /\ held' = [held EXCEPT ![g] = None]
    /\ EnsureReturns(g, TRUE)
    /\ Given(g, held[g] \in open)
    /\ UNCHANGED <<open, mpv, current, retried, tuning, keep, refused>>

Install_ForgetsClose(g) ==
    /\ pc[g] = "install"
    /\ sessions' = IF Live(Arg(g)) THEN sessions
                   ELSE [sessions EXCEPT ![Arg(g)] = held[g]]
    /\ held' = [held EXCEPT ![g] = None]
    /\ EnsureReturns(g, TRUE)
    /\ Given(g, Live(Arg(g)) \/ held[g] \in open)
    /\ UNCHANGED <<open, closing, mpv, current, retried, tuning, keep, refused>>

Install(g) ==
    /\ pc[g] = "install"
    /\ IF Live(Arg(g))
       THEN closing' = closing \cup {held[g]} /\ UNCHANGED sessions
       ELSE sessions' = [sessions EXCEPT ![Arg(g)] = held[g]] /\ UNCHANGED closing
    /\ held' = [held EXCEPT ![g] = None]
    /\ EnsureReturns(g, TRUE)
    /\ Given(g, Live(Arg(g)) \/ held[g] \in open)
    /\ UNCHANGED <<open, mpv, current, retried, tuning, keep, refused>>

-----------------------------------------------------------------------------
(* SetActive, and the end of sessions.                                     *)

KeepSet_Neighbors(cur, neighbors) == Range(neighbors)
KeepSet(cur, neighbors) == cur \cup Range(neighbors)

(* The map without the entries outside a set.                              *)
Retained(kept) == [u \in URLs |-> IF u \in kept THEN sessions[u] ELSE None]

(* The locked section of SetActive and the goroutines it starts; the main  *)
(* thread goes on at next.  The dials under way are not told.              *)
SetActive(cur, neighbors, next) ==
    LET kept == KeepSet(cur, neighbors)
        drop == {sessions[u] : u \in URLs \ kept} \ {None}
        idle == {g \in Workers : pc[g] = "idle"}
    IN  \E w \in [DOMAIN neighbors -> idle] :
          /\ IsInjective(w)
          /\ sessions' = Retained(kept)
          /\ closing' = closing \cup drop
          /\ pc' = [g \in Callers |-> CASE g \in Range(w) -> "check"
                                       [] g = Main        -> next
                                       [] OTHER           -> pc[g]]
          /\ arg' = [g \in Workers |-> IF g \in Range(w)
                                       THEN neighbors[CHOOSE i \in DOMAIN w : w[i] = g]
                                       ELSE arg[g]]
          /\ keep' = kept
          /\ UNCHANGED <<open, held>>

(* The goroutine of `go s.Close()`: stop and ring are closed, the tuner is *)
(* given back.                                                             *)
CloseRun(s) ==
    /\ s \in closing
    /\ closing' = closing \ {s}
    /\ open' = open \ {s}
    /\ UNCHANGED <<sessions, held, pc, arg, uiVars, keep, ghosts>>

(* The URLs whose session loadfile counts on, or mpv's request.            *)
Awaited == (IF pc[Main] = "load" /\ target = "proxy" THEN {Channels[tuning]} ELSE {})
           \cup (IF mpv.mode = "ask" THEN {mpv.url} ELSE {})

(* A session closes itself: RTP silent for 12 s, starving, or a failed     *)
(* keepalive.  It stays in the map until somebody looks.                   *)
SessionDies(s) ==
    /\ s \in open
    /\ open' = open \ {s}
    /\ lost' = lost \cup {u \in URLs \cap Awaited : sessions[u] = s}
    /\ UNCHANGED <<sessions, closing, held, pc, arg, uiVars, keep, refused>>

-----------------------------------------------------------------------------
(* The UI on the main thread.                                              *)

(* play(idx) of an RTSP channel: StreamURL calls ensure on this thread.    *)
PlayRtsp(i) ==
    /\ pc[Main] = "idle"
    /\ Channels[i] \in Rtsp
    /\ pc' = [pc EXCEPT ![Main] = "check"]
    /\ tuning' = i
    /\ retried' = FALSE
    /\ UNCHANGED <<poolVars, arg, target, mpv, current, keep, ghosts>>

(* play(idx) of a public channel: SetActive("", nil), "free the box        *)
(* tuners", comes first.                                                   *)
PlayPublic(i) ==
    /\ pc[Main] = "idle"
    /\ Channels[i] \notin Rtsp
    /\ SetActive({}, <<>>, "load")
    /\ tuning' = i
    /\ target' = "public"
    /\ retried' = FALSE
    /\ UNCHANGED <<mpv, current, ghosts>>

(* What mpv does on loadfile: it drops what it plays, opens the target.    *)
Opening(u) == [mode |-> CASE target = "proxy"  -> "ask"
                          [] target = "public" -> "public"
                          [] OTHER             -> "connect",
               url |-> u, sess |-> None, src |-> target]

LoadOk ==
    /\ pc[Main] = "load"
    /\ mpv' = Opening(Channels[tuning])
    /\ current' = tuning
    /\ target' = "public"
    /\ refused' = FALSE
    /\ IF Channels[tuning] \in Rtsp
       THEN /\ pc' = [pc EXCEPT ![Main] = "active"]
            /\ UNCHANGED tuning
       ELSE /\ pc' = [pc EXCEPT ![Main] = "idle"]
            /\ tuning' = 0
    /\ lost' = lost \cap Awaited'
    /\ UNCHANGED <<poolVars, arg, retried, keep>>

(* "Failed to start": playAttempt returns with ui.current as it was, while *)
(* what it did to the sessions stays done.                                 *)
LoadFail ==
    /\ pc[Main] = "load"
    /\ LoadfileMayFail
    /\ pc' = [pc EXCEPT ![Main] = "idle"]
    /\ target' = "public" /\ tuning' = 0
    /\ refused' = \/ refused
                  \/ Channels[tuning] \notin Rtsp /\ mpv.mode \in {"ask", "serve"}
    /\ UNCHANGED <<poolVars, arg, mpv, current, retried, keep>>
    /\ lost' = lost \cap Awaited'

(* The call of SetActive after a successful loadfile.                      *)
Activate ==
    /\ pc[Main] = "active"
    /\ SetActive({Channels[tuning]}, NeighborRTSPURLs(tuning), "idle")
    /\ tuning' = 0
    /\ UNCHANGED <<target, mpv, current, retried, ghosts>>

(* playbackEnded: the first failure of a local channel is retried, without *)
(* the proxy ("retries bypass it to isolate faults").                      *)
Retry ==
    /\ pc[Main] = "idle" /\ mpv.mode = "ended" /\ current # 0
    /\ ~retried /\ Channels[current] \in Rtsp
    /\ pc' = [pc EXCEPT ![Main] = "load"]
    /\ tuning' = current
    /\ target' = IF Channels[current] \in Expanded THEN "expanded" ELSE "raw"
    /\ retried' = TRUE
    /\ mpv' = Idle
    /\ UNCHANGED <<poolVars, arg, current, keep, ghosts>>

(* playbackEnded: the failure is shown and the idle source loaded.         *)
GiveUp ==
    /\ pc[Main] = "idle" /\ mpv.mode = "ended" /\ current # 0
    /\ retried \/ Channels[current] \notin Rtsp
    /\ current' = 0
    /\ mpv' = Idle
    /\ UNCHANGED <<poolVars, pc, arg, target, retried, tuning, keep, ghosts>>

(* The deferred Close of the prebuffer when the window is closed.          *)
Quit ==
    /\ pc[Main] = "idle"
    /\ SetActive({}, <<>>, "quit")
    /\ mpv' = Idle
    /\ UNCHANGED <<target, current, retried, tuning, ghosts>>

-----------------------------------------------------------------------------
(* mpv and the handler of the proxy.                                       *)

(* handleStream finds a live session for the request and serves its ring.  *)
Serve ==
    /\ mpv.mode = "ask"
    /\ Live(mpv.url)
    /\ mpv' = [mpv EXCEPT !.mode = "serve", !.sess = sessions[mpv.url]]
    /\ UNCHANGED <<poolVars, pc, arg, target, current, retried, tuning, keep, refused>>
    /\ lost' = lost \cap Awaited'

NotFound ==
    /\ mpv.mode = "ask"
    /\ ~Live(mpv.url)
    /\ mpv' = [Idle EXCEPT !.mode = "ended"]
    /\ UNCHANGED <<poolVars, pc, arg, target, current, retried, tuning, keep>>
    /\ lost' = lost \cap Awaited' /\ refused' = FALSE

(* mpv's own RTSP session takes a tuner too.                               *)
Connect ==
    /\ mpv.mode = "connect"
    /\ TunersUsed < Tuners
    /\ mpv' = [mpv EXCEPT !.mode = "direct"]
    /\ UNCHANGED <<poolVars, pc, arg, target, current, retried, tuning, keep, ghosts>>

(* What mpv plays ends: its ring is closed and drained, no tuner is free,  *)
(* or the stream cannot be played.                                         *)
StreamEnds ==
    /\ mpv.mode \in {"serve", "connect", "direct", "public"}
    /\ mpv' = [Idle EXCEPT !.mode = "ended"]
    /\ refused' = FALSE
    /\ UNCHANGED <<poolVars, pc, arg, target, current, retried, tuning, keep, lost>>

-----------------------------------------------------------------------------
Ensure(g) == EnsureHit(g) \/ EnsureMiss(g) \/ DialOk(g) \/ DialFail(g) \/ Install(g)

UI == \/ \E i \in DOMAIN Channels : PlayRtsp(i) \/ PlayPublic(i)
      \/ LoadOk \/ LoadFail \/ Activate
      \/ Retry \/ GiveUp \/ Quit

Player == Serve \/ NotFound \/ Connect \/ StreamEnds

Next == \/ \E g \in Callers : Ensure(g)
        \/ \E s \in Sessions : CloseRun(s) \/ SessionDies(s)
        \/ UI
        \/ Player

Spec == Init /\ [][Next]_vars

(* A goroutine that is not blocked runs; a dial ends, as each of its       *)
(* connection attempts, requests and waits has a deadline (satip.go:61,    *)
(* 83, 152); the main thread finishes what it began.  The user, mpv and    *)
(* the box owe nothing.                                                    *)
Fairness == /\ \A g \in Callers : WF_vars(Ensure(g))
            /\ WF_vars(LoadOk \/ Activate)
            /\ \A s \in Sessions : WF_vars(CloseRun(s))

FairSpec == Spec /\ Fairness

-----------------------------------------------------------------------------
(* A live session is one the map knows, one a caller of ensure is about to *)
(* install, or one that is about to be closed: no interleaving of two      *)
(* ensures and a SetActive loses one, which would hold a tuner of the box  *)
(* until the program ends.                                                 *)
NoOrphanSession == open \subseteq Mapped \cup Range(held) \cup closing

(* No two map entries or callers share a session, and none that is live in *)
(* the map or held is already on its way to be closed.                     *)
OneOwner ==
    /\ \A u, v \in URLs : sessions[u] = sessions[v] /\ sessions[u] # None => u = v
    /\ \A u \in URLs : sessions[u] \in open => sessions[u] \notin closing
    /\ \A g \in Callers : held[g] # None => held[g] \notin Mapped \cup closing
    /\ \A g, h \in Callers : held[g] = held[h] /\ held[g] # None => g = h

(* Between two handlers of the UI, the session mpv is served from for the  *)
(* current channel is not about to be closed by us, unless the loadfile of *)
(* a public channel was refused, for which the sessions were dropped first *)
(* (ui.go:482-487): a refused local one costs it nothing.                  *)
ServedNotClosing ==
    pc[Main] = "idle" /\ mpv.mode = "serve" /\ mpv.sess \in open /\ ~refused
    => mpv.sess \notin closing

(* The proxy URL given to mpv finds a live session when mpv asks for it,   *)
(* unless the session died by itself after ensure gave it, or the loadfile *)
(* of a public channel was refused since.                                  *)
ProxyReady ==
    pc[Main] = "idle" /\ mpv.mode = "ask" /\ mpv.url \notin lost /\ ~refused
    => sessions[mpv.url] \in open

(* A live session of a channel that stays in the active set is never       *)
(* replaced or dropped: the warm buffer a zap counts on.                   *)
WarmSessionKept ==
    [][\A u \in URLs :
         sessions[u] \in open /\ sessions'[u] # sessions[u] => u \notin keep']_vars

(* The main thread always comes back to the event loop, although StreamURL *)
(* dials on it.                                                            *)
MainReturns == pc[Main] \in {"check", "dial", "install", "load", "active"}
               ~> pc[Main] = "idle"

(* A live session that is not in the map is closed or installed.           *)
TunersComeBack == \A s \in Sessions :
    s \in open /\ s \notin Mapped ~> s \notin open \/ s \in Mapped

-----------------------------------------------------------------------------
Settled == /\ pc[Main] = "idle" /\ closing = {}
           /\ \A g \in Workers : pc[g] = "idle"

(* "Sessions outside that set are torn down (freeing box tuners)           *)
(* [...] Empty current tears down all" (prebuffer.go:153-155): when        *)
(* nothing is under way, only sessions of the active set are up.           *)
OnlyActiveUp == Settled => \A u \in URLs : sessions[u] \in open => u \in keep
=============================================================================
