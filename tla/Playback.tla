------------------------------ MODULE Playback ------------------------------
(***************************************************************************)
(* The play attempts of the UI (playAttempt, playbackStarted,              *)
(* playbackEnded and noteMpvLog of ui.go) against mpv, which does what it  *)
(* is told later and reports through a queue the event loop of main.go     *)
(* drains.  An event carries no attempt number: by the time it is handled  *)
(* the user may have tuned elsewhere, or a refreshed list (rebuild) may no *)
(* longer have the channel.                                                *)
(*                                                                         *)
(* Main thread only, so a handler is one action.  Drawing, titles and the  *)
(* info bar are left out; the prebuffer is in Prebuffer.  mpv is external: *)
(* a loadfile ends the running file with reason "stop" and then opens the  *)
(* new one, which loads or fails.                                          *)
(***************************************************************************)
EXTENDS Integers, Sequences

CONSTANTS
    Chans,         \* channels, by URL
    Rtsp,          \* the local ones
    IdleSource,    \* the synthetic black video
    None,
    LoadfileMayFail,
    MaxLoads,      \* bound: loadfile commands
    MaxEvents,     \* bound: events in mpv's queue
    MaxRefreshes   \* bound: changes of the channel list

ASSUME PlaybackAssumption ==
    /\ Rtsp \subseteq Chans
    /\ IdleSource \notin Chans /\ None \notin Chans \cup {IdleSource}
    /\ LoadfileMayFail \in BOOLEAN
    /\ MaxLoads \in Nat \ {0} /\ MaxEvents \in Nat \ {0} /\ MaxRefreshes \in Nat

VARIABLES
    list,       \* the channels of ui.channels
    current,    \* the channel ui.current points to, None for -1
    retried,    \* ui.retried
    lastErr,    \* ui.lastMpvErr: the attempt whose line it is, 0 for ""
    status,     \* ui.status, without the channel's name
    last,       \* loadfile commands so far: the number of the last attempt
    loaded,     \* what the last of them loads
    file,       \* mpv: the attempt it is busy with, 0 at first
    phase,      \* mpv: "none", "opening" or "playing" that
    events,     \* mpv's event queue
    refreshes,  \* changes of the list so far (a bound)
    autos       \* automatic loads of a channel since the user's last (not in the code)

uiVars  == <<list, current, retried, lastErr, status, refreshes, autos>>
cmdVars == <<last, loaded>>
mpvVars == <<file, phase>>
vars    == <<uiVars, cmdVars, mpvVars, events>>

Statuses == {"", "tuning", "retrying", "failed", "not started"}
Event    == [type : {"loaded", "stop", "eof", "error", "log"}, of : 1..MaxLoads]

(* The types: the UI never points to a channel that is not in its list.    *)
TypeOK ==
    /\ list \subseteq Chans
    /\ current \in list \cup {None}
    /\ retried \in BOOLEAN
    /\ lastErr \in 0..MaxLoads
    /\ status \in Statuses
    /\ last \in 1..MaxLoads
    /\ loaded \in Chans \cup {IdleSource}
    /\ file \in 0..last
    /\ phase \in {"none", "opening", "playing"}
    /\ events \in Seq(Event) /\ Len(events) <= MaxEvents
    /\ refreshes \in 0..MaxRefreshes
    /\ autos \in Nat

(* main has just told mpv to load the idle source.                         *)
Init ==
    /\ list = Chans
    /\ current = None /\ retried = FALSE /\ lastErr = 0 /\ status = ""
    /\ last = 1 /\ loaded = IdleSource
    /\ file = 0 /\ phase = "none" /\ events = <<>>
    /\ refreshes = 0 /\ autos = 0

-----------------------------------------------------------------------------
(* mpv.                                                                    *)

Emit(type) == /\ Len(events) < MaxEvents
              /\ events' = Append(events, [type |-> type, of |-> file])

(* mpv turns to the last load; a file that was running ends with "stop".   *)
MpvBegin == /\ file < last
            /\ IF phase = "none" THEN UNCHANGED events ELSE Emit("stop")
            /\ file' = last
            /\ phase' = "opening"
            /\ UNCHANGED <<uiVars, cmdVars>>

MpvLoaded == /\ file = last /\ phase = "opening"
             /\ Emit("loaded")
             /\ phase' = "playing"
             /\ UNCHANGED <<uiVars, cmdVars, file>>

(* A channel's stream fails or ends; the idle source does neither.         *)
MpvEnds == /\ file = last /\ phase # "none" /\ loaded # IdleSource
           /\ \/ Emit("error")
              \/ phase = "playing" /\ Emit("eof")
           /\ phase' = "none"
           /\ UNCHANGED <<uiVars, cmdVars, file>>

(* Error lines leave room for an event that mpv must report (a bound).     *)
MpvLog == /\ file = last /\ phase # "none" /\ loaded # IdleSource
          /\ Len(events) + 1 < MaxEvents
          /\ Emit("log")
          /\ UNCHANGED <<uiVars, cmdVars, mpvVars>>

Mpv == MpvBegin \/ MpvLoaded \/ MpvEnds \/ MpvLog

-----------------------------------------------------------------------------
(* The UI.                                                                 *)

(* The loadfile command.                                                   *)
Loadfile(source) == /\ last < MaxLoads
                    /\ last' = last + 1
                    /\ loaded' = source

(* ui.retried as playAttempt leaves it.                                    *)
RetriedAfter_Never(isRetry) == FALSE
RetriedAfter(isRetry) == isRetry

(* playAttempt, when mpv takes the command.                                *)
PlayAttempt(c, isRetry) ==
    /\ Loadfile(c)
    /\ lastErr' = 0
    /\ retried' = RetriedAfter(isRetry)
    /\ current' = c
    /\ status' = IF isRetry THEN "retrying" ELSE "tuning"
    /\ autos' = IF isRetry THEN autos + 1 ELSE 0
    /\ UNCHANGED <<list, refreshes>>

(* playAttempt, when it does not: the flags are already reset.             *)
PlayRefused(isRetry) ==
    /\ LoadfileMayFail
    /\ lastErr' = 0
    /\ retried' = RetriedAfter(isRetry)
    /\ status' = "not started"
    /\ autos' = IF isRetry THEN autos ELSE 0
    /\ UNCHANGED <<list, current, refreshes, cmdVars>>

(* Enter on a row of the list, or a zap with the arrow keys.               *)
Play(c) == /\ c \in list
           /\ PlayAttempt(c, FALSE) \/ PlayRefused(FALSE)
           /\ UNCHANGED <<mpvVars, events>>

Receive(type) == events # <<>> /\ Head(events).type = type /\ events' = Tail(events)

(* playbackStarted.                                                        *)
HandleLoaded_OnlyFirst ==
    /\ Receive("loaded")
    /\ status' = IF current # None /\ ~retried THEN "" ELSE status
    /\ UNCHANGED <<list, current, retried, lastErr, refreshes, autos, cmdVars, mpvVars>>

HandleLoaded ==
    /\ Receive("loaded")
    /\ status' = IF current # None THEN "" ELSE status
    /\ UNCHANGED <<list, current, retried, lastErr, refreshes, autos, cmdVars, mpvVars>>

(* noteMpvLog keeps the first line.                                        *)
HandleLog ==
    /\ Receive("log")
    /\ lastErr' = IF lastErr = 0 THEN Head(events).of ELSE lastErr
    /\ UNCHANGED <<list, current, retried, status, refreshes, autos, cmdVars, mpvVars>>

(* playbackEnded, its early returns: nothing selected, or "stop".          *)
HandleEndIgnored ==
    /\ \/ Receive("stop")
       \/ current = None /\ (Receive("eof") \/ Receive("error"))
    /\ UNCHANGED <<uiVars, cmdVars, mpvVars>>

(* playbackEnded: a local stream gets one automatic retry.                 *)
HandleEndRetry ==
    /\ current # None
    /\ Receive("eof") \/ Receive("error")
    /\ ~retried /\ current \in Rtsp
    /\ PlayAttempt(current, TRUE) \/ PlayRefused(TRUE)
    /\ UNCHANGED mpvVars

(* playbackEnded: the failure is shown and the idle source loaded.         *)
HandleEndGiveUp ==
    /\ current # None
    /\ Receive("eof") \/ Receive("error")
    /\ retried \/ current \notin Rtsp
    /\ status' = "failed"
    /\ current' = None
    /\ \/ Loadfile(IdleSource)
       \/ LoadfileMayFail /\ UNCHANGED cmdVars
    /\ UNCHANGED <<list, retried, lastErr, refreshes, autos, mpvVars>>

(* rebuild after a source changed: the current channel is looked up again  *)
(* by its URL; the stream goes on either way.                              *)
Refresh(new) ==
    /\ refreshes < MaxRefreshes /\ new # list
    /\ refreshes' = refreshes + 1
    /\ list' = new
    /\ current' = IF current \in new THEN current ELSE None
    /\ UNCHANGED <<retried, lastErr, status, autos, cmdVars, mpvVars, events>>

Handle == \/ HandleLoaded \/ HandleLog \/ HandleEndIgnored
          \/ HandleEndRetry \/ HandleEndGiveUp

Next == \/ \E c \in Chans : Play(c)
        \/ \E new \in SUBSET Chans : Refresh(new)
        \/ Handle
        \/ Mpv

Spec == Init /\ [][Next]_vars

(* The event loop drains the queue, and mpv opens what it is told to or    *)
(* fails, at the latest after its network-timeout.                         *)
FairSpec == /\ Spec
            /\ WF_vars(Handle)
            /\ WF_vars(MpvBegin)
            /\ WF_vars(phase = "opening" /\ (MpvLoaded \/ MpvEnds))

-----------------------------------------------------------------------------
(* However events, zaps and list changes interleave, a choice of the user  *)
(* causes at most one automatic load: a dead channel cannot keep a tuner   *)
(* of the box busy with retries.                                           *)
OneRetry == autos <= 1

(* The channel shown as playing is the one mpv was last told to load.      *)
CurrentIsLoaded == current # None => loaded = current

(* When mpv plays the current channel and every event is handled, the UI   *)
(* no longer says "Tuning" or "Retrying".                                  *)
StatusSettles ==
    events = <<>> /\ file = last /\ phase = "playing" /\ current # None
    => status \notin {"tuning", "retrying", "failed"}

(* A tuning ends: the channel plays, its failure is shown, or it has been  *)
(* taken off the list meanwhile (or the bound on loads is reached).        *)
TuningEnds == status \in {"tuning", "retrying"}
              ~> status \notin {"tuning", "retrying"} \/ current = None \/ last = MaxLoads

-----------------------------------------------------------------------------
(* "'stop' fires when loadfile replaces the running stream [...] neither   *)
(* is a failure" (ui.go:660-661): a stream that was replaced cannot make   *)
(* the new one fail or retry.                                              *)
ReplacedIsNoFailure ==
    [][HandleEndRetry \/ HandleEndGiveUp => Head(events).of = last]_vars
=============================================================================
