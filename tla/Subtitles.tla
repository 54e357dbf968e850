------------------------------ MODULE Subtitles -------------------------------
(***************************************************************************)
(* The subtitle preference (subs.go, applySubPref and cycleSub of ui.go)   *)
(* on top of Playback: it is applied when mpv reports a file as loaded,    *)
(* which is later than the file has tracks, and changed by a key that may  *)
(* be pressed at any time.  Which track a file starts with is mpv's        *)
(* choice.  Saving the preference is left out: one thread, one line.       *)
(***************************************************************************)
EXTENDS Playback, FiniteSetsExt

CONSTANTS
    TracksOf,      \* the subtitle tracks of each source, as mpv lists them
    RegionLangs    \* defaultSubPref

ASSUME SubtitlesAssumption ==
    /\ TracksOf \in [Chans \cup {IdleSource} -> Seq([lang : STRING, kind : STRING])]
    /\ RegionLangs \in Seq(STRING)

VARIABLES
    tracks,        \* those of the file that plays
    sid,           \* the one shown, 0 for none
    subPref,       \* languages, best first; <<>> for "" and for "off"
    cycled         \* the one shown was taken with the key (not in the code)

subVars == <<tracks, sid, subPref, cycled>>
allVars == <<vars, subVars>>

SubInit == Init /\ tracks = <<>> /\ sid = 0 /\ subPref = RegionLangs /\ cycled = FALSE

(* subTracks: all but teletext, which cannot be shown.                     *)
SubTracks == {i \in DOMAIN tracks : tracks[i].kind # "teletext"}

OfLang(lang) == {i \in SubTracks : tracks[i].lang = lang}

Available == {k \in DOMAIN subPref : OfLang(subPref[k]) # {}}

(* applySubPref: the best language there is, and of its tracks the first   *)
(* that is not for the hearing impaired, or else the first.                *)
Chosen_FirstTrack ==
    LET fit == {i \in SubTracks : \E k \in DOMAIN subPref : tracks[i].lang = subPref[k]}
    IN IF fit = {} THEN 0 ELSE Min(fit)

Chosen ==
    IF Available = {} THEN 0
    ELSE LET fit   == OfLang(subPref[Min(Available)])
             plain == {i \in fit : tracks[i].kind = "plain"}
         IN Min(IF plain = {} THEN fit ELSE plain)

(* playbackStarted.                                                        *)
SubLoaded == /\ HandleLoaded
             /\ sid' = IF current # None THEN Chosen ELSE sid
             /\ cycled' = (cycled /\ current = None)
             /\ UNCHANGED <<tracks, subPref>>

(* cycleSub: off, each track in turn, off; from a track that is not in the *)
(* list, off.  A track without a language is remembered as off.            *)
CycleSub ==
    LET after == {i \in SubTracks : i > sid}
        next  == IF after = {} \/ sid \notin SubTracks \cup {0} THEN 0 ELSE Min(after)
    IN /\ sid' = next /\ cycled' = TRUE
       /\ subPref' = IF next = 0 \/ tracks[next].lang = "" THEN <<>> ELSE <<tracks[next].lang>>
       /\ UNCHANGED <<vars, tracks>>

(* mpv has tracks from the moment a file is loaded until it ends.          *)
SubMpv ==
    \/ /\ MpvLoaded /\ tracks' = TracksOf[loaded] /\ sid' \in {0} \cup DOMAIN tracks'
       /\ cycled' = FALSE /\ UNCHANGED subPref
    \/ (MpvBegin \/ MpvEnds) /\ tracks' = <<>> /\ sid' = 0 /\ cycled' = FALSE /\ UNCHANGED subPref
    \/ MpvLog /\ UNCHANGED subVars

SubHandle ==
    \/ SubLoaded
    \/ (HandleLog \/ HandleEndIgnored \/ HandleEndRetry \/ HandleEndGiveUp) /\ UNCHANGED subVars

SubUser ==
    \/ (\E c \in Chans : Play(c)) /\ UNCHANGED subVars
    \/ (\E new \in SUBSET Chans : Refresh(new)) /\ UNCHANGED subVars
    \/ CycleSub

SubSpec == SubInit /\ [][SubUser \/ SubHandle \/ SubMpv]_allVars

(* As FairSpec.                                                            *)
SubFairSpec == /\ SubSpec
               /\ WF_allVars(SubHandle)
               /\ WF_allVars(SubMpv /\ MpvBegin)
               /\ WF_allVars(SubMpv /\ phase = "opening" /\ (MpvLoaded \/ MpvEnds))

-----------------------------------------------------------------------------
(* The track t is what the preference asks for: "first preferred language  *)
(* wins, plain tracks before hearing-impaired ones" (ui.go:599-600), and   *)
(* none when there is none in a language of the preference.                *)
Preferred(t) ==
    IF t = 0 THEN \A o \in SubTracks, j \in DOMAIN subPref : tracks[o].lang # subPref[j]
    ELSE /\ t \in SubTracks
         /\ \E k \in DOMAIN subPref :
              /\ tracks[t].lang = subPref[k]
              /\ \A o \in SubTracks, j \in DOMAIN subPref : tracks[o].lang = subPref[j] =>
                   k <= j /\ (k = j /\ tracks[o].kind = "plain" => tracks[t].kind = "plain")

(* The key's choice is remembered: a track by its language, otherwise off. *)
Remembered(t) == /\ t \in SubTracks \cup {0}
                 /\ subPref = IF t = 0 \/ tracks[t].lang = "" THEN <<>> ELSE <<tracks[t].lang>>

(* "the choice (language or 'off') is remembered across channels"          *)
(* (subs.go:10): when a channel plays and every event is handled, a track  *)
(* the preference asks for is shown, whatever mpv started with and in      *)
(* whatever order the file loaded and the user zapped and pressed the key; *)
(* or the one the key was last pressed to, and then the preference is what *)
(* is remembered of it.  That is "off" for a track without a language,     *)
(* which is shown until the next channel (README, section 5).              *)
SubsFollow ==
    events = <<>> /\ file = last /\ phase = "playing" /\ current # None =>
        IF cycled THEN Remembered(sid) ELSE Preferred(sid)
=============================================================================
