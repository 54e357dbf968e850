----------------------------- MODULE MCPlayback ------------------------------
(***************************************************************************)
(* Playback and Subtitles with a local and a public channel, enough loads  *)
(* for a play, a retry, a failure and another play, and lists that lose a  *)
(* channel.                                                                *)
(***************************************************************************)
EXTENDS Subtitles

CONSTANTS local, public

Track(lang, kind) == [lang |-> lang, kind |-> kind]

Tracks == [s \in {local, public, IdleSource} |->
    CASE s = local  -> <<Track("swe", "plain"), Track("fin", "teletext"), Track("fin", "hi"), Track("", "plain")>>
      [] s = public -> <<Track("swe", "hi"), Track("swe", "plain")>>
      [] OTHER      -> <<>>]

FinlandLangs == <<"fin", "swe">>
=============================================================================
