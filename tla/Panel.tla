-------------------------------- MODULE Panel ---------------------------------
(***************************************************************************)
(* What the user sees of ChannelList: the panel, drawn as an overlay that  *)
(* stays as it was until render draws it again, which each handler must    *)
(* ask for; the animations, each frame of which is drawn by tick; and the  *)
(* info bar, whose text is set at other times than it is shown.            *)
(*                                                                         *)
(* A frame is what its text depends on: the rows on the panel, the marker, *)
(* the selection and the lines above.  How far the panel has slid and the  *)
(* wording are left out.  The status is "busy" for "Tuning ..." and        *)
(* "Retrying ...", "failed" for every failure.  The bar's text is the URL  *)
(* of the channel whose name and programmes it gives (README).             *)
(***************************************************************************)
EXTENDS ChannelList

VARIABLES
    loadErr,     \* ui.loadErr is not nil
    status,      \* ui.status
    sliding,     \* ui.panelPos is not nil
    gliding,     \* ui.pillY is not nil
    overlay,     \* the overlay mpv shows, <<>> for none
    barShown,    \* ui.barShown
    bar          \* the text of the bar

barVars   == <<barShown, bar>>
panelVars == <<loadErr, status, sliding, gliding, overlay, barShown, bar>>
allVars   == <<vars, panelVars>>

-----------------------------------------------------------------------------
(* render draws the rows v of the channels chans, below a line that says   *)
(* that there is no public list, or else what is searched.                 *)
Header(chans, failed) ==
    IF failed THEN <<"unavailable">> ELSE <<"search", filter, Len(chans)>>

Frame(chans, v, failed) ==
    LET last == IF scroll + MaxRows > Len(v) THEN Len(v) ELSE scroll + MaxRows
        seen == SubSeq(v, scroll + 1, last)
    IN [header |-> Header(chans, failed),
        rows   |-> [k \in DOMAIN seen |-> IF seen[k].header # "" THEN <<seen[k].header>>
                                          ELSE chans[seen[k].chan].name],
        marked |-> {k \in DOMAIN seen : current # 0 /\ seen[k].chan = current},
        pill   |-> IF gliding \/ v = <<>> THEN -1 ELSE sel - scroll,
        status |-> status]

Drawn == IF visible \/ sliding THEN Frame(channels, view, loadErr) ELSE <<>>

Render == overlay' = Drawn'

(* showList and hideList slide the panel unless it is there already.       *)
Slide(show) == sliding' = (sliding \/ visible # show)

-----------------------------------------------------------------------------
(* main has shown the list, which loadChannels may have failed to get.     *)
PanelInit ==
    /\ Init
    /\ loadErr = (publicChans = <<>>)
    /\ status = "" /\ sliding = TRUE /\ gliding = FALSE
    /\ overlay = Drawn
    /\ barShown = FALSE /\ bar = ""

(* playAttempt, once mpv has taken the command.                            *)
Started_KeepsBar ==
    /\ status' = "busy"
    /\ Slide(FALSE)
    /\ UNCHANGED <<loadErr, gliding, barVars>>
    /\ Render

Started ==
    /\ status' = "busy"
    /\ bar' = channels[current'].url
    /\ Slide(FALSE)
    /\ UNCHANGED <<loadErr, gliding, barShown>>
    /\ Render

Tunes == (Enter \/ \E delta \in {-1, 1} : Step(delta)) /\ Started

(* The automatic retry is a play like another: the list is hidden, even if *)
(* the user has opened it since.                                           *)
Retry ==
    /\ current # 0
    /\ visible' = FALSE
    /\ UNCHANGED <<sources, rows, view, filter, sel, scroll, current>>
    /\ Started

(* mpv refuses a play or a retry.                                          *)
Refused ==
    /\ \/ visible /\ sel < Len(view) /\ ~IsHeader(view, sel)
       \/ ~visible /\ channels # <<>>
       \/ current # 0
    /\ status' = "failed"
    /\ UNCHANGED <<vars, loadErr, sliding, gliding, barVars>>
    /\ Render

(* playbackStarted.                                                        *)
Plays ==
    /\ current # 0
    /\ status' = ""
    /\ UNCHANGED <<vars, loadErr, sliding, gliding, barVars>>
    /\ Render

(* playbackEnded gives up.                                                 *)
Fails ==
    /\ GiveUp
    /\ status' = "failed"
    /\ Slide(TRUE)
    /\ UNCHANGED <<loadErr, gliding, barVars>>
    /\ Render

(* The keys that change what is searched.                                  *)
Searches ==
    /\ (\E letter \in Letters : Type(letter)) \/ Backspace \/ (filter # <<>> /\ Escape)
    /\ gliding' = FALSE
    /\ UNCHANGED <<loadErr, status, sliding, barVars>>
    /\ Render

(* The pill glides on a panel that does not scroll.                        *)
Moves ==
    /\ \E delta \in Deltas : Move(delta)
    /\ gliding' = (scroll' = scroll)
    /\ UNCHANGED <<loadErr, status, sliding, barVars>>
    /\ Render

ShowsHides ==
    /\ Toggle \/ (filter = <<>> /\ Escape)
    /\ Slide(~visible)
    /\ UNCHANGED <<loadErr, status, gliding, barVars>>
    /\ Render

(* setPublic clears the error, whose list is never empty.                  *)
LoadErr == loadErr /\ publicChans' = publicChans

(* refresh draws only a list that is open.                                 *)
Refreshes_NeverDraws ==
    /\ \E local \in Locals, public \in Publics : Refresh(local, public)
    /\ loadErr' = LoadErr
    /\ gliding' = FALSE
    /\ UNCHANGED <<status, sliding, overlay, barVars>>

Refreshes ==
    /\ \E local \in Locals, public \in Publics : Refresh(local, public)
    /\ loadErr' = LoadErr
    /\ gliding' = FALSE
    /\ UNCHANGED <<status, sliding, barVars>>
    /\ IF visible THEN Render ELSE UNCHANGED overlay

(* tickInfoBar: the bar is wanted while the cursor hovers or for some      *)
(* seconds, and its text is renewed when it appears and every three        *)
(* seconds after.                                                          *)
TickInfoBar(wanted, renew) ==
    /\ barShown' = (current # 0 /\ ~visible /\ wanted)
    /\ bar' = IF barShown' /\ (renew \/ ~barShown) THEN channels[current].url ELSE bar

(* tick: the bar, and the animations, which end with one frame more.       *)
Tick(wanted, renew) ==
    /\ TickInfoBar(wanted, renew)
    /\ UNCHANGED <<vars, loadErr, status>>
    /\ IF sliding \/ gliding
       THEN sliding' \in {FALSE, sliding} /\ gliding' \in {FALSE, gliding} /\ Render
       ELSE UNCHANGED <<sliding, gliding, overlay>>

PanelNext ==
    \/ Tunes \/ Retry \/ Refused \/ Plays \/ Fails
    \/ Searches \/ Moves \/ ShowsHides \/ Refreshes
    \/ \E wanted, renew \in BOOLEAN : Tick(wanted, renew)

PanelSpec == PanelInit /\ [][PanelNext]_allVars

-----------------------------------------------------------------------------
(* An open panel shows what there is: no refresh, search, failure, retry   *)
(* or animation leaves rows of an earlier list or search, a marker or a    *)
(* status that is over, a name a channel no longer has, or the line that   *)
(* there is no public list once there is one; and a panel that has slid    *)
(* away is gone.                                                           *)
OverlayFresh ==
    LET chans == Channels(localChans, publicChans)
        v     == View(chans, Items(localChans, publicChans), filter)
    IN /\ visible => overlay = Frame(chans, v, publicChans = <<>>)
       /\ ~visible /\ ~sliding => overlay = <<>>

(* The bar names the channel that plays, whatever order it was tuned,      *)
(* shown, refreshed and moved in the list.                                 *)
BarTrue == barShown /\ current # 0 => bar = channels[current].url
=============================================================================
