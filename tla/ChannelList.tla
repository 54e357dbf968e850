----------------------------- MODULE ChannelList -----------------------------
(***************************************************************************)
(* The channel list of the UI: how two sources become rows                 *)
(* (arrangeChannels of order.go), the rows shown under a search            *)
(* (applyFilter), the selected row and the scroll position (moveSel,       *)
(* snapSelectable, clampScroll), what the keys do to them, and zapping.    *)
(* A refresh replaces the channels while any of this goes on.              *)
(*                                                                         *)
(* Rows, sel and scroll count from 0 as in the code: row i is view[i + 1]. *)
(* Channels count from 1, and 0 stands for -1, no channel.  Names and the  *)
(* search are sequences of letters, lowercased.                            *)
(***************************************************************************)
EXTENDS Subsequences, SequencesExt

CONSTANTS
    Locals,      \* lists of channels the box may serve
    Publics,     \* public lists
    Categories,  \* category names in alphabetical order, without Undefined
    Undefined,   \* "Undefined", shown for ""
    Home,        \* home country, "" if unknown
    LocalHeader, \* the header of the local section
    Letters,
    MaxRows,     \* rows that fit on the panel
    MaxFilter    \* bound: letters typed

(* A channel of a source, with the fields that matter here.                *)
Channel == [url : STRING, name : Seq(STRING), country : STRING,
            category : {"", Undefined} \cup ToSet(Categories)]

ASSUME ListAssumption ==
    /\ <<>> \in Locals /\ Locals \subseteq Seq(Channel) /\ Publics \subseteq Seq(Channel)
    /\ Categories \in Seq(STRING \ {"", Undefined})
    /\ \A i, j \in DOMAIN Categories : Categories[i] = Categories[j] => i = j
    /\ Undefined \in STRING \ {""} /\ LocalHeader \in STRING \ {""}
    /\ MaxRows \in Nat /\ MaxRows >= 2
    /\ MaxFilter \in Nat

VARIABLES
    localChans, publicChans,  \* the sources
    channels,    \* ui.channels
    items,       \* ui.items: all rows
    view,        \* ui.view: the rows shown
    filter,      \* ui.filter
    sel,         \* ui.sel
    scroll,      \* ui.scroll
    visible,     \* ui.visible
    current      \* ui.current

sources == <<localChans, publicChans>>
rows    == <<channels, items>>
vars    == <<sources, rows, view, filter, sel, scroll, visible, current>>

-----------------------------------------------------------------------------
(* arrangeChannels.                                                        *)

Category(c) == IF c.category = "" THEN Undefined ELSE c.category

IsHome(c) == Home # "" /\ c.country = Home

(* Undefined comes last whatever its place in the alphabet.                *)
GroupOrder_Named == Categories
GroupOrder       == Append(Categories, Undefined)

Used(public)  == {g \in DOMAIN GroupOrder : \E c \in ToSet(public) : Category(c) = GroupOrder[g]}
Names(public) == At(GroupOrder, Used(public))

(* A stable sort: home-country channels first.                             *)
Homes(public, name)  == {k \in DOMAIN public : Category(public[k]) = name /\ IsHome(public[k])}
Others(public, name) == {k \in DOMAIN public : Category(public[k]) = name /\ ~IsHome(public[k])}

Group(public, name) == At(public, Homes(public, name)) \o At(public, Others(public, name))

Channels(local, public) ==
    LET names == Names(public)
    IN local \o FlattenSeq([i \in DOMAIN names |-> Group(public, names[i])])

HeaderRow(h)  == [header |-> h, chan |-> 0]
ChannelRow(i) == [header |-> "", chan |-> i]

ShowHeaders(local, public) ==
    local # <<>> \/ Names(public) \notin {<<>>, <<Undefined>>}

(* The rows of one section, whose channels begin after number `before`.    *)
Section(header, headed, before, n) ==
    (IF headed THEN <<HeaderRow(header)>> ELSE <<>>) \o [i \in 1..n |-> ChannelRow(before + i)]

Items(local, public) ==
    LET names     == Names(public)
        headed    == ShowHeaders(local, public)
        before(i) == Len(local) + Len(FlattenSeq([j \in 1..(i - 1) |-> Group(public, names[j])]))
    IN Section(LocalHeader, local # <<>>, 0, Len(local)) \o
       FlattenSeq([i \in DOMAIN names |->
                     Section(names[i], headed, before(i), Len(Group(public, names[i])))])

-----------------------------------------------------------------------------
(* Selection and scrolling, as functions of the rows v that are shown.     *)

Clamp(i, lo, hi) == IF i < lo THEN lo ELSE IF i > hi THEN hi ELSE i

IsHeader(v, i) == i \in 0..(Len(v) - 1) /\ v[i + 1].header # ""

Selectable(v) == {i \in 0..(Len(v) - 1) : v[i + 1].header = ""}

Nearest(S, i) == CHOOSE j \in S : \A k \in S : (j - i) * (j - i) <= (k - i) * (k - i)

(* snapSelectable: the nearest channel row in the direction of the move,   *)
(* or else the nearest one behind.                                         *)
Snap_ForwardOnly(v, i, dir) ==
    IF v = <<>> THEN 0
    ELSE LET at    == Clamp(i, 0, Len(v) - 1)
             ahead == {j \in Selectable(v) : (j - at) * dir >= 0}
         IN IF ahead # {} THEN Nearest(ahead, at) ELSE at

Snap(v, i, dir) ==
    IF v = <<>> THEN 0
    ELSE LET at     == Clamp(i, 0, Len(v) - 1)
             ahead  == {j \in Selectable(v) : (j - at) * dir >= 0}
             behind == Selectable(v) \ ahead
         IN IF ahead # {} THEN Nearest(ahead, at)
            ELSE IF behind # {} THEN Nearest(behind, at) ELSE at

(* clampScroll: the selection is on the panel, with the header right above *)
(* it, and no row of the panel is wasted.                                  *)
ClampScroll(v, s, top) ==
    LET inside   == Clamp(top, s - MaxRows + 1, s)
        revealed == IF inside = s /\ s > 0 /\ IsHeader(v, s - 1) THEN s - 1 ELSE inside
    IN Clamp(revealed, 0, IF Len(v) > MaxRows THEN Len(v) - MaxRows ELSE 0)

(* The rows under a search: matching channels, without headers.            *)
Matches(chans, f) == Ascending({i \in DOMAIN chans : f \in SubSeqs(chans[i].name)})

View(chans, all, f) ==
    IF f = <<>> THEN all
    ELSE LET hits == Matches(chans, f) IN [k \in DOMAIN hits |-> ChannelRow(hits[k])]

(* applyFilter, from the selection s and the scroll position top.          *)
ApplyFilter(chans, all, f, s, top) ==
    LET v    == View(chans, all, f)
        kept == Snap(v, Clamp(s, 0, IF v = <<>> THEN 0 ELSE Len(v) - 1), 1)
    IN /\ filter' = f
       /\ view' = v
       /\ sel' = kept
       /\ scroll' = ClampScroll(v, kept, top)

-----------------------------------------------------------------------------
(* rebuild: the current channel is found again by its URL, the first one   *)
(* if a list has it twice.                                                 *)
Resolve_Index(chans) == IF current <= Len(chans) THEN current ELSE 0

Resolve(chans) ==
    IF current = 0 THEN 0
    ELSE SelectInSeq(chans, LAMBDA c : c.url = channels[current].url)

Rebuild(local, public) ==
    LET chans == Channels(local, public)
        all   == Items(local, public)
    IN /\ channels' = chans
       /\ items' = all
       /\ current' = Resolve(chans)
       /\ ApplyFilter(chans, all, filter, sel, scroll)

(* newUI; main then shows the list.                                        *)
Init ==
    /\ localChans = <<>> /\ publicChans \in Publics
    /\ channels = Channels(<<>>, publicChans)
    /\ items = Items(<<>>, publicChans)
    /\ view = items /\ filter = <<>>
    /\ sel = Snap(view, 0, 1)
    /\ scroll = ClampScroll(view, sel, 0)
    /\ visible = TRUE /\ current = 0

(* setLocal, or setPublic, which never gets an empty list; each may get    *)
(* the list that is there.                                                 *)
Refresh(local, public) ==
    /\ local = localChans \/ public = publicChans
    /\ public # publicChans => public # <<>>
    /\ localChans' = local /\ publicChans' = public
    /\ Rebuild(local, public)
    /\ UNCHANGED visible

(* handleChar.                                                             *)
Type(letter) ==
    /\ visible /\ Len(filter) < MaxFilter
    /\ ApplyFilter(channels, items, Append(filter, letter), 0, 0)
    /\ UNCHANGED <<sources, rows, visible, current>>

Backspace ==
    /\ visible /\ filter # <<>>
    /\ ApplyFilter(channels, items, Front(filter), sel, scroll)
    /\ UNCHANGED <<sources, rows, visible, current>>

(* Escape clears the search, and hides the list when there is none and a   *)
(* channel plays.                                                          *)
Escape ==
    /\ visible
    /\ \/ /\ filter # <<>>
          /\ ApplyFilter(channels, items, <<>>, sel, scroll)
          /\ UNCHANGED visible
       \/ /\ filter = <<>> /\ current # 0
          /\ visible' = FALSE
          /\ UNCHANGED <<view, filter, sel, scroll>>
    /\ UNCHANGED <<sources, rows, current>>

(* moveSel: arrows, page keys and the scroll wheel.                        *)
Dir(delta) == IF delta < 0 THEN -1 ELSE 1

Move(delta) ==
    /\ visible /\ view # <<>>
    /\ sel' = Snap(view, sel + delta, Dir(delta))
    /\ scroll' = ClampScroll(view, sel', scroll)
    /\ UNCHANGED <<sources, rows, view, filter, visible, current>>

(* Enter plays the selected row, and a channel that starts hides the list. *)
Enter ==
    /\ visible /\ sel < Len(view) /\ ~IsHeader(view, sel)
    /\ current' = view[sel + 1].chan
    /\ visible' = FALSE
    /\ UNCHANGED <<sources, rows, view, filter, sel, scroll>>

(* Tab, and with the list hidden also Enter and Escape.                    *)
Toggle ==
    /\ visible' = ~visible
    /\ UNCHANGED <<sources, rows, view, filter, sel, scroll, current>>

(* step: the channel before or after the current one, round the ends.      *)
Stepped(delta) ==
    LET to == current + delta
    IN IF to < 1 THEN Len(channels) ELSE IF to > Len(channels) THEN 1 ELSE to

Step(delta) ==
    /\ ~visible /\ channels # <<>>
    /\ current' = Stepped(delta)
    /\ UNCHANGED <<sources, rows, view, filter, sel, scroll, visible>>

(* playbackEnded gives up.                                                 *)
GiveUp ==
    /\ current # 0
    /\ current' = 0 /\ visible' = TRUE
    /\ UNCHANGED <<sources, rows, view, filter, sel, scroll>>

(* The wheel moves by any number of rows; past the ends they count for     *)
(* none, and so does what a page has more than the list.                   *)
Deltas == (-Len(view)..Len(view)) \ {0}

Next == \/ \E local \in Locals, public \in Publics : Refresh(local, public)
        \/ \E letter \in Letters : Type(letter)
        \/ Backspace \/ Escape \/ Enter \/ Toggle \/ GiveUp
        \/ \E delta \in Deltas : Move(delta)
        \/ \E delta \in {-1, 1} : Step(delta)

Spec == Init /\ [][Next]_vars

-----------------------------------------------------------------------------
Rows == [header : {""}, chan : 1..Len(channels)] \cup
        [header : {LocalHeader, Undefined} \cup ToSet(Categories), chan : {0}]

(* The types: every row shown is a header or names a channel that exists,  *)
(* so that Enter cannot index past ui.channels after a refresh.            *)
TypeOK ==
    /\ localChans \in Locals /\ publicChans \in Publics
    /\ items \in Seq(Rows) /\ view \in Seq(Rows)
    /\ sel \in Nat /\ scroll \in Nat
    /\ visible \in BOOLEAN
    /\ current \in 0..Len(channels)

(* "always a channel row" (ui.go:43): no search, refresh or move leaves the *)
(* selection on a header or outside the rows; it is on the panel, with a   *)
(* header right above it, and the panel is full if it can be.              *)
SelOnPanel ==
    view # <<>> => /\ sel \in Selectable(view)
                   /\ scroll <= IF IsHeader(view, sel - 1) THEN sel - 1 ELSE sel
                   /\ sel < scroll + MaxRows
                   /\ scroll = 0 \/ scroll + MaxRows <= Len(view)

(* Every channel of both sources has one row, in the order of ui.channels; *)
(* within a section of the public list home-country channels come first,   *)
(* and otherwise the order of the playlist is kept.                        *)
Arranged ==
    /\ {items[i].chan : i \in DOMAIN items} \ {0} = DOMAIN channels
    /\ \A i, j \in DOMAIN items :
         i < j /\ items[i].chan # 0 /\ items[j].chan # 0 => items[i].chan < items[j].chan
    /\ \A c \in ToSet(localChans) \cup ToSet(publicChans) :
         Cardinality({i \in DOMAIN channels : channels[i] = c})
           = Cardinality({i \in DOMAIN localChans : localChans[i] = c})
             + Cardinality({i \in DOMAIN publicChans : publicChans[i] = c})
    /\ \A i, j \in (Len(localChans) + 1)..Len(channels) :
         LET c == channels[i] d == channels[j]
         IN i < j /\ Category(c) = Category(d) /\ c # d =>
            \/ IsHome(c) /\ ~IsHome(d)
            \/ /\ IsHome(c) = IsHome(d)
               /\ \E k, l \in DOMAIN publicChans :
                    k < l /\ publicChans[k] = c /\ publicChans[l] = d

(* A refresh leaves the marker of the playing channel on that channel, or  *)
(* takes it away with the channel.                                         *)
MarkerFollows ==
    [][<<localChans, publicChans>>' # sources /\ current # 0
       => IF \E c \in ToSet(channels') : c.url = channels[current].url
          THEN current' # 0 /\ channels'[current'].url = channels[current].url
          ELSE current' = 0]_vars
=============================================================================
