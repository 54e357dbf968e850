------------------------------- MODULE Playlist --------------------------------
(***************************************************************************)
(* The m3u parser (parseM3U of m3u.go) and what tells a playlist from      *)
(* another page (probeOne of discover.go).                                 *)
(*                                                                         *)
(* A page is the sequence of its lines, each of which is what the switch   *)
(* of parseM3U takes it for: a blank, the #EXTM3U header, an #EXTINF with  *)
(* the channel's name ("" when it has none), another directive, a line     *)
(* longer than the scanner's buffer, or anything else, which is an         *)
(* address.  Category and country travel with the name and are left out.   *)
(***************************************************************************)
EXTENDS Integers, Sequences, SequencesExt, Subsequences

Blank      == [kind |-> "blank", text |-> ""]
Header     == [kind |-> "header", text |-> ""]
Directive  == [kind |-> "directive", text |-> ""]
Overlong   == [kind |-> "overlong", text |-> ""]
Extinf(t)  == [kind |-> "extinf", text |-> t]
Address(t) == [kind |-> "address", text |-> t]

Channel(name, url) == [name |-> IF name = "" THEN url ELSE name, url |-> url]

(* One turn of the scanner's loop: pending is the name read last.          *)
ReadLine(read, line) ==
    CASE line.kind = "extinf"  -> [read EXCEPT !.pending = line.text]
      [] line.kind = "address" -> [channels |-> Append(read.channels, Channel(read.pending, line.text)),
                                   pending  |-> ""]
      [] OTHER -> read

(* What the loop holds after each line.                                   *)
Scan(page) ==
    LET read[n \in 0..Len(page)] ==
            IF n = 0 THEN [channels |-> <<>>, pending |-> ""]
                     ELSE ReadLine(read[n - 1], page[n])
    IN read

(* parseM3U; <<>> stands for its two errors, a line that is too long and a *)
(* page without channels.                                                  *)
ParseM3U(page) ==
    IF \E i \in DOMAIN page : page[i].kind = "overlong"
    THEN <<>>
    ELSE Scan(page)[Len(page)].channels

(* TrimSpace and HasPrefix: the first line that is not blank is a header.  *)
HasHeader(page) ==
    \E i \in DOMAIN page : /\ page[i].kind = "header"
                           /\ \A j \in 1..(i - 1) : page[j].kind = "blank"

(* probeOne, <<>> when it answers nil.                                     *)
ProbeOne(page) == IF HasHeader(page) THEN ParseM3U(page) ELSE <<>>

-----------------------------------------------------------------------------
(* What a page means, whatever loop reads it: every address is a channel,  *)
(* in order, and is called by the last EXTINF between it and the address   *)
(* before it, or else by itself.                                           *)
Addresses(page) == {i \in DOMAIN page : page[i].kind = "address"}

NameBefore(page, i) ==
    LET names == {j \in 1..(i - 1) : /\ page[j].kind = "extinf"
                                     /\ \A k \in j..(i - 1) : page[k].kind # "address"}
    IN IF names = {} THEN "" ELSE page[Max(names)].text

Means(page) ==
    [k \in 1..Cardinality(Addresses(page)) |->
        LET i == Nth(Addresses(page), k)
        IN Channel(NameBefore(page, i), page[i].text)]
=============================================================================
