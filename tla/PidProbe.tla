------------------------------ MODULE PidProbe ------------------------------
(***************************************************************************)
(* probeProgramPIDs and sectionAssembler (pmt.go): the probe of a channel  *)
(* reads transport packets off its session, puts the PAT together, finds   *)
(* the PMT that the channel's URL asks for, puts that together, and merges *)
(* its pids into the URL.                                                  *)
(*                                                                         *)
(* A section is a run of cells <<table, i>>.  Its length is known from the *)
(* first Header cells, and each later cell is one entry (a program of the  *)
(* PAT, a pid of a PMT).  The broadcaster (external) repeats every table   *)
(* and cuts it into packets as it likes: a packet has room for up to Room  *)
(* cells, an adaptation field takes some or all of it, and after the end   *)
(* of a section comes stuffing or, if it packs, the start of the next.     *)
(* Datagrams are lost; there are up to Losses of them.                     *)
(***************************************************************************)
EXTENDS Subsequences, Functions, FiniteSetsExt

CONSTANTS
    Header,     \* cells before a section's length is known (3 bytes)
    Room,       \* cells of a packet (184 bytes)
    Programs,   \* the PMT pids of the mux, in the order of the PAT
    Streams,    \* [PMT pid -> the pids it lists]
    Requested,  \* the pids= of the channel's URL, sorted
    Misread,    \* pids that a cell out of its place may read as
    Losses      \* a bound

PAT == 0

ASSUME ProbeAssumption ==
    /\ Header \in Nat \ {0} /\ Room \in Nat \ {0} /\ Losses \in Nat
    /\ Programs \in Seq(Nat \ {PAT}) /\ DOMAIN Streams = Range(Programs)
    /\ \A p \in DOMAIN Streams : Streams[p] \in Seq(Nat)
    /\ Requested \in Seq(Nat) /\ Misread \subseteq Nat

VARIABLES
    packs,     \* the broadcaster packs sections back to back
    sent,      \* how far each forwarded table is sent
    buf,       \* sectionAssembler.buf of each table
    started,   \* sectionAssembler.started
    intact,    \* no packet of the table was lost since the last start
    lost,      \* packets lost
    section,   \* the section the last packet completed, or <<>>
    over,      \* that packet carried the end of a section, all of it received
    pmtPID,    \* the PMT looked for, or -1
    merged     \* the pids of the expanded URL, or <<>> until the probe returns

probeVars == <<packs, sent, buf, started, intact, lost, section, over, pmtPID, merged>>

Tables     == {PAT} \cup Range(Programs)
Entries(t) == IF t = PAT THEN Programs ELSE Streams[t]
Length(t)  == Header + Len(Entries(t))
Stuffing   == <<-1, 0>>
Cells      == (UNION {{t} \X (1..Length(t)) : t \in Tables}) \cup {Stuffing}
Lengths    == 0..2 * Room

(* The box forwards what the URL asks for.                                 *)
Forwarded == {PAT} \cup (Range(Programs) \cap Range(Requested))

(* The types.                                                              *)
ProbeTypes ==
    /\ packs \in BOOLEAN
    /\ sent \in [Forwarded -> Nat] /\ \A t \in Forwarded : sent[t] < Length(t)
    /\ buf \in [Forwarded -> Seq(Cells)]
    /\ started = [t \in Forwarded |-> buf[t] # <<>>]
    /\ intact \in [Forwarded -> BOOLEAN]
    /\ lost \in 0..Losses
    /\ section \in Seq(Cells) /\ over \in BOOLEAN
    /\ pmtPID \in {-1} \cup Range(Requested)
    /\ merged \in Seq(Nat)

ProbeInit ==
    /\ packs \in BOOLEAN
    /\ sent \in [Forwarded -> 0..Room] /\ \A t \in Forwarded : sent[t] < Length(t)
    /\ buf = [t \in Forwarded |-> <<>>]
    /\ started = [t \in Forwarded |-> FALSE] /\ intact = started
    /\ lost = 0 /\ section = <<>> /\ over = FALSE
    /\ pmtPID = -1 /\ merged = <<>>

-----------------------------------------------------------------------------
(* The broadcaster's next packet of a table: room cells from where it is,  *)
(* over the end if it packs.                                               *)

Cell(t, i) == <<t, (i % Length(t)) + 1>>

Body(t, room) ==
    [i \in 1..room |->
        IF sent[t] + i > Length(t) /\ ~packs THEN Stuffing ELSE Cell(t, sent[t] + i - 1)]

(* Sections that start in a packet are announced by payload_unit_start and *)
(* a pointer to the first of them.                                         *)
Starts(b) == {i \in DOMAIN b : b[i][2] = 1}
Pointer(b) == (CHOOSE i \in Starts(b) : \A j \in Starts(b) : i <= j) - 1

SendOn(t, room) ==
    sent' = [sent EXCEPT ![t] = IF @ + room >= Length(t) /\ ~packs
                            THEN 0 ELSE (@ + room) % Length(t)]

-----------------------------------------------------------------------------
(* sectionAssembler.feed.                                                  *)

(* A start drops what was there, and the cells before it; a packet without *)
(* one is appended to what has started.                                    *)
Fed_KeepsTail(t, b) == IF Starts(b) # {} THEN b
                       ELSE IF started[t] THEN buf[t] \o b ELSE <<>>

Fed(t, b) == IF Starts(b) # {} THEN SubSeq(b, Pointer(b) + 1, Len(b))
             ELSE IF started[t] THEN buf[t] \o b ELSE <<>>

(* The length in the header; what stands there after a loss may be any.    *)
SectionLengths(f) ==
    IF f[Header][2] = Header THEN {Length(f[Header][1])} ELSE Lengths

(* The complete section at the front of the buffer, if there is one.       *)
Complete_OffByOne(f, len) ==
    IF Len(f) >= Header /\ Len(f) > len THEN SubSeq(f, 1, len) ELSE <<>>

Complete(f, len) ==
    IF Len(f) >= Header /\ Len(f) >= len THEN SubSeq(f, 1, len) ELSE <<>>

-----------------------------------------------------------------------------
(* parsePAT, parsePMTPIDs, mergePIDsIntoURL.                               *)

(* What is parsed of a section: the table's entries, if it is as it was    *)
(* sent.  Nothing checks that, and what a loss left may be read as any     *)
(* pids, or as another table, which has none.                              *)
Whole(t) == [i \in 1..Length(t) |-> <<t, i>>]

Readings(t, sec) ==
    CASE sec = <<>>     -> {<<>>}
      [] sec = Whole(t) -> {Entries(t)}
      [] OTHER          -> UNION {[1..n -> Misread] : n \in {0} \cup 1..(Len(sec) - Header)}

(* The first program whose PMT the URL asks for.                           *)
ChoosePMT_First(programs) == IF programs = <<>> THEN -1 ELSE programs[1]

ChoosePMT(programs) ==
    LET asked == {i \in DOMAIN programs : programs[i] \in Range(Requested)}
    IN  IF asked = {} THEN -1 ELSE programs[Min(asked)]

MergePIDs(pids) == Ascending(Range(Requested) \cup Range(pids))

-----------------------------------------------------------------------------
(* A packet that carries the last cell of a section which was received     *)
(* from its start on.                                                      *)
EndsHere(t, b) ==
    \E i \in DOMAIN b : /\ b[i][2] = Length(t)
                        /\ \/ started[t] /\ intact[t]
                           \/ \E j \in Starts(b) : j <= i

(* The probe takes a packet.  It reads the PAT until it knows the PMT, and *)
(* then the PMT until it has one with pids.                                *)
Packet(t, room) ==
    LET b == Body(t, room)
        f == Fed(t, b)
    IN  /\ merged = <<>>
        /\ SendOn(t, room)
        /\ IF b = <<>> \/ (t = PAT /\ pmtPID # -1) \/ t \notin {PAT, pmtPID}
           THEN /\ section' = <<>> /\ over' = FALSE
                /\ UNCHANGED <<buf, started, intact, pmtPID, merged>>
           ELSE /\ buf' = [buf EXCEPT ![t] = f]
                /\ started' = [started EXCEPT ![t] = @ \/ Starts(b) # {}]
                /\ intact' = [intact EXCEPT ![t] = @ \/ Starts(b) # {}]
                /\ over' = EndsHere(t, b)
                /\ \E len \in IF Len(f) < Header THEN {0} ELSE SectionLengths(f) :
                     section' = Complete(f, len)
                /\ \E read \in Readings(t, section') :
                     /\ pmtPID' = IF t = PAT THEN ChoosePMT(read) ELSE pmtPID
                     /\ merged' = IF t # PAT /\ read # <<>> THEN MergePIDs(read) ELSE <<>>
        /\ UNCHANGED <<packs, lost>>

Lose(t, room) ==
    /\ merged = <<>> /\ lost < Losses /\ room > 0
    /\ lost' = lost + 1
    /\ SendOn(t, room)
    /\ intact' = [intact EXCEPT ![t] = FALSE]
    /\ section' = <<>> /\ over' = FALSE
    /\ UNCHANGED <<packs, buf, started, pmtPID, merged>>

ProbeNext == \E t \in Forwarded, room \in 0..Room : Packet(t, room) \/ Lose(t, room)

ProbeSpec == ProbeInit /\ [][ProbeNext]_probeVars

-----------------------------------------------------------------------------
(* What the assembler returns is one section as it was sent, cell by cell, *)
(* unless a packet of it was lost: wherever the packets are cut, also in   *)
(* the header, and whatever is stuffed or packed behind it.                *)
SectionWhole ==
    \A t \in Forwarded : section # <<>> /\ section[1][1] = t /\ intact[t] =>
        section = Whole(t)

(* "our channel's PMT is the one the URL actually requests"                *)
(* (pmt.go:312-313): the probe never waits for another, which would not    *)
(* come, unless a misread PAT names it.  A probe that lost nothing of that *)
(* PMT since it started expands the URL to every stream of its program and *)
(* no other pid, and none loses any the URL had, or leaves the list        *)
(* unsorted or with a pid twice, which the box does not expect.            *)
ExpandedCovers ==
    /\ pmtPID \in {-1} \cup Range(Requested)
    /\ merged # <<>> =>
          /\ pmtPID # -1
          /\ Range(Requested) \subseteq Range(merged)
          /\ intact[pmtPID] =>
                Range(merged) = Range(Requested) \cup Range(Streams[pmtPID])
          /\ \A i, j \in DOMAIN merged : i < j => merged[i] < merged[j]

(* "collects one PSI section that may span TS packets" (pmt.go:21): when   *)
(* every packet of a section came, it is returned, wherever it was cut and *)
(* whatever was lost before.  This needs every section to start a packet:  *)
(* in a packet where one ends and the next starts, the end is dropped.     *)
Collected == over /\ ~packs => section # <<>>
=============================================================================
