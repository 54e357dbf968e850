------------------------------- MODULE TsRing -------------------------------
(***************************************************************************)
(* tsRing of prebuffer.go: a bounded byte window over a live MPEG-TS       *)
(* stream, guarded by a mutex and a condition variable.  One goroutine     *)
(* writes (satipSession.rtpLoop), any number follow by absolute offset     *)
(* (handleStream, probeProgramPIDs, epgSweepMux).                          *)
(*                                                                         *)
(* Every method holds the mutex from end to end except inside cond.Wait,   *)
(* so a method, or the part of ReadFrom up to Wait, is one action.  A byte *)
(* of the stream is named by its position among the bytes accepted; what   *)
(* the bytes say is of no interest here.                                   *)
(***************************************************************************)
EXTENDS Integers, Sequences

CONSTANTS Readers,    \* goroutines that read the ring
          Packet,     \* bytes of a TS packet (188)
          Max,        \* r.max, capacity in bytes (ringCap)
          Chunks,     \* sizes of the writes
          ReadLens,   \* sizes of the buffers readers pass
          MaxBytes    \* bound: bytes written in a run

ASSUME RingAssumption ==
    /\ Packet \in Nat \ {0}
    /\ Max \in Nat /\ Max >= Packet
    /\ Chunks \subseteq Nat \ {0}
    /\ ReadLens \subseteq Nat \ {0}
    /\ MaxBytes \in Nat

VARIABLES
    buf,       \* r.buf, the bytes of the window
    base,      \* r.base, stream offset of the first of them
    closed,    \* r.closed
    written,   \* bytes accepted so far (names the bytes; not in the code)
    pc,        \* per reader: where it is
    off,       \* per reader: the offset it continues from
    out        \* per reader: the bytes its last ReadFrom copied

ringVars == <<buf, base, closed, written, pc, off, out>>

ReaderStates == {"new", "read", "wait", "use", "drained", "left"}

(* The types: every offset is a natural number, every delivery a sequence  *)
(* of stream positions, and a reader is in one of the states of its loop   *)
(* (calling ReadFrom, in cond.Wait, using what it got, told the end, gone).*)
RingTypes ==
    /\ buf \in Seq(Nat)
    /\ base \in Nat
    /\ closed \in BOOLEAN
    /\ written \in 0..MaxBytes
    /\ pc \in [Readers -> ReaderStates]
    /\ off \in [Readers -> Nat]
    /\ out \in [Readers -> Seq(Nat)]

RingInit ==
    /\ buf = <<>>
    /\ base = 0
    /\ closed = FALSE
    /\ written = 0
    /\ pc = [r \in Readers |-> "new"]
    /\ off = [r \in Readers |-> 0]
    /\ out = [r \in Readers |-> <<>>]

-----------------------------------------------------------------------------
(* The writer.  A definition named X_Y is X with a plausible bug, and is   *)
(* no part of the specification.                                           *)

LiveEdge == base + Len(buf)

Excess(n) == n - Max

(* over, rounded up to whole packets.                                      *)
RoundUp_Exact(over) == over
RoundUp(over) == ((over + Packet - 1) \div Packet) * Packet

(* Bytes cut from the front of a window of n bytes.                        *)
Cut(n) == LET trim == RoundUp(Excess(n))
          IN  IF Excess(n) <= 0 THEN 0 ELSE IF trim > n THEN n ELSE trim

Broadcast_None == pc' = pc
Broadcast == pc' = [r \in Readers |-> IF pc[r] = "wait" THEN "read" ELSE pc[r]]

NewBytes(n) == [i \in 1..n |-> written + i - 1]

(* r.base after a window of n bytes is trimmed.                            *)
BaseAfterTrim(n) == base + Cut(n)

(* Append, cut the oldest whole packets beyond the capacity, wake readers. *)
(* A write to a closed ring does nothing.                                  *)
Write(n) ==
    /\ ~closed
    /\ written + n <= MaxBytes
    /\ LET grown == buf \o NewBytes(n)
       IN  /\ buf' = SubSeq(grown, Cut(Len(grown)) + 1, Len(grown))
           /\ base' = BaseAfterTrim(Len(grown))
    /\ written' = written + n
    /\ Broadcast
    /\ UNCHANGED <<closed, off, out>>

CloseRing ==
    /\ ~closed
    /\ closed' = TRUE
    /\ Broadcast
    /\ UNCHANGED <<buf, base, written, off, out>>

-----------------------------------------------------------------------------
(* The readers.                                                            *)

(* off := ring.Start()                                                     *)
Start(r) == /\ pc[r] = "new"
            /\ pc' = [pc EXCEPT ![r] = "read"]
            /\ off' = [off EXCEPT ![r] = base]
            /\ UNCHANGED <<buf, base, closed, written, out>>

(* The offset a read continues from: a reader that fell out of the window  *)
(* skips to its first byte.                                                *)
From(r) == IF off[r] < base THEN base ELSE off[r]

(* The offset after a read of n bytes.                                     *)
NewOff_Unskipped(r, n) == off[r] + n
NewOff(r, n) == From(r) + n

ReadData(r) ==
    /\ pc[r] = "read"
    /\ From(r) < LiveEdge
    /\ \E cap \in ReadLens :
         LET start == From(r) - base
             n     == IF cap < Len(buf) - start THEN cap ELSE Len(buf) - start
         IN  /\ out' = [out EXCEPT ![r] = SubSeq(buf, start + 1, start + n)]
             /\ off' = [off EXCEPT ![r] = NewOff(r, n)]
    /\ pc' = [pc EXCEPT ![r] = "use"]
    /\ UNCHANGED <<buf, base, closed, written>>

(* Nothing to read and closed: ok is false and the reader's loop ends.     *)
ReadEnd(r) ==
    /\ pc[r] = "read"
    /\ From(r) >= LiveEdge
    /\ closed
    /\ pc' = [pc EXCEPT ![r] = "drained"]
    /\ off' = [off EXCEPT ![r] = From(r)]
    /\ UNCHANGED <<buf, base, closed, written, out>>

(* Nothing to read yet: cond.Wait.                                         *)
ReadWait_Unchecked(r) ==
    /\ pc[r] = "read"
    /\ From(r) >= LiveEdge
    /\ pc' = [pc EXCEPT ![r] = "wait"]
    /\ off' = [off EXCEPT ![r] = From(r)]
    /\ UNCHANGED <<buf, base, closed, written, out>>

ReadWait(r) ==
    /\ pc[r] = "read"
    /\ From(r) >= LiveEdge
    /\ ~closed
    /\ pc' = [pc EXCEPT ![r] = "wait"]
    /\ off' = [off EXCEPT ![r] = From(r)]
    /\ UNCHANGED <<buf, base, closed, written, out>>

(* The reader is done with the bytes (the player took them, the tables     *)
(* were looked for) and calls ReadFrom again.                              *)
Resume(r) == /\ pc[r] = "use"
             /\ pc' = [pc EXCEPT ![r] = "read"]
             /\ UNCHANGED <<buf, base, closed, written, off, out>>

(* The reader stops between two reads: the player went away, or the probe  *)
(* found its tables or passed its deadline.                                *)
Leave(r) == /\ pc[r] = "use"
            /\ pc' = [pc EXCEPT ![r] = "left"]
            /\ UNCHANGED <<buf, base, closed, written, off, out>>

-----------------------------------------------------------------------------
Reader(r) == Start(r) \/ ReadData(r) \/ ReadEnd(r) \/ ReadWait(r)
             \/ Resume(r) \/ Leave(r)

RingNext ==
    \/ \E n \in Chunks : Write(n)
    \/ CloseRing
    \/ \E r \in Readers : Reader(r)

RingSpec == RingInit /\ [][RingNext]_ringVars

(* The Go scheduler runs a goroutine that is not blocked.  Nothing says    *)
(* that the network delivers, that a session is ever closed, or that the   *)
(* player takes what it was sent (a paused player blocks the w.Write of    *)
(* handleStream): Write, Close and Resume have no fairness.                *)
RingFairSpec == RingSpec /\ \A r \in Readers : WF_ringVars(ReadData(r) \/ ReadEnd(r))

-----------------------------------------------------------------------------
(* The window never holds more than the capacity, whatever the sizes of    *)
(* the writes (ringCap bounds the memory of a session nobody reads).       *)
WindowBounded == Len(buf) <= Max

(* The window starts on a packet boundary of the stream, so a reader that  *)
(* skips forward resumes on a packet ("keep packet alignment").            *)
PacketAligned == base % Packet = 0

(* The two together: what Write must restore whatever it was given.        *)
WindowInPackets == WindowBounded /\ PacketAligned

(* Offset base + i names the i-th byte of the window after any number of   *)
(* trims: what lets readers keep an absolute offset across them.           *)
OffsetNamesByte == /\ written = base + Len(buf)
                   /\ \A i \in 1..Len(buf) : buf[i] = base + i - 1

(* No reader sleeps in cond.Wait while there is data for it or the ring is *)
(* closed: every change a waiting reader must see is broadcast.            *)
NoLostWakeup == \A r \in Readers : pc[r] = "wait" => ~closed /\ off[r] = LiveEdge

(* A reader is told the stream is over only once it has had its last byte. *)
DrainedToTheEnd == \A r \in Readers : pc[r] = "drained" => off[r] = written

(* A closed ring releases every reader: it never hangs in ReadFrom, so it  *)
(* drains the window and ends unless its own consumer stalls for ever.     *)
ReadersReleased == \A r \in Readers :
    []( closed => <>(pc[r] \in {"new", "drained", "left"} \/ [](pc[r] = "use")) )

-----------------------------------------------------------------------------
(* The reader's state as the live feed sees it.                            *)
FeedState == [r \in Readers |-> CASE pc[r] = "new"                    -> "idle"
                                  [] pc[r] \in {"read", "wait", "use"} -> "open"
                                  [] pc[r] = "drained"                -> "ended"
                                  [] OTHER                            -> "left"]

Feed == INSTANCE LiveFeed WITH Window  <- Max - Packet + 1,
                               Backlog <- Max,
                               live    <- written,
                               ended   <- closed,
                               pos     <- off,
                               state   <- FeedState

(* The ring implements the live feed: order, no duplicates, and no loss    *)
(* for a reader within Max - Packet + 1 bytes of the live edge.            *)
ImplementsFeed == Feed!Spec
=============================================================================
