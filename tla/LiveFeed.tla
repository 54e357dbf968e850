------------------------------ MODULE LiveFeed ------------------------------
(***************************************************************************)
(* What the ring of prebuffer.go promises its readers, with no buffer in   *)
(* sight: a live stream grows until it ends, every reader receives it in   *)
(* order, and only a reader that lags by more than Window bytes may lose   *)
(* any.  The bytes of the stream are named by their positions 0, 1, 2, ... *)
(***************************************************************************)
EXTENDS Integers, Sequences

CONSTANTS Readers,   \* the goroutines that follow the stream
          Window,    \* a reader at most this far behind loses nothing
          Backlog    \* a new reader starts at most this far behind

VARIABLES live,    \* bytes of the stream so far
          ended,   \* no more will come
          pos,     \* per reader, the position after the last byte received
          out,     \* per reader, the bytes of the last delivery
          state    \* per reader: "idle", "open", "ended" or "left"

vars == <<live, ended, pos, out, state>>

Init == /\ live = 0
        /\ ended = FALSE
        /\ pos = [r \in Readers |-> 0]
        /\ out = [r \in Readers |-> <<>>]
        /\ state = [r \in Readers |-> "idle"]

Produce == /\ ~ended
           /\ live' \in Nat /\ live' > live
           /\ UNCHANGED <<ended, pos, out, state>>

End == /\ ~ended
       /\ ended' = TRUE
       /\ UNCHANGED <<live, pos, out, state>>

(* A new reader gets the backlog: all of the stream while it is short,     *)
(* and never less than Window bytes of it.                                 *)
Join(r) == /\ state[r] = "idle"
           /\ \E p \in 0..live :
                /\ live - p <= Backlog
                /\ p > 0 => live - p >= Window
                /\ pos' = [pos EXCEPT ![r] = p]
           /\ state' = [state EXCEPT ![r] = "open"]
           /\ UNCHANGED <<live, ended, out>>

(* The next bytes, in order; the ones in between are lost only to a reader *)
(* that lags by more than Window.                                          *)
Deliver(r) == /\ state[r] = "open"
              /\ \E from \in pos[r]..(live - 1) : \E to \in from..(live - 1) :
                   /\ from > pos[r] => live - pos[r] > Window
                   /\ out' = [out EXCEPT ![r] = [i \in 1..(to - from + 1) |-> from + i - 1]]
                   /\ pos' = [pos EXCEPT ![r] = to + 1]
              /\ UNCHANGED <<live, ended, state>>

(* A reader is told the end only when it has had everything.               *)
Finish(r) == /\ state[r] = "open"
             /\ ended
             /\ pos[r] = live
             /\ state' = [state EXCEPT ![r] = "ended"]
             /\ UNCHANGED <<live, ended, pos, out>>

Leave(r) == /\ state[r] = "open"
            /\ state' = [state EXCEPT ![r] = "left"]
            /\ UNCHANGED <<live, ended, pos, out>>

Next == \/ Produce
        \/ End
        \/ \E r \in Readers : Join(r) \/ Deliver(r) \/ Finish(r) \/ Leave(r)

Spec == Init /\ [][Next]_vars
=============================================================================
