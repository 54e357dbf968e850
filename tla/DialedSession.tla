---------------------------- MODULE DialedSession ----------------------------
(***************************************************************************)
(* What dialSatIPBytes promises its callers, with no wire in sight: one    *)
(* session is open at a time, the session returned is open, nobody but its *)
(* owner or itself closes it after that, a session that was given up or    *)
(* closed never comes back, and a dial that fails leaves none open.  This  *)
(* is all that Prebuffer (DialOk, DialFail, SessionDies, CloseRun) and     *)
(* TunerBudget know of a session.                                          *)
(***************************************************************************)
CONSTANT Tries   \* the sessions the dial may set up

VARIABLES call,   \* "dialing", "up" or "failed"
          open,   \* the sessions that are open
          gone    \* the ones that never will be again

vars == <<call, open, gone>>

Init == call = "dialing" /\ open = {} /\ gone = {}

(* The next attempt is connected.                                          *)
Begin(s) == /\ call = "dialing" /\ open = {} /\ s \notin gone
            /\ open' = {s}
            /\ UNCHANGED <<call, gone>>

(* An attempt fails, before it was connected or after; it may be the last. *)
GiveUp(s) == /\ call = "dialing" /\ open \subseteq {s} /\ s \notin gone
             /\ open' = {} /\ gone' = gone \cup {s}
             /\ call' \in {"dialing", "failed"}

Return == /\ call = "dialing" /\ open # {}
          /\ call' = "up"
          /\ UNCHANGED <<open, gone>>

Close(s) == /\ call = "up" /\ s \in open
            /\ open' = {} /\ gone' = gone \cup {s}
            /\ UNCHANGED call

Next == Return \/ \E s \in Tries : Begin(s) \/ GiveUp(s) \/ Close(s)

Spec == Init /\ [][Next]_vars
=============================================================================
