---------------------------- MODULE SatIPSession ----------------------------
(***************************************************************************)
(* One call of dialSatIPBytes (satip.go) and the life of the session it    *)
(* returns: up to Attempts sessions are set up one after the other, each   *)
(* with a control connection, an RTP loop and a keepalive loop; the first  *)
(* one that delivers data is kept.  A session is closed by the dialer, by  *)
(* its loops or by its owner; Close leaves a goroutine that sends TEARDOWN *)
(* and a timer that closes the connection, so closed sessions live on      *)
(* beside the next attempt.                                                *)
(*                                                                         *)
(* The box and the network (external) answer late, refuse, or say nothing; *)
(* they drop connections and sessions at any time.  Bytes are counted in   *)
(* units, up to what a tick asks for.  Of the clock the model keeps that   *)
(* the probe window (1.5 s) ends before the RTP deadline (12 s) and the    *)
(* first tick (15 s) of the session, and that Close's timer (2 s) ends     *)
(* before the deadline of a TEARDOWN (4 s).                                *)
(***************************************************************************)
EXTENDS Integers, Sequences

CONSTANTS
    Attempts,   \* dialSatIPBytes tries 3 times
    MinBytes,   \* units that prove data flow (64 KiB, or 4 KiB of tables)
    Healthy     \* units a tick of a TV session must have seen (200 KiB)

ASSUME SessionAssumption ==
    /\ Attempts \in Nat \ {0}
    /\ MinBytes \in Nat /\ Healthy \in Nat /\ MinBytes <= Healthy

VARIABLES
    n,        \* the attempt
    dial,     \* where dialSatIPBytes is; "up" once it has returned a session
    psi,      \* s.psiOnly of the session returned
    stop,     \* s.stop is closed
    ctrl,     \* the control connection; "dead" when the box dropped it
    id,       \* s.sessID is known
    lock,     \* s.mu: who is waiting for an answer
    sent,     \* requests the box has not answered
    answers,  \* answers nobody has read
    rtp,      \* rtpLoop
    keep,     \* keepaliveLoop; "ask" when it wants to send OPTIONS
    bye,      \* the goroutine of Close; "close" when its request is over
    fresh,    \* units the latest session received since its last tick
    box       \* the session at the box

callVars == <<n, dial, psi>>
wireVars == <<ctrl, id, lock, sent, answers>>
loopVars == <<rtp, keep, fresh>>
endVars  == <<stop, bye>>
vars     == <<callVars, wireVars, loopVars, endVars, box>>

Sessions == 1..Attempts
Methods  == {"SETUP", "PLAY", "OPTIONS", "TEARDOWN"}
Replies  == [to : Methods, ok : BOOLEAN]

(* The types.                                                              *)
TypeOK ==
    /\ n \in Sessions
    /\ dial \in {"connect", "setup", "play", "verify", "up", "failed"}
    /\ psi \in BOOLEAN
    /\ stop \in [Sessions -> BOOLEAN]
    /\ ctrl \in [Sessions -> {"none", "up", "dead", "closed"}]
    /\ id \in [Sessions -> BOOLEAN]
    /\ lock \in [Sessions -> {"free", "dial", "keep", "bye"}]
    /\ sent \in [Sessions -> Seq(Methods)]
    /\ answers \in [Sessions -> Seq(Replies)]
    /\ rtp \in [Sessions -> {"off", "run", "done"}]
    /\ keep \in [Sessions -> {"off", "wait", "ask", "done"}]
    /\ bye \in [Sessions -> {"off", "ask", "close", "done"}]
    /\ fresh \in 0..Healthy
    /\ box \in [Sessions -> {"none", "set", "play"}]

Init ==
    /\ n = 1 /\ dial = "connect" /\ psi = FALSE
    /\ stop = [s \in Sessions |-> FALSE] /\ id = stop
    /\ ctrl = [s \in Sessions |-> "none"] /\ box = ctrl
    /\ lock = [s \in Sessions |-> "free"]
    /\ sent = [s \in Sessions |-> <<>>] /\ answers = sent
    /\ rtp = [s \in Sessions |-> "off"] /\ keep = rtp /\ bye = rtp
    /\ fresh = 0

-----------------------------------------------------------------------------
(* request: s.mu is held from the write to the answer.                     *)

Ask(s, who, method) ==
    /\ lock[s] = "free" /\ ctrl[s] = "up"
    /\ lock' = [lock EXCEPT ![s] = who]
    /\ sent' = [sent EXCEPT ![s] = Append(@, method)]
    /\ UNCHANGED <<ctrl, answers>>

(* The next answer on the connection is taken for the answer: its CSeq is  *)
(* not looked at.                                                          *)
Answered(s, who, ok) ==
    /\ lock[s] = who /\ answers[s] # <<>> /\ Head(answers[s]).ok = ok
    /\ ctrl[s] \in {"up", "dead"}
    /\ lock' = [lock EXCEPT ![s] = "free"]
    /\ answers' = [answers EXCEPT ![s] = Tail(@)]
    /\ UNCHANGED <<ctrl, sent>>

(* Time is up, or the connection is gone; the mutex is released.           *)
GaveUp_Locked(s, who) ==
    /\ lock[s] = who
    /\ UNCHANGED <<ctrl, lock, sent, answers>>

GaveUp(s, who) ==
    /\ lock[s] = who
    /\ lock' = [lock EXCEPT ![s] = "free"]
    /\ UNCHANGED <<ctrl, sent, answers>>

(* The write fails on a connection that is gone.                           *)
Unsent(s) ==
    /\ lock[s] = "free" /\ ctrl[s] \in {"dead", "closed"}
    /\ UNCHANGED <<ctrl, lock, sent, answers>>

Fails(s, who) == Answered(s, who, FALSE) \/ GaveUp(s, who)

(* Close, once: the sockets and the ring are closed, TEARDOWN is left to a *)
(* goroutine.                                                              *)
Close(s) ==
    /\ stop'  = [stop EXCEPT ![s] = TRUE]
    /\ bye'   = [bye EXCEPT ![s] = IF stop[s] THEN @ ELSE "ask"]

-----------------------------------------------------------------------------
(* dialSatIPBytes and dialSatIPOnce.                                       *)

Retry_Forever == dial' = "connect" /\ n' = IF n < Attempts THEN n + 1 ELSE n

Retry ==
    IF n < Attempts THEN n' = n + 1 /\ dial' = "connect"
                    ELSE n' = n /\ dial' = "failed"

(* A connection and a port pair, and SETUP is sent; or there is none: a    *)
(* connection without ports is closed.                                     *)
Connect ==
    /\ dial = "connect"
    /\ \/ /\ lock' = [lock EXCEPT ![n] = "dial"]
          /\ sent' = [sent EXCEPT ![n] = Append(@, "SETUP")]
          /\ ctrl' = [ctrl EXCEPT ![n] = "up"]
          /\ dial' = "setup" /\ fresh' = 0 /\ UNCHANGED n
       \/ /\ ctrl' \in {ctrl, [ctrl EXCEPT ![n] = "closed"]}
          /\ Retry /\ UNCHANGED <<lock, sent, fresh>>
    /\ UNCHANGED <<psi, id, answers, rtp, keep, endVars, box>>

(* The answer names the session; the socket is punched, PLAY is sent.      *)
SetUp ==
    /\ dial = "setup" /\ answers[n] # <<>> /\ Head(answers[n]).ok
    /\ id' = [id EXCEPT ![n] = TRUE]
    /\ answers' = [answers EXCEPT ![n] = Tail(@)]
    /\ sent' = [sent EXCEPT ![n] = Append(@, "PLAY")]
    /\ dial' = "play"
    /\ UNCHANGED <<n, psi, ctrl, lock, loopVars, endVars, box>>

Play ==
    /\ dial = "play" /\ Answered(n, "dial", TRUE)
    /\ rtp' = [rtp EXCEPT ![n] = "run"] /\ keep' = [keep EXCEPT ![n] = "wait"]
    /\ dial' = "verify"
    /\ UNCHANGED <<n, psi, id, fresh, endVars, box>>

Refused ==
    /\ dial \in {"setup", "play"} /\ Fails(n, "dial")
    /\ Close(n) /\ Retry
    /\ UNCHANGED <<psi, id, loopVars, box>>

Verified ==
    /\ dial = "verify" /\ fresh >= MinBytes
    /\ dial' = "up"
    /\ UNCHANGED <<n, psi, wireVars, loopVars, endVars, box>>

(* The window is over without the data: NAT.                               *)
Unverified_LeftOpen ==
    /\ dial = "verify" /\ fresh < MinBytes
    /\ Retry
    /\ UNCHANGED <<psi, wireVars, loopVars, endVars, box>>

Unverified ==
    /\ dial = "verify" /\ fresh < MinBytes
    /\ Close(n) /\ Retry
    /\ UNCHANGED <<psi, wireVars, loopVars, box>>

(* The EPG sweeper marks its session once the dial has returned it; the    *)
(* keepalive loop, which reads the mark, runs already.                     *)
MarkPsi ==
    /\ dial = "up" /\ ~psi
    /\ psi' = TRUE
    /\ UNCHANGED <<n, dial, wireVars, loopVars, endVars, box>>

OwnerCloses ==
    /\ dial = "up" /\ ~stop[n] /\ Close(n)
    /\ UNCHANGED <<callVars, wireVars, loopVars, box>>

-----------------------------------------------------------------------------
(* The loops of a session.                                                 *)

Probing(s) == s = n /\ dial = "verify"

Arrive(s) ==
    /\ rtp[s] = "run" /\ ~stop[s] /\ box[s] = "play" /\ fresh < Healthy
    /\ fresh' = fresh + 1
    /\ UNCHANGED <<callVars, wireVars, rtp, keep, endVars, box>>

(* The socket was closed, or nothing came for 12 s and the loop closes the *)
(* session.                                                                *)
RtpEnds_Leaves(s) ==
    /\ rtp[s] = "run" /\ (stop[s] \/ ~Probing(s))
    /\ rtp' = [rtp EXCEPT ![s] = "done"]
    /\ UNCHANGED <<callVars, wireVars, keep, fresh, endVars, box>>

RtpEnds(s) ==
    /\ rtp[s] = "run" /\ (stop[s] \/ ~Probing(s))
    /\ rtp' = [rtp EXCEPT ![s] = "done"]
    /\ Close(s)
    /\ UNCHANGED <<callVars, wireVars, keep, fresh, box>>

(* The tick of the receiver report: a TV session that starves is closed.   *)
(* (A session that is closed may tick too, which changes nothing.)         *)
Tick_Tolerant(s) ==
    /\ keep[s] = "wait" /\ ~Probing(s) /\ ~stop[s]
    /\ fresh' = 0
    /\ UNCHANGED <<callVars, wireVars, rtp, keep, endVars, box>>

Tick(s) ==
    /\ keep[s] = "wait" /\ ~Probing(s) /\ ~stop[s]
    /\ fresh' = 0
    /\ \/ /\ psi \/ fresh = Healthy
          /\ UNCHANGED <<keep, endVars>>
       \/ /\ ~psi /\ fresh < Healthy
          /\ keep' = [keep EXCEPT ![s] = "done"] /\ Close(s)
    /\ UNCHANGED <<callVars, wireVars, rtp, box>>

(* The tick of the keepalive, or the loop sees that the session is closed; *)
(* when both are ready either may be chosen.                               *)
KeepWakes(s) ==
    /\ keep[s] = "wait"
    /\ \/ ~Probing(s) /\ keep' = [keep EXCEPT ![s] = "ask"]
       \/ stop[s] /\ keep' = [keep EXCEPT ![s] = "done"]
    /\ UNCHANGED <<callVars, wireVars, rtp, fresh, endVars, box>>

KeepSends(s) ==
    /\ keep[s] = "ask" /\ Ask(s, "keep", "OPTIONS")
    /\ UNCHANGED <<callVars, id, loopVars, endVars, box>>

KeepAnswered(s) ==
    /\ Answered(s, "keep", TRUE)
    /\ keep' = [keep EXCEPT ![s] = "wait"]
    /\ UNCHANGED <<callVars, id, rtp, fresh, endVars, box>>

KeepFails_GoesOn(s) ==
    /\ keep[s] = "ask" /\ (Fails(s, "keep") \/ Unsent(s))
    /\ keep' = [keep EXCEPT ![s] = "wait"]
    /\ UNCHANGED <<callVars, id, rtp, fresh, endVars, box>>

KeepFails(s) ==
    /\ keep[s] = "ask" /\ (Fails(s, "keep") \/ Unsent(s))
    /\ keep' = [keep EXCEPT ![s] = "done"] /\ Close(s)
    /\ UNCHANGED <<callVars, id, rtp, fresh, box>>

-----------------------------------------------------------------------------
(* What Close leaves behind.                                               *)

ByeSends(s) ==
    /\ bye[s] = "ask"
    /\ \/ Ask(s, "bye", "TEARDOWN") /\ UNCHANGED bye
       \/ Unsent(s) /\ bye' = [bye EXCEPT ![s] = "close"]
    /\ UNCHANGED <<callVars, id, loopVars, stop, box>>

(* What was not read is lost.                                              *)
CloseCtrl(s) == /\ ctrl' = [ctrl EXCEPT ![s] = "closed"]
                /\ answers' = [answers EXCEPT ![s] = <<>>]

(* The timer closes the connection before the request's deadline.          *)
ByeEnds(s) ==
    /\ \/ \E ok \in BOOLEAN : Answered(s, "bye", ok)
       \/ ctrl[s] # "up" /\ GaveUp(s, "bye")
    /\ bye' = [bye EXCEPT ![s] = "close"]
    /\ UNCHANGED <<callVars, id, loopVars, stop, box>>

ByeCloses(s) ==
    /\ bye[s] = "close" /\ bye' = [bye EXCEPT ![s] = "done"]
    /\ CloseCtrl(s)
    /\ UNCHANGED <<callVars, id, lock, sent, loopVars, stop, box>>

TimerFires(s) ==
    /\ stop[s] /\ ctrl[s] # "closed"
    /\ CloseCtrl(s)
    /\ UNCHANGED <<callVars, id, lock, sent, loopVars, endVars, box>>

-----------------------------------------------------------------------------
(* The box.                                                                *)

(* It serves a request, also when the connection was closed behind it; a   *)
(* TEARDOWN that names no session frees nothing.                           *)
BoxServes(s) ==
    /\ sent[s] # <<>> /\ ctrl[s] # "dead"
    /\ \E ok \in BOOLEAN :
         /\ answers' = [answers EXCEPT ![s] =
                          IF ctrl[s] = "up" THEN Append(@, [to |-> Head(sent[s]), ok |-> ok])
                                            ELSE @]
         /\ \/ (~ok \/ Head(sent[s]) = "OPTIONS") /\ box' = box
            \/ ok /\ Head(sent[s]) = "SETUP" /\ box' = [box EXCEPT ![s] = "set"]
            \/ /\ ok /\ Head(sent[s]) = "PLAY" /\ box[s] = "set"
               /\ box' = [box EXCEPT ![s] = "play"]
            \/ /\ ok /\ Head(sent[s]) = "TEARDOWN" /\ id[s]
               /\ box' = [box EXCEPT ![s] = "none"]
    /\ sent' = [sent EXCEPT ![s] = Tail(@)]
    /\ UNCHANGED <<callVars, ctrl, id, lock, loopVars, endVars>>

(* (On a session that is closed the timer does the same.)                  *)
BoxDrops(s) ==
    /\ ctrl[s] = "up" /\ ~stop[s]
    /\ ctrl' = [ctrl EXCEPT ![s] = "dead"]
    /\ UNCHANGED <<callVars, id, lock, sent, answers, loopVars, endVars, box>>

(* A session expires, or the box is switched off.                          *)
BoxForgets(s) ==
    /\ box[s] # "none"
    /\ box' = [box EXCEPT ![s] = "none"]
    /\ UNCHANGED <<callVars, wireVars, loopVars, endVars>>

-----------------------------------------------------------------------------
Dial == Connect \/ SetUp \/ Play \/ Refused \/ Verified \/ Unverified

Keep(s) == KeepSends(s) \/ KeepAnswered(s) \/ KeepFails(s)
Bye(s)  == ByeSends(s) \/ ByeEnds(s) \/ ByeCloses(s) \/ TimerFires(s)
Box(s)  == BoxServes(s) \/ BoxDrops(s) \/ BoxForgets(s)

Next == \/ Dial \/ MarkPsi \/ OwnerCloses
        \/ \E s \in Sessions :
             \/ Arrive(s) \/ RtpEnds(s)
             \/ Tick(s) \/ KeepWakes(s) \/ Keep(s)
             \/ Bye(s) \/ Box(s)

Spec == Init /\ [][Next]_vars

Mute(s) == box[s] # "play"

(* Every wait of the code has a deadline, and a closed socket or channel   *)
(* wakes its goroutine.  A tick stays in its channel until the select of   *)
(* the keepalive loop, which picks among what is ready, has taken it.      *)
(* Nothing is asked of the box.                                            *)
FairDial == Spec /\ WF_vars(Dial)

FairSpec ==
    /\ FairDial
    /\ \A s \in Sessions :
         /\ WF_vars(RtpEnds(s) /\ (stop[s] \/ Mute(s)))
         /\ SF_vars(Tick(s)) /\ WF_vars(KeepWakes(s)) /\ WF_vars(Keep(s))
         /\ WF_vars(ByeSends(s) \/ ByeEnds(s) \/ ByeCloses(s))
         /\ WF_vars(TimerFires(s))

-----------------------------------------------------------------------------
Open(s) == ctrl[s] \in {"up", "dead"} /\ ~stop[s]

(* "each attempt must prove data flow and gets fresh ports otherwise"      *)
(* (satip.go:46): no earlier attempt is left running, and a dial that      *)
(* failed leaves nothing open.                                             *)
NoAttemptLeft ==
    \A s \in Sessions : Open(s) => s = n /\ dial \notin {"connect", "failed"}

(* The dial and the life of its session, as the callers may see them.      *)
CallState == IF dial \in {"up", "failed"} THEN dial ELSE "dialing"
GaveUpOn(s) == s < n \/ (s = n /\ (dial = "failed" \/ stop[s]))

Dialed == INSTANCE DialedSession WITH Tries <- Sessions,
                                      call  <- CallState,
                                      open  <- {s \in Sessions : Open(s)},
                                      gone  <- {s \in Sessions : GaveUpOn(s)}

(* Whatever the box, the network and four goroutines that may close it do, *)
(* a session is what Prebuffer and TunerBudget take it for: at most one is *)
(* open, the one the dial returns is, and it dies once.                    *)
SessionAsPromised == Dialed!Spec

(* The CSeq of an answer is not validated (satip.go:165), which is right   *)
(* only if what the dialer and the keepalive loop of a session in use read *)
(* is the answer to what they sent, whatever timed out before.             *)
AnswersMatch ==
    \A s \in Sessions : ~stop[s] /\ answers[s] # <<>> =>
        /\ lock[s] \in {"dial", "keep"}
        /\ Head(answers[s]).to = IF lock[s] = "keep" THEN "OPTIONS"
                                 ELSE IF dial = "setup" THEN "SETUP" ELSE "PLAY"

(* The dial comes back, whatever the box does.                             *)
DialReturns == []<>(dial \in {"up", "failed"})

(* A closed session leaves nothing behind: its goroutines end and its      *)
(* connection is closed, although Close waits for none of them.            *)
ClosedIsGone ==
    \A s \in Sessions : stop[s] ~> /\ rtp[s] # "run" /\ keep[s] \in {"off", "done"}
                                   /\ bye[s] = "done" /\ ctrl[s] = "closed"

(* A stream that ends for good is noticed, and the session closed, also    *)
(* when the box goes on answering OPTIONS and nobody counts the bytes.     *)
StallNoticed == dial = "up" /\ Mute(n) ~> stop[n]

(* "starving sessions are visible" (satip.go:239): a TV session gets a     *)
(* tick's worth of data again, or it is closed.                            *)
StarvationNoticed == dial = "up" ~> stop[n] \/ fresh = Healthy \/ psi
=============================================================================
