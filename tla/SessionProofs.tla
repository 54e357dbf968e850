--------------------------- MODULE SessionProofs ----------------------------
(***************************************************************************)
(* Proofs about a session (SatIPSession) and the ring it writes (TsRing).  *)
(* No attempt is left open and every answer that is acted on belongs to    *)
(* its request, for every number of attempts; the ring keeps its           *)
(* invariants and implements LiveFeed, for every packet size, capacity,    *)
(* set of readers and sequence of writes.                                  *)
(***************************************************************************)
EXTENDS SatIPSession, TsRing, TLAPS

(* A session that has not begun.                                           *)
Pristine(s) == /\ ctrl[s] = "none" /\ lock[s] = "free" /\ ~stop[s]
               /\ sent[s] = <<>> /\ answers[s] = <<>>
               /\ rtp[s] = "off" /\ keep[s] = "off" /\ bye[s] = "off"

Ahead(s) == s > n \/ (s = n /\ dial = "connect") => Pristine(s)

(* An attempt given up was closed, or had no ports.                        *)
NoPorts(s) == /\ ctrl[s] \in {"none", "closed"} /\ lock[s] = "free"
              /\ sent[s] = <<>> /\ answers[s] = <<>>
              /\ rtp[s] = "off" /\ keep[s] = "off" /\ bye[s] = "off"

Behind(s) == s < n \/ (s = n /\ dial = "failed") => stop[s] \/ NoPorts(s)

(* One request is on the wire while somebody waits, and none otherwise.    *)
Request(s) == IF lock[s] = "keep" THEN "OPTIONS"
              ELSE IF dial = "setup" THEN "SETUP" ELSE "PLAY"

OnTheWire(s) ==
    \/ answers[s] = <<>> /\ sent[s] = <<Request(s)>>
    \/ sent[s] = <<>> /\ \E ok \in BOOLEAN : answers[s] = <<[to |-> Request(s), ok |-> ok]>>

Wire(s) == ~stop[s] => /\ bye[s] = "off" /\ lock[s] # "bye"
                       /\ lock[s] = "free" => sent[s] = <<>> /\ answers[s] = <<>>
                       /\ lock[s] # "free" => ctrl[s] \in {"up", "dead"} /\ OnTheWire(s)

(* Who waits for an answer is where a request is made.                     *)
Asking(s) ==
    /\ lock[s] = "dial" => s = n /\ dial \in {"setup", "play"}
    /\ lock[s] = "keep" => keep[s] = "ask"
    /\ s = n /\ dial \in {"setup", "play"} =>
         /\ lock[s] = "dial" /\ ~stop[s] /\ keep[s] = "off" /\ rtp[s] = "off"
         /\ ctrl[s] \in {"up", "dead"}
    /\ s = n /\ dial = "verify" => ~stop[s] /\ keep[s] = "wait" /\ rtp[s] = "run"

SInv(s) == Ahead(s) /\ Behind(s) /\ Wire(s) /\ Asking(s)

IInv == TypeOK /\ \A s \in Sessions : SInv(s)

(* The invariant is what the properties need.                              *)
LEMMA Implied == IInv => NoAttemptLeft /\ AnswersMatch
  <1> SUFFICES ASSUME IInv PROVE NoAttemptLeft /\ AnswersMatch
    OBVIOUS
  <1>1. NoAttemptLeft
    <2> SUFFICES ASSUME NEW s \in Sessions, Open(s) PROVE s = n /\ dial \notin {"connect", "failed"}
      BY DEF NoAttemptLeft
    <2>1. ctrl[s] \in {"up", "dead"} /\ ~stop[s]
      BY DEF Open
    <2>2. ~Pristine(s) /\ ~(stop[s] \/ NoPorts(s))
      BY <2>1 DEF Pristine, NoPorts
    <2>3. ~(s > n) /\ ~(s < n) /\ (s = n => dial \notin {"connect", "failed"})
      BY <2>2 DEF IInv, SInv, Ahead, Behind
    <2>4. n \in Int /\ s \in Int
      BY SessionAssumption DEF IInv, TypeOK, Sessions
    <2> QED BY <2>3, <2>4
  <1>2. AnswersMatch
    <2> SUFFICES ASSUME NEW s \in Sessions, ~stop[s], answers[s] # <<>>
                 PROVE  lock[s] \in {"dial", "keep"} /\ Head(answers[s]).to = Request(s)
      BY DEF AnswersMatch, Request
    <2>1. lock[s] \in {"dial", "keep"}
      BY DEF IInv, SInv, TypeOK, Wire
    <2>2. \E ok \in BOOLEAN : answers[s] = <<[to |-> Request(s), ok |-> ok]>>
      BY <2>1 DEF IInv, SInv, Wire, OnTheWire
    <2> QED BY <2>1, <2>2
  <1> QED BY <1>1, <1>2

(* Initially nothing has begun.                                            *)
LEMMA InitInv == Init => IInv
  <1> SUFFICES ASSUME Init PROVE IInv
    OBVIOUS
  <1> USE SessionAssumption DEF Init, Sessions
  <1>1. TypeOK
    <2>1. n \in Sessions /\ fresh \in 0..Healthy
      OBVIOUS
    <2>2. psi \in BOOLEAN
      OBVIOUS
    <2>3. /\ ctrl \in [Sessions -> {"none", "up", "dead", "closed"}]
          /\ lock \in [Sessions -> {"free", "dial", "keep", "bye"}]
          /\ sent \in [Sessions -> Seq(Methods)] /\ answers \in [Sessions -> Seq(Replies)]
      OBVIOUS
    <2> QED BY <2>1, <2>2, <2>3 DEF TypeOK
  <1>2. ASSUME NEW s \in Sessions PROVE SInv(s)
    BY DEF SInv, Ahead, Behind, Wire, Asking, Pristine, NoPorts
  <1> QED BY <1>1, <1>2 DEF IInv

WireOK == /\ ctrl \in [Sessions -> {"none", "up", "dead", "closed"}]
          /\ lock \in [Sessions -> {"free", "dial", "keep", "bye"}]
          /\ sent \in [Sessions -> Seq(Methods)]
          /\ answers \in [Sessions -> Seq(Replies)]

(* What is made of a sequence is one.                                      *)
LEMMA SeqTypes ==
  ASSUME NEW S, NEW q \in Seq(S)
  PROVE  /\ <<>> \in Seq(S)
         /\ \A e \in S : Append(q, e) \in Seq(S)
         /\ q # <<>> => Tail(q) \in Seq(S) /\ Head(q) \in S
  OBVIOUS

(* What a request does to the wire keeps the types.                        *)
LEMMA RequestTypes ==
  ASSUME WireOK, NEW s \in Sessions, NEW who \in {"dial", "keep", "bye"}, NEW m \in Methods,
         \/ Ask(s, who, m) \/ GaveUp(s, who) \/ Unsent(s)
         \/ \E ok \in BOOLEAN : Answered(s, who, ok)
  PROVE  WireOK'
  <1>1. CASE Ask(s, who, m)
    <2>1. Append(sent[s], m) \in Seq(Methods)
      BY SeqTypes DEF WireOK
    <2> QED BY <1>1, <2>1 DEF Ask, WireOK
  <1>2. CASE GaveUp(s, who)
    BY <1>2 DEF GaveUp, WireOK
  <1>3. CASE Unsent(s)
    BY <1>3 DEF Unsent, WireOK
  <1>4. CASE \E ok \in BOOLEAN : Answered(s, who, ok)
    <2>1. answers[s] # <<>> => Tail(answers[s]) \in Seq(Replies)
      BY SeqTypes DEF WireOK
    <2> QED BY <1>4, <2>1 DEF Answered, WireOK
  <1> QED BY <1>1, <1>2, <1>3, <1>4

(* Close keeps the types of what it closes.                                *)
LEMMA CloseTypes ==
  ASSUME TypeOK, NEW s \in Sessions, Close(s)
  PROVE  /\ stop' \in [Sessions -> BOOLEAN]
         /\ bye' \in [Sessions -> {"off", "ask", "close", "done"}]
  BY DEF TypeOK, Close

(* Types survive every step.                                               *)
LEMMA TypeStep == IInv /\ [Next]_vars => TypeOK'
  <1> SUFFICES ASSUME TypeOK, [Next]_vars PROVE TypeOK'
    BY DEF IInv
  <1> USE DEF callVars, wireVars, loopVars, endVars
  <1>a. /\ WireOK /\ n \in Sessions /\ fresh \in 0..Healthy
        /\ Healthy \in Nat /\ 0 \in 0..Healthy
    <2>1. WireOK /\ n \in Sessions /\ fresh \in 0..Healthy
      BY DEF TypeOK, WireOK
    <2> QED BY <2>1, SessionAssumption
  <1>b. Retry => n' \in Sessions /\ dial' \in {"connect", "failed"}
    BY <1>a, SessionAssumption DEF Retry, Sessions
  <1>c. {"SETUP", "PLAY", "OPTIONS", "TEARDOWN"} = Methods
    BY DEF Methods
  <1>1. CASE Connect
    <2>1. Append(sent[n], "SETUP") \in Seq(Methods)
      BY <1>a, <1>c, SeqTypes DEF WireOK
    <2>2. CASE /\ lock' = [lock EXCEPT ![n] = "dial"]
               /\ sent' = [sent EXCEPT ![n] = Append(@, "SETUP")]
               /\ ctrl' = [ctrl EXCEPT ![n] = "up"]
               /\ dial' = "setup" /\ fresh' = 0 /\ UNCHANGED n
      BY <1>1, <1>a, <2>1, <2>2 DEF Connect, TypeOK
    <2>3. CASE /\ ctrl' \in {ctrl, [ctrl EXCEPT ![n] = "closed"]}
               /\ Retry /\ UNCHANGED <<lock, sent, fresh>>
      BY <1>1, <1>b, <2>3 DEF Connect, TypeOK
    <2> QED BY <1>1, <2>2, <2>3 DEF Connect
  <1>2. CASE SetUp
    <2>1. /\ Append(sent[n], "PLAY") \in Seq(Methods)
          /\ Tail(answers[n]) \in Seq(Replies)
      BY <1>2, <1>a, <1>c, SeqTypes DEF WireOK, SetUp
    <2> QED BY <1>2, <1>a, <2>1 DEF SetUp, TypeOK
  <1>3. CASE Play
    <2>1. WireOK'
      BY <1>3, <1>a, <1>c, RequestTypes DEF Play
    <2> QED BY <1>3, <1>a, <2>1 DEF Play, TypeOK, WireOK
  <1>4. CASE Refused
    <2>1. WireOK'
      BY <1>4, <1>a, <1>c, RequestTypes DEF Refused, Fails
    <2>2. /\ stop' \in [Sessions -> BOOLEAN]
          /\ bye' \in [Sessions -> {"off", "ask", "close", "done"}]
      BY <1>4, <1>a, CloseTypes DEF Refused
    <2> QED BY <1>4, <1>a, <1>b, <2>1, <2>2 DEF Refused, TypeOK, WireOK
  <1>5. CASE Verified
    BY <1>5 DEF Verified, TypeOK
  <1>6. CASE Unverified
    <2>1. /\ stop' \in [Sessions -> BOOLEAN]
          /\ bye' \in [Sessions -> {"off", "ask", "close", "done"}]
      BY <1>6, <1>a, CloseTypes DEF Unverified
    <2> QED BY <1>6, <1>b, <2>1 DEF Unverified, TypeOK
  <1>7. CASE OwnerCloses
    <2>1. /\ stop' \in [Sessions -> BOOLEAN]
          /\ bye' \in [Sessions -> {"off", "ask", "close", "done"}]
      BY <1>7, <1>a, CloseTypes DEF OwnerCloses
    <2> QED BY <1>7, <2>1 DEF OwnerCloses, TypeOK
  <1>8. ASSUME NEW s \in Sessions, Arrive(s) PROVE TypeOK'
    <2>1. fresh + 1 \in 0..Healthy
      BY <1>8, <1>a DEF Arrive
    <2> QED BY <1>8, <2>1 DEF Arrive, TypeOK
  <1>9. ASSUME NEW s \in Sessions, RtpEnds(s) PROVE TypeOK'
    <2>1. /\ stop' \in [Sessions -> BOOLEAN]
          /\ bye' \in [Sessions -> {"off", "ask", "close", "done"}]
      BY <1>9, CloseTypes DEF RtpEnds
    <2> QED BY <1>9, <2>1 DEF RtpEnds, TypeOK
  <1>10. ASSUME NEW s \in Sessions, Tick(s) PROVE TypeOK'
    <2>1. /\ stop' \in [Sessions -> BOOLEAN]
          /\ bye' \in [Sessions -> {"off", "ask", "close", "done"}]
      BY <1>10, CloseTypes DEF Tick, TypeOK
    <2> QED BY <1>10, <1>a, <2>1 DEF Tick, TypeOK
  <1>11. ASSUME NEW s \in Sessions, KeepWakes(s) PROVE TypeOK'
    BY <1>11 DEF KeepWakes, TypeOK
  <1>12. ASSUME NEW s \in Sessions, Keep(s) PROVE TypeOK'
    <2>1. WireOK'
      BY <1>12, <1>a, <1>c, RequestTypes DEF Keep, KeepSends, KeepAnswered, KeepFails, Fails
    <2>2. /\ stop' \in [Sessions -> BOOLEAN]
          /\ bye' \in [Sessions -> {"off", "ask", "close", "done"}]
      BY <1>12, CloseTypes DEF Keep, KeepSends, KeepAnswered, KeepFails, TypeOK
    <2>3. /\ keep' \in [Sessions -> {"off", "wait", "ask", "done"}]
          /\ UNCHANGED <<n, dial, psi, id, rtp, fresh, box>>
      BY <1>12 DEF Keep, KeepSends, KeepAnswered, KeepFails, TypeOK
    <2> QED BY <2>1, <2>2, <2>3 DEF TypeOK, WireOK
  <1>13. ASSUME NEW s \in Sessions, Bye(s) PROVE TypeOK'
    <2>1. CASE ByeSends(s) \/ ByeEnds(s)
      <3>1. WireOK'
        BY <2>1, <1>a, <1>c, RequestTypes DEF ByeSends, ByeEnds
      <3>2. /\ bye' \in [Sessions -> {"off", "ask", "close", "done"}]
            /\ UNCHANGED <<n, dial, psi, id, rtp, keep, fresh, stop, box>>
        BY <2>1 DEF ByeSends, ByeEnds, TypeOK
      <3> QED BY <3>1, <3>2 DEF TypeOK, WireOK
    <2>2. CASE ByeCloses(s)
      BY <2>2, <<>> \in Seq(Replies) DEF ByeCloses, CloseCtrl, TypeOK
    <2>3. CASE TimerFires(s)
      BY <2>3, <<>> \in Seq(Replies) DEF TimerFires, CloseCtrl, TypeOK
    <2> QED BY <1>13, <2>1, <2>2, <2>3 DEF Bye
  <1>14. ASSUME NEW s \in Sessions, BoxServes(s) PROVE TypeOK'
    <2>1. /\ Tail(sent[s]) \in Seq(Methods) /\ Head(sent[s]) \in Methods
      BY <1>14, <1>a, SeqTypes DEF WireOK, BoxServes
    <2>2. \A ok \in BOOLEAN : Append(answers[s], [to |-> Head(sent[s]), ok |-> ok])
                                 \in Seq(Replies)
      <3>1. \A ok \in BOOLEAN : [to |-> Head(sent[s]), ok |-> ok] \in Replies
        BY <2>1 DEF Replies
      <3> QED BY <1>a, <3>1, SeqTypes DEF WireOK
    <2>3. answers' \in [Sessions -> Seq(Replies)]
      BY <1>14, <1>a, <2>2 DEF WireOK, BoxServes
    <2>4. box' \in [Sessions -> {"none", "set", "play"}]
      BY <1>14 DEF BoxServes, TypeOK
    <2> QED BY <1>14, <2>1, <2>3, <2>4 DEF BoxServes, TypeOK
  <1>15. ASSUME NEW s \in Sessions, BoxDrops(s) \/ BoxForgets(s) PROVE TypeOK'
    BY <1>15 DEF BoxDrops, BoxForgets, TypeOK
  <1>16. CASE UNCHANGED vars
    BY <1>16 DEF vars, TypeOK
  <1>17. CASE MarkPsi
    BY <1>17 DEF MarkPsi, TypeOK
  <1> QED BY <1>1, <1>2, <1>3, <1>4, <1>5, <1>6, <1>7, <1>8, <1>9, <1>10, <1>11, <1>12,
             <1>13, <1>14, <1>15, <1>16, <1>17 DEF Next, Dial, Box

(* A step that leaves a session alone, and the dial where it is.           *)
Same(t) == /\ ctrl'[t] = ctrl[t] /\ lock'[t] = lock[t] /\ stop'[t] = stop[t]
           /\ sent'[t] = sent[t] /\ answers'[t] = answers[t]
           /\ rtp'[t] = rtp[t] /\ keep'[t] = keep[t] /\ bye'[t] = bye[t]

(* The invariant of a session survives such a step.                        *)
LEMMA LeftAlone ==
  ASSUME NEW t \in Sessions, SInv(t), Same(t), UNCHANGED <<n, dial>>
  PROVE  SInv(t)'
  BY DEF SInv, Ahead, Behind, Wire, Asking, Pristine, NoPorts, OnTheWire, Request, Same

(* A step of the dialer leaves the other sessions alone: those behind stay *)
(* behind, and those ahead stay ahead or come next.                        *)
LEMMA DialLeaves ==
  ASSUME IInv, NEW t \in Sessions, t # n, Same(t),
         \/ Retry
         \/ n' = n /\ dial' \in {"setup", "play", "verify", "up"}
  PROVE  SInv(t)'
  <1>1. n \in Int /\ t \in Int /\ SInv(t)
    BY SessionAssumption DEF IInv, TypeOK, Sessions
  <1>2. /\ t > n' \/ (t = n' /\ dial' = "connect") => t > n
        /\ t < n' \/ (t = n' /\ dial' = "failed") => t < n
        /\ t = n' => dial' = "connect"
    BY <1>1 DEF Retry
  <1>3. lock[t] # "dial"
    BY <1>1 DEF SInv, Asking
  <1>4. Ahead(t)' /\ Behind(t)'
    BY <1>1, <1>2 DEF SInv, Ahead, Behind, Pristine, NoPorts, Same
  <1>5. Asking(t)'
    BY <1>1, <1>2, <1>3 DEF SInv, Asking, Same
  <1>6. Wire(t)'
    BY <1>1, <1>3 DEF SInv, Wire, OnTheWire, Request, Same, IInv, TypeOK
  <1> QED BY <1>4, <1>5, <1>6 DEF SInv

(* The invariant survives every step of a session.                         *)
LEMMA SessionStep ==
  ASSUME IInv, NEW s \in Sessions,
         \/ Arrive(s) \/ RtpEnds(s) \/ Tick(s) \/ KeepWakes(s)
         \/ Keep(s) \/ Bye(s) \/ Box(s),
         NEW t \in Sessions
  PROVE  SInv(t)'
  <1> USE DEF callVars, wireVars, loopVars, endVars
  <1>1. UNCHANGED <<n, dial>>
    BY DEF Arrive, RtpEnds, Tick, KeepWakes, Keep, KeepSends, KeepAnswered, KeepFails,
           Bye, ByeSends, ByeEnds, ByeCloses, TimerFires, Box, BoxServes, BoxDrops, BoxForgets
  <1>2. SInv(t) /\ SInv(s) /\ TypeOK
    BY DEF IInv
  <1>3. CASE t # s
    <2>1. Same(t)
      <3> USE <1>2, <1>3 DEF TypeOK, Same
      <3>1. CASE Arrive(s) \/ RtpEnds(s) \/ Tick(s) \/ KeepWakes(s)
        BY <3>1 DEF Arrive, RtpEnds, Tick, KeepWakes, Close
      <3>2. CASE Keep(s)
        BY <3>2 DEF Keep, KeepSends, KeepAnswered, KeepFails, Ask, Answered, Fails, GaveUp, Unsent, Close
      <3>3. CASE Bye(s)
        BY <3>3 DEF Bye, ByeSends, ByeEnds, ByeCloses, TimerFires, CloseCtrl, Ask, Answered, GaveUp, Unsent
      <3>4. CASE Box(s)
        BY <3>4 DEF Box, BoxServes, BoxDrops, BoxForgets
      <3> QED BY <3>1, <3>2, <3>3, <3>4
    <2> QED BY <1>1, <1>2, <2>1, LeftAlone
  <1>4. CASE t = s
    <2> USE <1>1, <1>2, <1>4 DEF TypeOK
    <2>0. s \in Int /\ n \in Int /\ n' \in Int
      BY SessionAssumption DEF Sessions
    <2>1. CASE Arrive(s) \/ BoxForgets(s)
      BY <2>1, LeftAlone DEF Arrive, BoxForgets, Same
    <2>2. ASSUME ~Pristine(s), ~NoPorts(s) \/ stop'[s], stop[s] => stop'[s]
          PROVE  Ahead(s)' /\ Behind(s)'
      BY <2>2 DEF SInv, Ahead, Behind
    <2>3. CASE RtpEnds(s)
      <3>1. ~Pristine(s) /\ ~NoPorts(s) /\ stop'[s] /\ UNCHANGED <<lock, keep>>
        BY <2>3 DEF RtpEnds, Close, Pristine, NoPorts
      <3>2. ~(s = n /\ dial \in {"setup", "play", "verify"})
        BY <2>3 DEF RtpEnds, Probing, SInv, Asking
      <3> QED BY <3>1, <3>2, <2>2 DEF SInv, Wire, Asking
    <2>4. CASE Tick(s)
      <3>1. ~Pristine(s) /\ ~NoPorts(s) /\ ~stop[s] /\ UNCHANGED <<lock, ctrl, sent, answers, rtp>>
        BY <2>4 DEF Tick, Pristine, NoPorts
      <3>2. ~(s = n /\ dial \in {"setup", "play", "verify"}) /\ lock[s] \notin {"keep", "dial"}
        BY <2>4 DEF Tick, Probing, SInv, Asking
      <3>3. lock[s] = "free"
        BY <3>1, <3>2 DEF SInv, Wire
      <3>4. CASE UNCHANGED <<keep, endVars>>
        BY <3>1, <3>4, LeftAlone DEF Same
      <3>5. CASE Close(s)
        <4>1. stop'[s]
          BY <3>5 DEF Close
        <4> QED BY <4>1, <3>1, <3>2, <3>3, <2>2 DEF SInv, Wire, Asking
      <3> QED BY <2>4, <3>4, <3>5 DEF Tick
    <2>5. CASE KeepWakes(s)
      <3>1. ~Pristine(s) /\ ~NoPorts(s) /\ UNCHANGED <<lock, ctrl, sent, answers, rtp, stop, bye>>
        BY <2>5 DEF KeepWakes, Pristine, NoPorts
      <3>2. ~(s = n /\ dial \in {"setup", "play", "verify"}) /\ lock[s] \notin {"keep", "dial"}
        BY <2>5 DEF KeepWakes, Probing, SInv, Asking
      <3>3. Wire(s)'
        BY <3>1, <3>2 DEF SInv, Wire, OnTheWire, Request
      <3> QED BY <3>1, <3>2, <3>3, <2>2 DEF SInv, Asking
    <2>6. CASE KeepSends(s)
      <3>1. /\ ~Pristine(s) /\ ~NoPorts(s) /\ UNCHANGED <<ctrl, answers, rtp, keep, stop, bye>>
            /\ lock[s] = "free" /\ lock'[s] = "keep" /\ keep[s] = "ask"
            /\ sent'[s] = Append(sent[s], "OPTIONS")
        BY <2>6 DEF KeepSends, Ask, Pristine, NoPorts
      <3>2. ~(s = n /\ dial \in {"setup", "play", "verify"})
        BY <3>1 DEF SInv, Asking
      <3>3. Wire(s)'
        <4>1. ctrl'[s] = "up"
          BY <2>6 DEF KeepSends, Ask
        <4>2. ASSUME ~stop[s] PROVE OnTheWire(s)' /\ bye[s] = "off"
          <5>1. sent[s] = <<>> /\ answers'[s] = <<>> /\ bye[s] = "off"
            BY <3>1, <4>2 DEF SInv, Wire
          <5>2. sent'[s] = <<"OPTIONS">>
            BY <3>1, <5>1
          <5> QED BY <3>1, <5>1, <5>2 DEF OnTheWire, Request
        <4> QED BY <3>1, <4>1, <4>2 DEF Wire
      <3> QED BY <3>1, <3>2, <3>3, <2>2 DEF SInv, Asking
    <2>7. CASE KeepAnswered(s)
      <3>1. /\ ~Pristine(s) /\ ~NoPorts(s) /\ UNCHANGED <<ctrl, sent, rtp, stop, bye>>
            /\ lock[s] = "keep" /\ lock'[s] = "free" /\ keep'[s] = "wait"
            /\ answers[s] # <<>> /\ answers'[s] = Tail(answers[s])
        BY <2>7 DEF KeepAnswered, Answered, Pristine, NoPorts
      <3>2. ~(s = n /\ dial \in {"setup", "play", "verify"})
        BY <3>1 DEF SInv, Asking
      <3>3. Wire(s)'
        <4>1. ASSUME ~stop[s] PROVE sent[s] = <<>> /\ Tail(answers[s]) = <<>> /\ bye[s] = "off"
          <5>1. /\ bye[s] = "off" /\ sent[s] = <<>>
                /\ \E ok \in BOOLEAN : answers[s] = <<[to |-> Request(s), ok |-> ok]>>
            BY <3>1, <4>1 DEF SInv, Wire, OnTheWire
          <5> QED BY <5>1
        <4> QED BY <3>1, <4>1 DEF Wire
      <3> QED BY <3>1, <3>2, <3>3, <2>2 DEF SInv, Asking
    <2>8. CASE KeepFails(s)
      <3>1. /\ ~Pristine(s) /\ ~NoPorts(s) /\ keep[s] = "ask" /\ stop'[s]
            /\ lock'[s] = "free" /\ UNCHANGED rtp
        <4>1. keep[s] = "ask" /\ stop'[s] /\ UNCHANGED rtp /\ (Fails(s, "keep") \/ Unsent(s))
          BY <2>8 DEF KeepFails, Close
        <4>2. lock'[s] = "free"
          BY <4>1 DEF Fails, Answered, GaveUp, Unsent
        <4> QED BY <4>1, <4>2 DEF Pristine, NoPorts
      <3>2. ~(s = n /\ dial \in {"setup", "play", "verify"})
        BY <3>1 DEF SInv, Asking
      <3> QED BY <3>1, <3>2, <2>2 DEF SInv, Wire, Asking
    <2>9. CASE Bye(s)
      <3>1. stop[s] /\ UNCHANGED <<stop, rtp, keep>> /\ lock'[s] \in {lock[s], "bye", "free"}
        <4>1. CASE ByeSends(s)
          BY <4>1 DEF ByeSends, Ask, Unsent, SInv, Wire
        <4>2. CASE ByeEnds(s)
          BY <4>2 DEF ByeEnds, Answered, GaveUp, SInv, Wire
        <4>3. CASE ByeCloses(s) \/ TimerFires(s)
          BY <4>3 DEF ByeCloses, TimerFires, SInv, Wire
        <4> QED BY <2>9, <4>1, <4>2, <4>3 DEF Bye
      <3>2. ~(s = n /\ dial \in {"setup", "play", "verify"}) /\ lock[s] # "dial" /\ ~Pristine(s)
        BY <3>1 DEF SInv, Asking, Pristine
      <3> QED BY <3>1, <3>2, <2>2 DEF SInv, Wire, Asking
    <2>10. CASE BoxServes(s)
      <3>1. /\ ~Pristine(s) /\ ~NoPorts(s) /\ UNCHANGED <<ctrl, lock, rtp, keep, stop, bye>>
            /\ sent[s] # <<>> /\ sent'[s] = Tail(sent[s])
        BY <2>10 DEF BoxServes, Pristine, NoPorts
      <3>2. Asking(s)'
        BY <3>1 DEF SInv, Asking
      <3>3. ASSUME ~stop[s] PROVE OnTheWire(s)' /\ lock[s] # "free" /\ ctrl[s] = "up"
        <4>1. /\ lock[s] # "free" /\ ctrl[s] = "up"
              /\ answers[s] = <<>> /\ sent[s] = <<Request(s)>>
          BY <2>10, <3>1, <3>3 DEF SInv, Wire, OnTheWire, BoxServes
        <4>2. Request(s)' = Request(s)
          BY <3>1 DEF Request
        <4>3. PICK ok \in BOOLEAN :
                answers' = [answers EXCEPT ![s] = Append(@, [to |-> Head(sent[s]), ok |-> ok])]
          BY <2>10, <4>1 DEF BoxServes
        <4>4. answers'[s] = Append(<<>>, [to |-> Request(s), ok |-> ok])
          BY <4>1, <4>3
        <4>5. answers'[s] = <<[to |-> Request(s), ok |-> ok]>> /\ sent'[s] = <<>>
          BY <3>1, <4>1, <4>4
        <4> QED BY <4>1, <4>2, <4>5 DEF OnTheWire
      <3>4. Wire(s)'
        BY <3>1, <3>3 DEF SInv, Wire
      <3> QED BY <3>1, <3>2, <3>4, <2>2 DEF SInv
    <2>11. CASE BoxDrops(s)
      <3>1. /\ ~Pristine(s) /\ ~NoPorts(s) /\ ctrl'[s] = "dead"
            /\ UNCHANGED <<lock, sent, answers, rtp, keep, stop, bye>>
        BY <2>11 DEF BoxDrops, Pristine, NoPorts
      <3> QED BY <3>1, <2>2 DEF SInv, Wire, OnTheWire, Request, Asking
    <2> QED BY <2>1, <2>3, <2>4, <2>5, <2>6, <2>7, <2>8, <2>9, <2>10, <2>11 DEF Keep, Box
  <1> QED BY <1>3, <1>4

(* An attempt given up is closed, or has no ports.                         *)
LEMMA GivenUp ==
  ASSUME IInv, NEW t \in Sessions, t = n, Retry,
         \/ stop'[t] /\ lock'[t] # "dial" /\ (lock'[t] = "keep" => keep'[t] = "ask")
         \/ NoPorts(t)'
  PROVE  SInv(t)'
  <1>1. n \in Int /\ t \in Int
    BY SessionAssumption DEF IInv, TypeOK, Sessions
  <1>2. /\ ~(t > n') /\ (t = n' => dial' = "failed")
        /\ t < n' \/ dial' = "failed"
        /\ dial' \notin {"setup", "play", "verify"}
    BY <1>1 DEF Retry
  <1> QED BY <1>2 DEF SInv, Ahead, Behind, Wire, Asking, NoPorts

(* The invariant survives every step of the dialer and of the owner.       *)
LEMMA DialStep ==
  ASSUME IInv, Dial \/ OwnerCloses, NEW t \in Sessions
  PROVE  SInv(t)'
  <1> USE DEF callVars, wireVars, loopVars, endVars
  <1>1. /\ TypeOK /\ SInv(n) /\ SInv(t) /\ n \in Sessions
        /\ n \in Int /\ t \in Int /\ n' \in Int /\ n' \in {n, n + 1}
    <2>1. TypeOK /\ SInv(t) /\ n \in Sessions /\ SInv(n)
      BY DEF IInv, TypeOK
    <2>2. n \in Int /\ t \in Int
      BY <2>1, SessionAssumption DEF Sessions
    <2>3. n' \in {n, n + 1}
      BY DEF Dial, OwnerCloses, Connect, Retry, SetUp, Play, Refused, Verified, Unverified
    <2> QED BY <2>1, <2>2, <2>3
  <1>2. CASE t # n
    <2>1. CASE OwnerCloses
      BY <2>1, <1>1, <1>2, LeftAlone DEF OwnerCloses, Close, Same, TypeOK
    <2>2. CASE Dial
      <3>1. Same(t)
        <4> USE <1>1, <1>2 DEF Same, TypeOK
        <4>1. CASE Connect
          BY <4>1 DEF Connect
        <4>2. CASE SetUp \/ Play
          BY <4>2 DEF SetUp, Play, Answered
        <4>3. CASE Refused
          <5>1. Close(n) /\ UNCHANGED <<rtp, keep>>
                /\ (Answered(n, "dial", FALSE) \/ GaveUp(n, "dial"))
            BY <4>3 DEF Refused, Fails
          <5>2. stop'[t] = stop[t] /\ bye'[t] = bye[t]
            BY <5>1 DEF Close
          <5>3. /\ lock'[t] = lock[t] /\ answers'[t] = answers[t]
                /\ UNCHANGED <<ctrl, sent>>
            BY <5>1 DEF Answered, GaveUp
          <5> QED BY <5>1, <5>2, <5>3
        <4>4. CASE Verified \/ Unverified
          BY <4>4 DEF Verified, Unverified, Close
        <4> QED BY <2>2, <4>1, <4>2, <4>3, <4>4 DEF Dial
      <3>2. Retry \/ (n' = n /\ dial' \in {"setup", "play", "verify", "up"})
        <4>1. CASE Connect \/ Refused \/ Unverified
          BY <4>1 DEF Connect, Refused, Unverified
        <4>2. CASE SetUp \/ Play \/ Verified
          BY <4>2 DEF SetUp, Play, Verified
        <4> QED BY <2>2, <4>1, <4>2 DEF Dial
      <3> QED BY <1>2, <3>1, <3>2, DialLeaves
    <2> QED BY <2>1, <2>2
  <1>3. CASE t = n
    <2>1. CASE Connect
      <3>1. Pristine(t)
        BY <2>1, <1>1, <1>3 DEF Connect, SInv, Ahead
      <3>2. CASE /\ lock' = [lock EXCEPT ![n] = "dial"]
                 /\ sent' = [sent EXCEPT ![n] = Append(@, "SETUP")]
                 /\ ctrl' = [ctrl EXCEPT ![n] = "up"]
                 /\ dial' = "setup" /\ fresh' = 0 /\ UNCHANGED n
        <4>1. /\ lock'[t] = "dial" /\ ctrl'[t] = "up" /\ sent'[t] = Append(<<>>, "SETUP")
              /\ n' = n /\ dial' = "setup"
              /\ answers'[t] = <<>> /\ UNCHANGED <<stop, bye, keep, rtp>>
          BY <2>1, <3>1, <3>2, <1>1, <1>3 DEF Connect, Pristine, TypeOK
        <4>2. OnTheWire(t)'
          BY <4>1 DEF OnTheWire, Request
        <4> QED BY <4>1, <4>2, <3>1, <1>1, <1>3 DEF SInv, Ahead, Behind, Wire, Asking, Pristine
      <3>3. CASE /\ ctrl' \in {ctrl, [ctrl EXCEPT ![n] = "closed"]}
                 /\ Retry /\ UNCHANGED <<lock, sent, fresh>>
        <4>1. NoPorts(t)'
          BY <2>1, <3>1, <3>3, <1>1, <1>3 DEF Connect, Pristine, NoPorts, TypeOK
        <4> QED BY <4>1, <3>3, <1>3, GivenUp
      <3> QED BY <2>1, <3>2, <3>3 DEF Connect
    <2>2. CASE dial \in {"setup", "play"} /\ (SetUp \/ Play)
      <3>1. /\ lock[t] = "dial" /\ ~stop[t] /\ keep[t] = "off" /\ rtp[t] = "off" /\ bye[t] = "off"
            /\ ctrl[t] \in {"up", "dead"} /\ OnTheWire(t) /\ n' = n
        BY <2>2, <1>1, <1>3 DEF SInv, Asking, Wire, SetUp, Play
      <3>2. answers[t] # <<>> => sent[t] = <<>> /\ Tail(answers[t]) = <<>>
        <4>1. SUFFICES ASSUME answers[t] # <<>> PROVE sent[t] = <<>> /\ Tail(answers[t]) = <<>>
          OBVIOUS
        <4>2. sent[t] = <<>> /\ \E ok \in BOOLEAN : answers[t] = <<[to |-> Request(t), ok |-> ok]>>
          BY <3>1, <4>1 DEF OnTheWire
        <4> QED BY <4>2
      <3>3. CASE SetUp
        <4>1. /\ answers'[t] = <<>> /\ sent'[t] = Append(<<>>, "PLAY") /\ dial' = "play"
              /\ UNCHANGED <<n, ctrl, lock, rtp, keep, stop, bye>>
          BY <1>1, <1>3, <3>2, <3>3 DEF SetUp, TypeOK
        <4>2. OnTheWire(t)'
          BY <3>1, <4>1 DEF OnTheWire, Request
        <4> QED BY <1>1, <1>3, <3>1, <4>1, <4>2 DEF SInv, Ahead, Behind, Wire, Asking
      <3>4. CASE Play
        <4>1. /\ answers'[t] = <<>> /\ sent'[t] = <<>> /\ dial' = "verify" /\ lock'[t] = "free"
              /\ rtp'[t] = "run" /\ keep'[t] = "wait" /\ UNCHANGED <<n, stop, bye>>
          BY <1>1, <1>3, <3>2, <3>4 DEF Play, Answered, TypeOK
        <4> QED BY <1>1, <1>3, <3>1, <4>1 DEF SInv, Ahead, Behind, Wire, Asking
      <3> QED BY <2>2, <3>3, <3>4
    <2>3. CASE Refused
      <3>1. stop'[t] /\ lock'[t] = "free" /\ Retry
        <4>1. Close(t) /\ (Answered(t, "dial", FALSE) \/ GaveUp(t, "dial")) /\ Retry
          BY <2>3, <1>3 DEF Refused, Fails
        <4>2. stop'[t]
          BY <4>1, <1>1 DEF Close, TypeOK
        <4>3. lock'[t] = "free"
          BY <4>1, <1>1 DEF Answered, GaveUp, TypeOK
        <4> QED BY <4>1, <4>2, <4>3
      <3> QED BY <3>1, <1>3, GivenUp
    <2>4. CASE Verified
      <3>1. /\ dial = "verify" /\ dial' = "up"
            /\ UNCHANGED <<n, ctrl, lock, sent, answers, rtp, keep, stop, bye>>
        BY <2>4 DEF Verified
      <3>2. ~stop[t] /\ keep[t] = "wait" /\ lock[t] = "free"
        BY <3>1, <1>1, <1>3 DEF SInv, Asking, Wire, TypeOK
      <3> QED BY <3>1, <3>2, <1>1, <1>3 DEF SInv, Ahead, Behind, Wire, Asking
    <2>5. CASE Unverified
      <3>1. /\ stop'[t] /\ lock'[t] # "dial" /\ (lock'[t] = "keep" => keep'[t] = "ask")
            /\ Retry
        BY <2>5, <1>1, <1>3 DEF Unverified, Close, SInv, Asking, TypeOK
      <3> QED BY <3>1, <1>3, GivenUp
    <2>6. CASE OwnerCloses
      <3>1. stop'[t] /\ dial = "up" /\ UNCHANGED <<n, dial, lock, keep>>
        BY <2>6, <1>1, <1>3 DEF OwnerCloses, Close, TypeOK
      <3> QED BY <3>1, <1>1, <1>3 DEF SInv, Ahead, Behind, Wire, Asking
    <2> QED BY <2>1, <2>2, <2>3, <2>4, <2>5, <2>6 DEF Dial, SetUp, Play
  <1> QED BY <1>2, <1>3

(* The invariant is inductive.                                             *)
LEMMA NextInv == IInv /\ [Next]_vars => IInv'
  <1> SUFFICES ASSUME IInv, [Next]_vars PROVE IInv'
    OBVIOUS
  <1>1. TypeOK'
    BY TypeStep
  <1>2. ASSUME NEW t \in Sessions PROVE SInv(t)'
    <2>1. CASE Dial \/ OwnerCloses
      BY <2>1, DialStep
    <2>2. ASSUME NEW s \in Sessions,
                 \/ Arrive(s) \/ RtpEnds(s) \/ Tick(s) \/ KeepWakes(s)
                 \/ Keep(s) \/ Bye(s) \/ Box(s)
          PROVE  SInv(t)'
      BY <2>2, SessionStep
    <2>3. CASE MarkPsi \/ UNCHANGED vars
      <3>1. SInv(t) /\ Same(t) /\ UNCHANGED <<n, dial>>
        BY <2>3 DEF MarkPsi, IInv, Same, vars, callVars, wireVars, loopVars, endVars
      <3> QED BY <3>1, LeftAlone
    <2> QED BY <2>1, <2>2, <2>3 DEF Next
  <1> QED BY <1>1, <1>2 DEF IInv, Sessions

(* Whatever the box and the network do to the three attempts of a dial,    *)
(* none but the session it returns is left open.                           *)
THEOREM NothingLeftOpen == Spec => [](TypeOK /\ NoAttemptLeft)
  <1>1. IInv => TypeOK /\ NoAttemptLeft
    BY Implied DEF IInv
  <1> QED BY <1>1, InitInv, NextInv, PTL DEF Spec

(* An answer is never taken for that to another request while the session  *)
(* is in use, so CSeq need not be checked.                                 *)
THEOREM AnswersAreOwn == Spec => []AnswersMatch
  BY Implied, InitInv, NextInv, PTL DEF Spec

-----------------------------------------------------------------------------
(* The refinement of DialedSession.  It needs besides that a session in    *)
(* use has a connection, if perhaps a dead one.                            *)

Linked == dial \in {"setup", "play", "verify", "up"} /\ ~stop[n] => ctrl[n] \in {"up", "dead"}

OpenOnes == {s \in Sessions : Open(s)}
GoneOnes == {s \in Sessions : GaveUpOn(s)}

(* The steps that leave the dial where it is, by what they do to the       *)
(* session: a connection is closed only behind one that was closed.        *)
LEMMA SessionEffect ==
  ASSUME IInv, NEW s \in Sessions,
         \/ Arrive(s) \/ RtpEnds(s) \/ Tick(s) \/ KeepWakes(s)
         \/ Keep(s) \/ Bye(s) \/ Box(s)
  PROVE  /\ UNCHANGED <<n, dial>>
         /\ \/ UNCHANGED stop
            \/ /\ s = n /\ dial = "up" /\ ~stop[s]
               /\ stop' = [stop EXCEPT ![s] = TRUE]
         /\ \/ UNCHANGED ctrl
            \/ stop[s] /\ ctrl' = [ctrl EXCEPT ![s] = "closed"]
            \/ ctrl[s] = "up" /\ ctrl' = [ctrl EXCEPT ![s] = "dead"]
  <1> USE DEF callVars, wireVars, loopVars, endVars
  <1>1. TypeOK /\ SInv(s)
    BY DEF IInv
  <1>2. s \in Int /\ n \in Int
    BY <1>1, SessionAssumption DEF TypeOK, Sessions
  <1>3. ASSUME rtp[s] = "run" \/ keep[s] \in {"wait", "ask"}, ~stop[s], ~Probing(s)
        PROVE  s = n /\ dial = "up"
    <2>1. ~Pristine(s) /\ ~(stop[s] \/ NoPorts(s))
      BY <1>3 DEF Pristine, NoPorts
    <2>2. ~(s > n) /\ ~(s < n) /\ (s = n => dial \notin {"connect", "failed"})
      BY <1>1, <2>1 DEF SInv, Ahead, Behind
    <2>3. s = n
      BY <1>2, <2>2
    <2>4. dial \notin {"setup", "play", "verify"}
      BY <1>1, <1>3, <2>3 DEF SInv, Asking, Probing
    <2> QED BY <1>1, <2>2, <2>3, <2>4 DEF TypeOK
  <1>4. ASSUME stop[s] PROVE [stop EXCEPT ![s] = TRUE] = stop
    BY <1>1, <1>4 DEF TypeOK
  <1>5. CASE Arrive(s) \/ KeepWakes(s)
    BY <1>5 DEF Arrive, KeepWakes
  <1>6. CASE RtpEnds(s)
    BY <1>3, <1>4, <1>6 DEF RtpEnds, Close
  <1>7. CASE Tick(s)
    BY <1>3, <1>7 DEF Tick, Close
  <1>8. CASE Keep(s)
    <2>1. CASE KeepSends(s) \/ KeepAnswered(s)
      BY <2>1 DEF KeepSends, KeepAnswered, Ask, Answered
    <2>2. CASE KeepFails(s)
      <3>1. ~Probing(s) \/ stop[s]
        BY <1>1, <2>2 DEF KeepFails, Probing, SInv, Asking
      <3>2. UNCHANGED <<n, dial, ctrl>> /\ stop' = [stop EXCEPT ![s] = TRUE] /\ keep[s] = "ask"
        BY <2>2 DEF KeepFails, Close, Fails, Answered, GaveUp, Unsent
      <3> QED BY <1>3, <1>4, <3>1, <3>2
    <2> QED BY <1>8, <2>1, <2>2 DEF Keep
  <1>9. CASE Bye(s)
    <2>1. stop[s]
      <3>1. bye[s] # "off" \/ lock[s] = "bye" \/ stop[s]
        BY <1>9 DEF Bye, ByeSends, ByeEnds, ByeCloses, TimerFires, Answered, GaveUp
      <3> QED BY <1>1, <3>1 DEF SInv, Wire
    <2>2. UNCHANGED <<n, dial, stop>>
      BY <1>9 DEF Bye, ByeSends, ByeEnds, ByeCloses, TimerFires
    <2>3. UNCHANGED ctrl \/ ctrl' = [ctrl EXCEPT ![s] = "closed"]
      BY <1>9 DEF Bye, ByeSends, ByeEnds, ByeCloses, TimerFires, CloseCtrl, Ask, Unsent,
                  Answered, GaveUp
    <2> QED BY <2>1, <2>2, <2>3
  <1>10. CASE Box(s)
    BY <1>10 DEF Box, BoxServes, BoxDrops, BoxForgets
  <1> QED BY <1>5, <1>6, <1>7, <1>8, <1>9, <1>10

(* The steps of the dialer and of the owner, by what they do to the        *)
(* session.                                                                *)
LEMMA DialEffect ==
  ASSUME IInv, Dial \/ OwnerCloses
  PROVE  \/ /\ dial = "connect" /\ dial' = "setup"
            /\ ctrl' = [ctrl EXCEPT ![n] = "up"] /\ UNCHANGED <<n, stop>>
         \/ /\ dial = "connect" /\ Retry
            /\ ctrl' \in {ctrl, [ctrl EXCEPT ![n] = "closed"]} /\ UNCHANGED stop
         \/ /\ \/ dial = "setup" /\ dial' = "play"
               \/ dial = "play" /\ dial' = "verify"
            /\ UNCHANGED <<n, ctrl, stop>>
         \/ /\ dial \in {"setup", "play", "verify"} /\ Retry
            /\ stop' = [stop EXCEPT ![n] = TRUE] /\ UNCHANGED ctrl
         \/ dial = "verify" /\ dial' = "up" /\ UNCHANGED <<n, ctrl, stop>>
         \/ /\ dial = "up" /\ dial' = "up" /\ ~stop[n]
            /\ stop' = [stop EXCEPT ![n] = TRUE] /\ UNCHANGED <<n, ctrl>>
  <1> USE DEF callVars, wireVars, loopVars, endVars
  <1>1. CASE Connect
    BY <1>1 DEF Connect
  <1>2. CASE SetUp \/ Play
    BY <1>2 DEF SetUp, Play, Answered
  <1>3. CASE Refused
    BY <1>3 DEF Refused, Fails, Answered, GaveUp, Close
  <1>4. CASE Verified
    BY <1>4 DEF Verified
  <1>5. CASE Unverified
    BY <1>5 DEF Unverified, Close
  <1>6. CASE OwnerCloses
    BY <1>6 DEF OwnerCloses, Close
  <1> QED BY <1>1, <1>2, <1>3, <1>4, <1>5, <1>6 DEF Dial

(* A session in use keeps its connection.                                  *)
LEMMA LinkedStep == IInv /\ Linked /\ [Next]_vars => Linked'
  <1> SUFFICES ASSUME IInv, Linked, [Next]_vars PROVE Linked'
    OBVIOUS
  <1>1. TypeOK /\ n \in Sessions
    BY DEF IInv, TypeOK
  <1> USE <1>1 DEF Linked, TypeOK
  <1>2. CASE Dial \/ OwnerCloses
    <2> USE <1>2
    <2>1. ~stop'[n'] /\ dial' \in {"setup", "play", "verify", "up"} =>
            \/ n' = n /\ ctrl'[n] = "up"
            \/ /\ n' = n /\ UNCHANGED <<ctrl, stop>>
               /\ dial \in {"setup", "play", "verify", "up"}
      BY DialEffect DEF Retry
    <2> QED BY <2>1
  <1>3. ASSUME NEW s \in Sessions,
               \/ Arrive(s) \/ RtpEnds(s) \/ Tick(s) \/ KeepWakes(s)
               \/ Keep(s) \/ Bye(s) \/ Box(s)
        PROVE  Linked'
    <2>1. UNCHANGED <<n, dial>> /\ (stop[n] => stop'[n])
      BY <1>3, SessionEffect
    <2>2. ~stop[n] => ctrl'[n] \in {ctrl[n], "dead"}
      BY <1>3, SessionEffect
    <2> QED BY <2>1, <2>2
  <1>4. CASE MarkPsi \/ UNCHANGED vars
    BY <1>4 DEF MarkPsi, vars, callVars, wireVars, loopVars, endVars
  <1> QED BY <1>2, <1>3, <1>4 DEF Next

(* A session is open only where the dial is.                               *)
LEMMA OpenFacts ==
  ASSUME IInv, Linked
  PROVE  /\ OpenOnes \subseteq {n} /\ n \in Sessions /\ n \notin {s \in Sessions : s < n}
         /\ dial \in {"connect", "failed"} => OpenOnes = {}
         /\ dial \in {"setup", "play", "verify", "up"} /\ ~stop[n] => OpenOnes = {n}
         /\ dial \in {"connect", "setup", "play", "verify"} => ~stop[n]
  <1>1. TypeOK /\ n \in Sessions /\ SInv(n)
    BY DEF IInv, TypeOK
  <1>2. \A s \in Sessions : Open(s) => s = n /\ dial \notin {"connect", "failed"}
    BY Implied DEF NoAttemptLeft
  <1>3. n \notin {s \in Sessions : s < n}
    BY <1>1, SessionAssumption DEF Sessions
  <1>4. dial \in {"setup", "play", "verify", "up"} /\ ~stop[n] => Open(n)
    BY DEF Linked, Open
  <1>5. dial \in {"connect", "setup", "play", "verify"} => ~stop[n]
    BY <1>1 DEF SInv, Ahead, Asking, Pristine
  <1> QED BY <1>1, <1>2, <1>3, <1>4, <1>5 DEF OpenOnes

(* Going on to the next attempt, or failing, gives up the current one.     *)
LEMMA RetryGone ==
  ASSUME IInv, Retry, dial # "failed", ~stop[n],
         stop' \in {stop, [stop EXCEPT ![n] = TRUE]}
  PROVE  GoneOnes' = GoneOnes \cup {n} /\ CallState' \in {"dialing", "failed"}
  <1>1. TypeOK /\ n \in Sessions /\ n \in Int /\ \A s \in Sessions : SInv(s) /\ s \in Int
    BY SessionAssumption DEF IInv, TypeOK, Sessions
  <1>2. CASE n < Attempts
    <2>1. n' = n + 1 /\ dial' = "connect"
      BY <1>2 DEF Retry
    <2>2. \A s \in Sessions : s = n + 1 => ~stop[s] /\ stop'[s] = stop[s]
      BY <1>1 DEF SInv, Ahead, Pristine, TypeOK
    <2>3. \A s \in Sessions : s < n + 1 <=> s < n \/ s = n
      BY <1>1
    <2>4. \A s \in Sessions : GaveUpOn(s)' <=> GaveUpOn(s) \/ s = n
      BY <1>1, <2>1, <2>2, <2>3 DEF GaveUpOn
    <2> QED BY <1>1, <2>1, <2>4 DEF GoneOnes, CallState
  <1>3. CASE ~(n < Attempts)
    <2>1. n' = n /\ dial' = "failed"
      BY <1>3 DEF Retry
    <2>2. \A s \in Sessions : GaveUpOn(s)' <=> GaveUpOn(s) \/ s = n
      BY <1>1, <2>1 DEF GaveUpOn
    <2> QED BY <1>1, <2>1, <2>2 DEF GoneOnes, CallState
  <1> QED BY <1>2, <1>3

(* Every step is one of the promise, or does not show.                     *)
LEMMA DialedStep == IInv /\ Linked /\ [Next]_vars => [Dialed!Next]_(Dialed!vars)
  <1> SUFFICES ASSUME IInv, Linked, [Next]_vars
               PROVE  Dialed!Next \/ UNCHANGED Dialed!vars
    OBVIOUS
  <1> DEFINE Shown == <<CallState, OpenOnes, GoneOnes>>
  <1>0. /\ TypeOK /\ n \in Sessions
        /\ OpenOnes \subseteq {n} /\ n \notin {s \in Sessions : s < n}
        /\ dial \in {"connect", "failed"} => OpenOnes = {}
        /\ dial \in {"setup", "play", "verify", "up"} /\ ~stop[n] => OpenOnes = {n}
        /\ dial \in {"connect", "setup", "play", "verify"} => ~stop[n]
    BY OpenFacts DEF IInv
  <1>1. ~stop[n] /\ dial # "failed" => n \notin GoneOnes
    BY <1>0 DEF GoneOnes, GaveUpOn
  <1>2. CASE Dial \/ OwnerCloses
    <2>1. CASE /\ dial = "connect" /\ dial' = "setup"
               /\ ctrl' = [ctrl EXCEPT ![n] = "up"] /\ UNCHANGED <<n, stop>>
      <3>1. CallState = "dialing" /\ CallState' = "dialing"
        BY <2>1 DEF CallState
      <3>2. \A s \in Sessions : Open(s)' <=> s = n
        <4>1. \A s \in Sessions : ~Open(s)
          BY <1>0, <2>1 DEF OpenOnes
        <4> QED BY <1>0, <2>1, <4>1 DEF Open, TypeOK
      <3>3. OpenOnes = {} /\ OpenOnes' = {n}
        BY <1>0, <2>1, <3>2 DEF OpenOnes
      <3>4. GoneOnes' = GoneOnes /\ n \notin GoneOnes
        BY <1>0, <1>1, <2>1 DEF GoneOnes, GaveUpOn
      <3>5. Dialed!Begin(n)
        BY <3>1, <3>3, <3>4 DEF Dialed!Begin, OpenOnes, GoneOnes
      <3> QED BY <1>0, <3>5 DEF Dialed!Next
    <2>2. CASE /\ dial = "connect" /\ Retry
               /\ ctrl' \in {ctrl, [ctrl EXCEPT ![n] = "closed"]} /\ UNCHANGED stop
      <3>1. GoneOnes' = GoneOnes \cup {n} /\ CallState' \in {"dialing", "failed"}
        BY <1>0, <2>2, RetryGone
      <3>2. CallState = "dialing" /\ n \notin GoneOnes /\ OpenOnes = {}
        BY <1>0, <1>1, <2>2 DEF CallState
      <3>3. \A s \in Sessions : Open(s)' => Open(s)
        BY <1>0, <2>2 DEF Open, TypeOK
      <3>4. OpenOnes' = {}
        BY <3>2, <3>3 DEF OpenOnes
      <3>5. Dialed!GiveUp(n)
        BY <3>1, <3>2, <3>4 DEF Dialed!GiveUp, OpenOnes, GoneOnes
      <3> QED BY <1>0, <3>5 DEF Dialed!Next
    <2>3. CASE /\ \/ dial = "setup" /\ dial' = "play"
                  \/ dial = "play" /\ dial' = "verify"
               /\ UNCHANGED <<n, ctrl, stop>>
      <3>1. UNCHANGED Shown
        BY <2>3 DEF CallState, OpenOnes, Open, GoneOnes, GaveUpOn
      <3> QED BY <3>1 DEF Dialed!vars, OpenOnes, GoneOnes
    <2>4. CASE /\ dial \in {"setup", "play", "verify"} /\ Retry
               /\ stop' = [stop EXCEPT ![n] = TRUE] /\ UNCHANGED ctrl
      <3>1. GoneOnes' = GoneOnes \cup {n} /\ CallState' \in {"dialing", "failed"}
        BY <1>0, <2>4, RetryGone
      <3>2. CallState = "dialing" /\ n \notin GoneOnes /\ OpenOnes = {n}
        BY <1>0, <1>1, <2>4 DEF CallState
      <3>3. \A s \in Sessions : Open(s)' => Open(s) /\ s # n
        BY <1>0, <2>4 DEF Open, TypeOK
      <3>4. OpenOnes' = {}
        BY <3>2, <3>3 DEF OpenOnes
      <3>5. Dialed!GiveUp(n)
        BY <3>1, <3>2, <3>4 DEF Dialed!GiveUp, OpenOnes, GoneOnes
      <3> QED BY <1>0, <3>5 DEF Dialed!Next
    <2>5. CASE dial = "verify" /\ dial' = "up" /\ UNCHANGED <<n, ctrl, stop>>
      <3>1. CallState = "dialing" /\ CallState' = "up" /\ OpenOnes # {}
        BY <1>0, <2>5 DEF CallState
      <3>2. UNCHANGED <<OpenOnes, GoneOnes>>
        BY <2>5 DEF OpenOnes, Open, GoneOnes, GaveUpOn
      <3>3. Dialed!Return
        BY <3>1, <3>2 DEF Dialed!Return, OpenOnes, GoneOnes
      <3> QED BY <3>3 DEF Dialed!Next
    <2>6. CASE /\ dial = "up" /\ dial' = "up" /\ ~stop[n]
               /\ stop' = [stop EXCEPT ![n] = TRUE] /\ UNCHANGED <<n, ctrl>>
      <3>1. OpenOnes = {n} /\ \A s \in Sessions : Open(s)' => Open(s) /\ s # n
        BY <1>0, <2>6 DEF Open, TypeOK
      <3>2. OpenOnes' = {}
        BY <3>1 DEF OpenOnes
      <3>3. GoneOnes' = GoneOnes \cup {n}
        BY <1>0, <2>6 DEF GoneOnes, GaveUpOn, TypeOK
      <3>4. CallState = "up" /\ CallState' = "up"
        BY <2>6 DEF CallState
      <3>5. Dialed!Close(n)
        BY <3>1, <3>2, <3>3, <3>4 DEF Dialed!Close, OpenOnes, GoneOnes
      <3> QED BY <1>0, <3>5 DEF Dialed!Next
    <2> QED BY <1>2, <2>1, <2>2, <2>3, <2>4, <2>5, <2>6, DialEffect
  <1>3. ASSUME NEW s \in Sessions,
               \/ Arrive(s) \/ RtpEnds(s) \/ Tick(s) \/ KeepWakes(s)
               \/ Keep(s) \/ Bye(s) \/ Box(s)
        PROVE  Dialed!Next \/ UNCHANGED Dialed!vars
    <2>1. UNCHANGED <<n, dial>>
      BY <1>3, SessionEffect
    <2>2. CASE UNCHANGED stop
      <3>1. \/ UNCHANGED ctrl
            \/ stop[s] /\ ctrl' = [ctrl EXCEPT ![s] = "closed"]
            \/ ctrl[s] = "up" /\ ctrl' = [ctrl EXCEPT ![s] = "dead"]
        BY <1>3, SessionEffect
      <3>2. \A t \in Sessions : Open(t)' <=> Open(t)
        BY <1>0, <2>2, <3>1 DEF Open, TypeOK
      <3>3. UNCHANGED Shown
        BY <2>1, <2>2, <3>2 DEF CallState, OpenOnes, GoneOnes, GaveUpOn
      <3> QED BY <3>3 DEF Dialed!vars, OpenOnes, GoneOnes
    <2>3. CASE s = n /\ dial = "up" /\ ~stop[s] /\ stop' = [stop EXCEPT ![s] = TRUE]
      <3>0. \/ UNCHANGED ctrl
            \/ ctrl' = [ctrl EXCEPT ![s] = "closed"]
            \/ ctrl' = [ctrl EXCEPT ![s] = "dead"]
        BY <1>3, SessionEffect
      <3>1. \A t \in Sessions : t # n => ctrl'[t] = ctrl[t]
        BY <1>0, <2>3, <3>0 DEF TypeOK
      <3>2. OpenOnes = {n} /\ \A t \in Sessions : Open(t)' => Open(t) /\ t # n
        BY <1>0, <2>3, <3>1 DEF Open, TypeOK
      <3>3. OpenOnes' = {}
        BY <3>2 DEF OpenOnes
      <3>4. GoneOnes' = GoneOnes \cup {n}
        BY <1>0, <2>1, <2>3 DEF GoneOnes, GaveUpOn, TypeOK
      <3>5. CallState = "up" /\ CallState' = "up"
        BY <2>1, <2>3 DEF CallState
      <3>6. Dialed!Close(n)
        BY <3>2, <3>3, <3>4, <3>5 DEF Dialed!Close, OpenOnes, GoneOnes
      <3> QED BY <1>0, <3>6 DEF Dialed!Next
    <2> QED BY <1>3, <2>2, <2>3, SessionEffect
  <1>4. CASE MarkPsi \/ UNCHANGED vars
    <2>1. UNCHANGED <<n, dial, ctrl, stop>>
      BY <1>4 DEF MarkPsi, vars, callVars, wireVars, loopVars, endVars
    <2>2. UNCHANGED Shown
      BY <2>1 DEF CallState, OpenOnes, Open, GoneOnes, GaveUpOn
    <2> QED BY <2>2 DEF Dialed!vars, OpenOnes, GoneOnes
  <1> QED BY <1>2, <1>3, <1>4 DEF Next

(* A dial and the session it returns are what the prebuffer and the        *)
(* background goroutines take them for, for any number of attempts and     *)
(* whatever the box answers, drops or forgets, and when.                   *)
THEOREM SessionKeepsPromise == Spec => SessionAsPromised
  <1>1. Init => Dialed!Init /\ Linked
    BY DEF Init, Dialed!Init, Linked, CallState, Open, GaveUpOn, Sessions
  <1> QED BY <1>1, InitInv, NextInv, LinkedStep, DialedStep, PTL
      DEF Spec, SessionAsPromised, Dialed!Spec

-----------------------------------------------------------------------------
(* The ring.  The invariants TLC checks are not inductive.  What they need *)
(* besides each other: no reader is ahead of the stream, a reader told the *)
(* end has seen a closed ring, and a window that has been trimmed keeps at *)
(* least Max - Packet + 1 bytes, so that a reader which skips forward      *)
(* lands on data.                                                          *)

OffsetsWritten == \A r \in Readers : off[r] <= written

DrainedClosed == \A r \in Readers : pc[r] = "drained" => closed

TrimmedFull == base > 0 => Len(buf) >= Max - Packet + 1

RingInv == /\ RingTypes
       /\ WindowBounded
       /\ PacketAligned
       /\ OffsetNamesByte
       /\ NoLostWakeup
       /\ DrainedToTheEnd
       /\ OffsetsWritten
       /\ DrainedClosed
       /\ TrimmedFull

-----------------------------------------------------------------------------
(* The arithmetic of the trim.                                             *)

(* Rounding up reaches the next multiple of a packet and no further.       *)
LEMMA RoundUpFacts ==
    ASSUME NEW over \in Nat
    PROVE  /\ RoundUp(over) \in Nat
           /\ over <= RoundUp(over)
           /\ RoundUp(over) < over + Packet
           /\ RoundUp(over) % Packet = 0
  BY RingAssumption, Z3 DEF RoundUp

(* Two multiples of a packet add up to one.                                *)
LEMMA AlignedSum ==
    ASSUME NEW a \in Nat, NEW b \in Nat, a % Packet = 0, b % Packet = 0
    PROVE  (a + b) % Packet = 0
<1> DEFINE i == a \div Packet
           j == b \div Packet
<1>1. i \in Nat /\ j \in Nat /\ a = Packet * i /\ b = Packet * j
  BY RingAssumption, Z3
<1>2. a + b = Packet * (i + j)
  BY <1>1, RingAssumption, Z3
<1>3. \A k \in Nat : (Packet * k) % Packet = 0
  BY RingAssumption, Z3
<1> QED
  BY <1>1, <1>2, <1>3

(* Write of prebuffer.go brings any window back to the capacity, by whole  *)
(* packets, and never cuts it below Max - Packet + 1 bytes: the clamp      *)
(* "trim > len(r.buf)" is not reached.                                     *)
LEMMA CutFacts ==
    ASSUME NEW size \in Nat
    PROVE  /\ Cut(size) \in 0..size
           /\ Cut(size) % Packet = 0
           /\ size - Cut(size) <= Max
           /\ Cut(size) > 0 => size - Cut(size) >= Max - Packet + 1
<1>1. CASE size <= Max
  <2>1. Cut(size) = 0
    BY <1>1, RingAssumption DEF Cut, Excess
  <2> QED
    BY <2>1, <1>1, RingAssumption, Z3
<1>2. CASE size > Max
  <2>1. size - Max \in Nat /\ size - Max > 0
    BY <1>2, RingAssumption
  <2> DEFINE trim == RoundUp(size - Max)
  <2>2. /\ trim \in Nat
        /\ size - Max <= trim
        /\ trim < size - Max + Packet
        /\ trim % Packet = 0
    BY <2>1, RoundUpFacts
  <2>3. trim <= size
    BY <2>2, <1>2, RingAssumption
  <2>4. Cut(size) = trim
    BY <2>1, <2>2, <2>3, RingAssumption DEF Cut, Excess
  <2> HIDE DEF trim
  <2> QED
    BY <2>2, <2>3, <2>4, <1>2, RingAssumption
<1> QED
  BY <1>1, <1>2, RingAssumption

-----------------------------------------------------------------------------
(* The window after a write: its bytes are still the stream's, from the    *)
(* new base to the new end.                                                *)
LEMMA WriteWindow ==
    ASSUME RingInv, NEW size \in Nat \ {0}, Write(size)
    PROVE  /\ buf' \in Seq(Nat)
           /\ base' \in Nat
           /\ base' >= base
           /\ base' % Packet = 0
           /\ Len(buf') <= Max
           /\ written' = base' + Len(buf')
           /\ \A i \in 1..Len(buf') : buf'[i] = base' + i - 1
           /\ base' > 0 => Len(buf') >= Max - Packet + 1
<1> DEFINE grown == buf \o NewBytes(size)
           len   == Len(buf) + size
<1>1. /\ buf \in Seq(Nat) /\ Len(buf) \in Nat /\ base \in Nat
      /\ written = base + Len(buf) /\ written \in Nat
  BY DEF RingInv, RingTypes, OffsetNamesByte
<1>2. NewBytes(size) \in Seq(Nat) /\ Len(NewBytes(size)) = size
  BY <1>1 DEF NewBytes
<1>3. grown \in Seq(Nat) /\ Len(grown) = len
  BY <1>1, <1>2
<1>4. \A i \in 1..len : grown[i] = base + i - 1
  <2> SUFFICES ASSUME NEW i \in 1..len
               PROVE  grown[i] = base + i - 1
    OBVIOUS
  <2>1. CASE i <= Len(buf)
    BY <2>1, <1>1, <1>2 DEF RingInv, OffsetNamesByte
  <2>2. CASE i > Len(buf)
    <3>1. grown[i] = NewBytes(size)[i - Len(buf)] /\ i - Len(buf) \in 1..size
      BY <2>2, <1>1, <1>2
    <3> QED
      BY <3>1, <1>1 DEF NewBytes
  <2>3. i <= Len(buf) \/ i > Len(buf)
    BY <1>1
  <2> QED
    BY <2>1, <2>2, <2>3, Zenon
<1> DEFINE cut == Cut(len)
<1>5. len \in Nat
  BY <1>1
<1>6. /\ cut \in 0..len
      /\ cut % Packet = 0
      /\ len - cut <= Max
      /\ cut > 0 => len - cut >= Max - Packet + 1
  BY <1>5, CutFacts
<1>7. buf' = SubSeq(grown, cut + 1, len) /\ base' = base + cut /\ written' = written + size
  BY <1>3 DEF Write, BaseAfterTrim
<1> HIDE DEF grown, cut
<1>8. buf' = [i \in 1..(len - cut) |-> grown[i + cut]]
  BY <1>3, <1>5, <1>6, <1>7
<1>9. /\ buf' \in Seq(Nat)
      /\ Len(buf') = len - cut
      /\ \A i \in 1..Len(buf') : buf'[i] = base' + i - 1
  <2>1. \A i \in 1..(len - cut) : i + cut \in 1..len
    BY <1>5, <1>6
  <2>2. \A i \in 1..(len - cut) : grown[i + cut] = base + cut + i - 1
    BY <2>1, <1>4, <1>1, <1>5, <1>6
  <2>3. \A i \in 1..(len - cut) : base + cut + i - 1 \in Nat
    BY <1>1, <1>5, <1>6
  <2> DEFINE m == len - cut
  <2>4. m \in Nat /\ base' = base + cut /\ base' \in Nat
    BY <1>1, <1>5, <1>6, <1>7
  <2> HIDE DEF m
  <2>5. buf' = [i \in 1..m |-> base' + i - 1]
    BY <2>2, <2>4, <1>8 DEF m
  <2>6. buf' \in Seq(Nat) /\ Len(buf') = m
    BY <2>4, <2>5
  <2> QED
    BY <2>4, <2>5, <2>6 DEF m
<1>10. base' \in Nat /\ base' >= base /\ written' = base' + Len(buf') /\ Len(buf') <= Max
  <2>1. Len(buf') = len - cut
    BY <1>9
  <2>2. cut \in Nat /\ cut <= len
    BY <1>5, <1>6
  <2>3. base' = base + cut /\ written' = written + size
    BY <1>7
  <2> QED
    BY <1>1, <1>6, <2>1, <2>2, <2>3
<1>11. base' % Packet = 0
  BY <1>1, <1>6, <1>7, AlignedSum, <1>5 DEF RingInv, PacketAligned
<1>12. base' > 0 => Len(buf') >= Max - Packet + 1
  <2>1. CASE cut > 0
    BY <2>1, <1>6, <1>9
  <2>2. CASE cut = 0
    BY <2>2, <1>1, <1>7, <1>9, RingAssumption DEF RingInv, TrimmedFull
  <2> QED
    BY <2>1, <2>2, <1>6, <1>5
<1> QED
  BY <1>9, <1>10, <1>11, <1>12

-----------------------------------------------------------------------------
(* A reader that has fallen behind the window finds data where it skips to,*)
(* so one that finds none has not skipped and has had the whole stream.    *)
LEMMA NothingToRead ==
    ASSUME RingInv, NEW r \in Readers, From(r) >= LiveEdge
    PROVE  From(r) = off[r] /\ off[r] = written /\ written = LiveEdge
<1>1. /\ base \in Nat /\ Len(buf) \in Nat /\ off[r] \in Nat
      /\ written = base + Len(buf) /\ off[r] <= written
      /\ base > 0 => Len(buf) >= Max - Packet + 1
  BY DEF RingInv, RingTypes, OffsetNamesByte, OffsetsWritten, TrimmedFull
<1>2. Max - Packet + 1 > 0
  BY RingAssumption
<1>3. ~(off[r] < base)
  BY <1>1, <1>2, RingAssumption DEF From, LiveEdge
<1> QED
  BY <1>1, <1>3 DEF From, LiveEdge

(* What a read that finds data returns: a piece of the stream that starts  *)
(* at the reader's offset, or at the base if it fell behind.               *)
LEMMA ReadPiece ==
    ASSUME RingInv, NEW r \in Readers, ReadData(r)
    PROVE  \E size \in Nat \ {0} :
              /\ From(r) \in Nat
              /\ From(r) >= off[r]
              /\ From(r) + size <= written
              /\ off' = [off EXCEPT ![r] = From(r) + size]
              /\ out' = [out EXCEPT ![r] = [i \in 1..size |-> From(r) + i - 1]]
<1>1. /\ base \in Nat /\ buf \in Seq(Nat) /\ Len(buf) \in Nat /\ off[r] \in Nat
      /\ written = base + Len(buf)
      /\ \A i \in 1..Len(buf) : buf[i] = base + i - 1
  BY DEF RingInv, RingTypes, OffsetNamesByte
<1>2. /\ From(r) \in Nat /\ From(r) >= off[r] /\ From(r) >= base
      /\ From(r) < base + Len(buf)
  BY <1>1 DEF ReadData, From, LiveEdge
<1> DEFINE start == From(r) - base
           num(c) == IF c < Len(buf) - start THEN c ELSE Len(buf) - start
<1>3. PICK c \in ReadLens :
         /\ out' = [out EXCEPT ![r] = SubSeq(buf, start + 1, start + num(c))]
         /\ off' = [off EXCEPT ![r] = From(r) + num(c)]
  BY DEF ReadData, NewOff
<1> DEFINE size == num(c)
<1>4. start \in Nat /\ start < Len(buf)
  BY <1>1, <1>2
<1>5. size \in Nat \ {0} /\ start + size <= Len(buf)
  BY <1>1, <1>4, RingAssumption
<1> HIDE DEF size, start
<1>6. SubSeq(buf, start + 1, start + size) = [i \in 1..size |-> From(r) + i - 1]
  <2>1. SubSeq(buf, start + 1, start + size) = [i \in 1..size |-> buf[i + start]]
    BY <1>1, <1>4, <1>5
  <2>2. \A i \in 1..size : i + start \in 1..Len(buf)
    BY <1>1, <1>4, <1>5
  <2>3. ASSUME NEW i \in 1..size
        PROVE  buf[i + start] = From(r) + i - 1
    <3>1. buf[i + start] = base + (i + start) - 1
      BY <2>2, <1>1
    <3> QED
      BY <3>1, <1>1, <1>2, <1>5 DEF start
  <2> QED
    BY <2>1, <2>3
<1>7. out' = [out EXCEPT ![r] = [i \in 1..size |-> From(r) + i - 1]]
  BY <1>3, <1>6 DEF size
<1>8. From(r) + size <= written
  BY <1>1, <1>2, <1>4, <1>5 DEF start
<1>9. off' = [off EXCEPT ![r] = From(r) + size]
  BY <1>3 DEF size
<1> QED
  BY <1>2, <1>5, <1>7, <1>8, <1>9

-----------------------------------------------------------------------------
(* The invariant holds before the first byte.                              *)
LEMMA RingInitInv == RingInit => RingInv
<1> SUFFICES ASSUME RingInit PROVE RingInv
  OBVIOUS
<1> USE DEF RingInit
<1>1. RingTypes
  <2>1. <<>> \in Seq(Nat)
    OBVIOUS
  <2>2. 0 \in 0..MaxBytes
    BY RingAssumption
  <2> QED
    BY <2>1, <2>2 DEF RingTypes, ReaderStates
<1>2. WindowBounded /\ OffsetNamesByte /\ TrimmedFull
  BY RingAssumption DEF WindowBounded, OffsetNamesByte, TrimmedFull
<1>3. PacketAligned
  BY RingAssumption, Z3 DEF PacketAligned
<1>4. NoLostWakeup /\ DrainedToTheEnd /\ OffsetsWritten /\ DrainedClosed
  BY DEF NoLostWakeup, DrainedToTheEnd, OffsetsWritten, DrainedClosed
<1> QED
  BY <1>1, <1>2, <1>3, <1>4 DEF RingInv

(* Writes, reads and the close preserve the invariant.                     *)
LEMMA RingNextInv == RingInv /\ [RingNext]_ringVars => RingInv'
<1> SUFFICES ASSUME RingInv, [RingNext]_ringVars PROVE RingInv'
  OBVIOUS
<1> DEFINE WindowInv == /\ buf \in Seq(Nat) /\ base \in Nat
                        /\ closed \in BOOLEAN /\ written \in 0..MaxBytes
                        /\ WindowBounded /\ PacketAligned
                        /\ OffsetNamesByte /\ TrimmedFull
           ReaderInv == /\ pc \in [Readers -> ReaderStates]
                        /\ off \in [Readers -> Nat]
                        /\ out \in [Readers -> Seq(Nat)]
                        /\ NoLostWakeup /\ DrainedToTheEnd
                        /\ OffsetsWritten /\ DrainedClosed
<1>1. WindowInv /\ ReaderInv
  BY DEF RingInv, RingTypes
<1>2. WindowInv' /\ ReaderInv' => RingInv'
  BY DEF RingInv, RingTypes
<1>3. ASSUME NEW size \in Chunks, Write(size)
      PROVE  RingInv'
  <2>1. size \in Nat \ {0}
    BY RingAssumption
  <2>2. WindowInv'
    <3>1. closed' = closed /\ written' = written + size /\ written' <= MaxBytes
      BY <1>3 DEF Write
    <3>2. written' \in 0..MaxBytes
      BY <1>1, <2>1, <3>1, RingAssumption
    <3> QED
      BY <1>1, <1>3, <2>1, <3>1, <3>2, WriteWindow
         DEF WindowBounded, PacketAligned, OffsetNamesByte, TrimmedFull
  <2>3. /\ ~closed /\ UNCHANGED <<closed, off, out>> /\ written' = written + size
        /\ pc' = [r \in Readers |-> IF pc[r] = "wait" THEN "read" ELSE pc[r]]
    BY <1>3 DEF Write, Broadcast
  <2>4. pc' \in [Readers -> ReaderStates]
    BY <1>1, <2>3 DEF ReaderStates
  <2>5. NoLostWakeup' /\ DrainedToTheEnd' /\ DrainedClosed'
    BY <1>1, <2>3 DEF NoLostWakeup, DrainedToTheEnd, DrainedClosed
  <2>6. OffsetsWritten'
    BY <1>1, <2>1, <2>3 DEF OffsetsWritten
  <2> QED
    BY <1>1, <1>2, <2>2, <2>3, <2>4, <2>5, <2>6
<1>4. ASSUME CloseRing
      PROVE  RingInv'
  <2>1. /\ closed' = TRUE /\ UNCHANGED <<buf, base, written, off, out>>
        /\ pc' = [r \in Readers |-> IF pc[r] = "wait" THEN "read" ELSE pc[r]]
    BY <1>4 DEF CloseRing, Broadcast
  <2>2. WindowInv'
    BY <1>1, <2>1 DEF WindowBounded, PacketAligned, OffsetNamesByte, TrimmedFull
  <2>3. ReaderInv'
    BY <1>1, <2>1 DEF ReaderStates, NoLostWakeup, DrainedToTheEnd, OffsetsWritten,
                      DrainedClosed
  <2> QED
    BY <1>2, <2>2, <2>3
<1>5. ASSUME NEW r \in Readers, Reader(r)
      PROVE  RingInv'
  <2>1. UNCHANGED <<buf, base, closed, written>>
    BY <1>5 DEF Reader, Start, ReadData, ReadEnd, ReadWait, Resume, Leave
  <2>2. WindowInv'
    BY <1>1, <2>1 DEF WindowBounded, PacketAligned, OffsetNamesByte, TrimmedFull
  <2> USE DEF ReaderStates, NoLostWakeup, DrainedToTheEnd, OffsetsWritten, DrainedClosed,
              LiveEdge
  <2>3. CASE Start(r)
    BY <1>1, <1>2, <2>1, <2>2, <2>3 DEF Start, OffsetNamesByte
  <2>4. CASE ReadData(r)
    <3>1. PICK size \in Nat \ {0} :
             /\ From(r) \in Nat
             /\ From(r) + size <= written
             /\ off' = [off EXCEPT ![r] = From(r) + size]
             /\ out' = [out EXCEPT ![r] = [i \in 1..size |-> From(r) + i - 1]]
      BY <2>4, ReadPiece
    <3>2. [i \in 1..size |-> From(r) + i - 1] \in Seq(Nat)
      BY <3>1
    <3>3. out' \in [Readers -> Seq(Nat)]
      BY <1>1, <3>1, <3>2
    <3>4. pc' = [pc EXCEPT ![r] = "use"]
      BY <2>4 DEF ReadData
    <3>5. off' \in [Readers -> Nat] /\ OffsetsWritten'
      BY <1>1, <2>1, <3>1
    <3>6. /\ pc' \in [Readers -> ReaderStates]
          /\ NoLostWakeup' /\ DrainedToTheEnd' /\ DrainedClosed'
      BY <1>1, <2>1, <3>1, <3>4
    <3> QED
      BY <1>2, <2>2, <3>3, <3>5, <3>6
  <2>5. CASE ReadEnd(r)
    <3>1. From(r) = off[r] /\ off[r] = written
      BY <2>5, NothingToRead DEF ReadEnd
    <3> QED
      BY <1>1, <1>2, <2>1, <2>2, <2>5, <3>1 DEF ReadEnd
  <2>6. CASE ReadWait(r)
    <3>1. From(r) = off[r] /\ off[r] = base + Len(buf)
      BY <2>6, NothingToRead DEF ReadWait
    <3> QED
      BY <1>1, <1>2, <2>1, <2>2, <2>6, <3>1 DEF ReadWait
  <2>7. CASE Resume(r)
    BY <1>1, <1>2, <2>1, <2>2, <2>7 DEF Resume
  <2>8. CASE Leave(r)
    BY <1>1, <1>2, <2>1, <2>2, <2>8 DEF Leave
  <2> QED
    BY <1>5, <2>3, <2>4, <2>5, <2>6, <2>7, <2>8 DEF Reader
<1>6. CASE UNCHANGED ringVars
  BY <1>6 DEF ringVars, RingInv, RingTypes, WindowBounded, PacketAligned, OffsetNamesByte,
              NoLostWakeup, DrainedToTheEnd, OffsetsWritten, DrainedClosed, TrimmedFull,
              LiveEdge
<1> QED
  BY <1>3, <1>4, <1>5, <1>6 DEF RingNext

(* The ring's invariant, of which the theorems below are the parts that    *)
(* matter to its callers.                                                  *)
THEOREM RingInvariant == RingSpec => []RingInv
<1>1. RingInit => RingInv
  BY RingInitInv
<1>2. RingInv /\ [RingNext]_ringVars => RingInv'
  BY RingNextInv
<1> QED
  BY <1>1, <1>2, PTL DEF RingSpec

(* The values of the ring's fields and of its readers' offsets keep their  *)
(* types, whatever is written and read (prebuffer.go:17-84).               *)
THEOREM RingTypeCorrect == RingSpec => []RingTypes
<1>1. RingInv => RingTypes
  BY DEF RingInv
<1> QED
  BY <1>1, RingInvariant, PTL

(* Write never leaves more than r.max bytes, and always a base on a packet *)
(* boundary (prebuffer.go:38-46).                                          *)
THEOREM WindowSafe == RingSpec => []WindowInPackets
<1>1. RingInv => WindowInPackets
  BY DEF RingInv, WindowInPackets
<1> QED
  BY <1>1, RingInvariant, PTL

(* ReadFrom returns the bytes at the absolute offset it was given: offsets *)
(* survive any number of trims (prebuffer.go:44-45, 67-70).                *)
THEOREM OffsetsAbsolute == RingSpec => []OffsetNamesByte
<1>1. RingInv => OffsetNamesByte
  BY DEF RingInv
<1> QED
  BY <1>1, RingInvariant, PTL

(* No reader sleeps through data or through Close (prebuffer.go:47, 75,    *)
(* 82), and none is told the end early (prebuffer.go:72-74).               *)
THEOREM ReadersSafe == RingSpec => [](NoLostWakeup /\ DrainedToTheEnd)
<1>1. RingInv => NoLostWakeup /\ DrainedToTheEnd
  BY DEF RingInv
<1> QED
  BY <1>1, RingInvariant, PTL

-----------------------------------------------------------------------------
(* The refinement.  A write is Produce, Close is End, and a reader's steps *)
(* are Join, Deliver, Finish and Leave, or invisible.                      *)

(* A fresh ring (prebuffer.go:26-30) is an empty feed.                     *)
LEMMA FeedInit == RingInit => Feed!Init
  BY DEF RingInit, Feed!Init, FeedState

(* Every step of the ring is a step of the feed, or leaves it alone.       *)
LEMMA FeedStep == RingInv /\ [RingNext]_ringVars => [Feed!Next]_(Feed!vars)
<1> SUFFICES ASSUME RingInv, [RingNext]_ringVars
             PROVE  Feed!Next \/ UNCHANGED Feed!vars
  OBVIOUS
<1>1. /\ pc \in [Readers -> ReaderStates] /\ off \in [Readers -> Nat]
      /\ base \in Nat /\ written \in Nat /\ Len(buf) \in Nat
      /\ written = base + Len(buf) /\ Len(buf) <= Max
      /\ base > 0 => Len(buf) >= Max - Packet + 1
  BY DEF RingInv, RingTypes, OffsetNamesByte, WindowBounded, TrimmedFull
<1>2. ASSUME NEW size \in Chunks, Write(size)
      PROVE  Feed!Produce
  <2>1. size \in Nat \ {0}
    BY RingAssumption
  <2>2. /\ ~closed /\ UNCHANGED <<closed, off, out>> /\ written' = written + size
        /\ pc' = [r \in Readers |-> IF pc[r] = "wait" THEN "read" ELSE pc[r]]
    BY <1>2 DEF Write, Broadcast
  <2>3. FeedState' = FeedState
    BY <1>1, <2>2 DEF FeedState, ReaderStates
  <2>4. written' \in Nat /\ written' > written
    BY <1>1, <2>1, <2>2
  <2> QED
    BY <2>2, <2>3, <2>4 DEF Feed!Produce
<1>3. ASSUME CloseRing
      PROVE  Feed!End
  <2>1. /\ ~closed /\ closed' = TRUE /\ UNCHANGED <<written, off, out>>
        /\ pc' = [r \in Readers |-> IF pc[r] = "wait" THEN "read" ELSE pc[r]]
    BY <1>3 DEF CloseRing, Broadcast
  <2>2. FeedState' = FeedState
    BY <1>1, <2>1 DEF FeedState, ReaderStates
  <2> QED
    BY <2>1, <2>2 DEF Feed!End
<1>4. ASSUME NEW r \in Readers, Start(r)
      PROVE  Feed!Join(r)
  <2>1. FeedState[r] = "idle" /\ FeedState' = [FeedState EXCEPT ![r] = "open"]
    BY <1>1, <1>4 DEF Start, FeedState, ReaderStates
  <2>2. /\ base \in 0..written
        /\ written - base <= Max
        /\ base > 0 => written - base >= Max - Packet + 1
    BY <1>1, RingAssumption
  <2> QED
    BY <1>4, <2>1, <2>2 DEF Start, Feed!Join
<1>5. ASSUME NEW r \in Readers, ReadData(r)
      PROVE  Feed!Deliver(r)
  <2>1. PICK size \in Nat \ {0} :
           /\ From(r) \in Nat
           /\ From(r) >= off[r]
           /\ From(r) + size <= written
           /\ off' = [off EXCEPT ![r] = From(r) + size]
           /\ out' = [out EXCEPT ![r] = [i \in 1..size |-> From(r) + i - 1]]
    BY <1>5, ReadPiece
  <2> DEFINE from == From(r)
             to   == from + size - 1
  <2>2. from \in off[r]..(written - 1) /\ to \in from..(written - 1)
    BY <1>1, <2>1
  <2>3. from > off[r] => written - off[r] > Max - Packet + 1
    BY <1>1, RingAssumption DEF From
  <2>4. to - from + 1 = size /\ to + 1 = from + size
    BY <2>1
  <2>5. FeedState[r] = "open" /\ FeedState' = FeedState
    BY <1>1, <1>5 DEF ReadData, FeedState, ReaderStates
  <2>6. UNCHANGED <<written, closed>>
    BY <1>5 DEF ReadData
  <2> HIDE DEF from, to
  <2>7. /\ out' = [out EXCEPT ![r] = [i \in 1..(to - from + 1) |-> from + i - 1]]
        /\ off' = [off EXCEPT ![r] = to + 1]
    BY <2>1, <2>4 DEF from
  <2> QED
    BY <2>2, <2>3, <2>5, <2>6, <2>7 DEF Feed!Deliver
<1>6. ASSUME NEW r \in Readers, ReadEnd(r)
      PROVE  Feed!Finish(r)
  <2>1. From(r) = off[r] /\ off[r] = written
    BY <1>6, NothingToRead DEF ReadEnd
  <2>2. off' = off
    BY <1>1, <1>6, <2>1 DEF ReadEnd
  <2>3. FeedState[r] = "open" /\ FeedState' = [FeedState EXCEPT ![r] = "ended"]
    BY <1>1, <1>6 DEF ReadEnd, FeedState, ReaderStates
  <2> QED
    BY <1>6, <2>1, <2>2, <2>3 DEF ReadEnd, Feed!Finish
<1>7. ASSUME NEW r \in Readers, ReadWait(r)
      PROVE  UNCHANGED Feed!vars
  <2>1. From(r) = off[r]
    BY <1>7, NothingToRead DEF ReadWait
  <2>2. off' = off
    BY <1>1, <1>7, <2>1 DEF ReadWait
  <2>3. FeedState' = FeedState
    BY <1>1, <1>7 DEF ReadWait, FeedState, ReaderStates
  <2> QED
    BY <1>7, <2>2, <2>3 DEF ReadWait, Feed!vars
<1>8. ASSUME NEW r \in Readers, Resume(r)
      PROVE  UNCHANGED Feed!vars
  <2>1. FeedState' = FeedState
    BY <1>1, <1>8 DEF Resume, FeedState, ReaderStates
  <2> QED
    BY <1>8, <2>1 DEF Resume, Feed!vars
<1>9. ASSUME NEW r \in Readers, Leave(r)
      PROVE  Feed!Leave(r)
  <2>1. FeedState[r] = "open" /\ FeedState' = [FeedState EXCEPT ![r] = "left"]
    BY <1>1, <1>9 DEF Leave, FeedState, ReaderStates
  <2> QED
    BY <1>9, <2>1 DEF Leave, Feed!Leave
<1>10. CASE UNCHANGED ringVars
  <2>1. FeedState' = FeedState
    BY <1>10 DEF ringVars, FeedState
  <2> QED
    BY <1>10, <2>1 DEF ringVars, Feed!vars
<1> QED
  BY <1>2, <1>3, <1>4, <1>5, <1>6, <1>7, <1>8, <1>9, <1>10 DEF RingNext, Reader, Feed!Next

(* Every behaviour of the ring is one of a live feed that its readers      *)
(* receive in order, without repetition, and without loss while they lag   *)
(* by at most Max - Packet + 1 bytes (the promise of prebuffer.go:14-16).  *)
THEOREM RingImplementsFeed == RingSpec => ImplementsFeed
<1>1. RingInit => Feed!Init
  BY FeedInit
<1>2. RingInv /\ [RingNext]_ringVars => [Feed!Next]_(Feed!vars)
  BY FeedStep
<1> QED
  BY <1>1, <1>2, RingInvariant, PTL DEF RingSpec, ImplementsFeed, Feed!Spec
=============================================================================
