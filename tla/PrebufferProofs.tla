--------------------------- MODULE PrebufferProofs --------------------------
(***************************************************************************)
(* For any channel list, any number of tuners, neighbour goroutines and    *)
(* sessions: no interleaving of the ensures with SetActive, with closes    *)
(* and with sessions that die loses a live session, and a warm session is  *)
(* not displaced, nor is the one mpv is sent to or served from.  Only TLC  *)
(* checks the liveness properties.                                         *)
(***************************************************************************)
EXTENDS Prebuffer, TLAPS

(* Who is inside ensure or playAttempt knows its channel.                  *)
ArgKnown == /\ pc[Main] \notin {"idle", "quit"} => tuning # 0
            /\ \A g \in Workers : pc[g] # "idle" => arg[g] \in URLs

Inv == TypeOK /\ OneOwner /\ NoOrphanSession /\ ArgKnown

-----------------------------------------------------------------------------
(* The neighbours of a channel are channel URLs.                           *)
LEMMA NeighborURLs ==
    ASSUME NEW i \in DOMAIN Channels
    PROVE  NeighborRTSPURLs(i) \in Seq(URLs)
<1>1. Channels \in Seq(URLs) /\ Len(Channels) \in Nat
  BY PrebufferAssumption
<1>2. <<>> \in Seq(URLs)
  OBVIOUS
<1>3. CASE Len(Channels) < 2
  BY <1>2, <1>3 DEF NeighborRTSPURLs
<1>4. CASE ~(Len(Channels) < 2)
  <2> DEFINE n == Len(Channels)
             At(d) == Channels[((i - 1 + d + n) % n) + 1]
             Warm(u) == IF u \in Rtsp /\ u # Channels[i] THEN <<u>> ELSE <<>>
  <2>1. i \in 1..n /\ n \in Nat /\ n >= 2
    BY <1>1, <1>4
  <2>2. \A k \in Nat : (k % n) + 1 \in 1..n
    BY <2>1, Z3
  <2>3. i - 1 + (-1) + n \in Nat /\ i - 1 + 1 + n \in Nat
    BY <2>1
  <2>4. At(-1) \in URLs /\ At(1) \in URLs
    <3>1. \A k \in 1..n : Channels[k] \in URLs
      BY <1>1
    <3>2. ((i - 1 + (-1) + n) % n) + 1 \in 1..n
      BY ONLY <2>2, <2>3, Zenon
    <3>3. ((i - 1 + 1 + n) % n) + 1 \in 1..n
      BY ONLY <2>2, <2>3, Zenon
    <3> QED
      BY ONLY <3>1, <3>2, <3>3, Zenon DEF At
  <2>5. \A u \in URLs : Warm(u) \in Seq(URLs)
    BY <1>2
  <2> HIDE DEF At, Warm
  <2>6. Warm(At(-1)) \o Warm(At(1)) \in Seq(URLs)
    BY <2>4, <2>5
  <2> QED
    BY <1>4, <2>6 DEF NeighborRTSPURLs, At, Warm
<1> QED
  BY <1>3, <1>4

-----------------------------------------------------------------------------
(* What a call of SetActive leaves: used by the three actions that make it.*)
LEMMA SetActiveInv ==
    ASSUME Inv, NEW cur \in SUBSET URLs, NEW neighbors \in Seq(URLs),
           NEW next \in {"idle", "load", "quit"},
           SetActive(cur, neighbors, next),
           pc[Main] \in {"idle", "active"}
    PROVE  /\ sessions' \in [URLs -> Sessions \cup {None}]
           /\ closing' \subseteq Sessions
           /\ pc' \in [Callers -> {"idle", "check", "dial", "install", "load", "active", "quit"}]
           /\ \A g \in Workers : pc'[g] \in {"idle", "check", "dial", "install"}
           /\ arg' \in [Workers -> URLs \cup {None}]
           /\ pc'[Main] = next
           /\ \A g \in Workers : pc'[g] # "idle" => arg'[g] \in URLs
           /\ \A g \in Callers : pc'[g] = "install" <=> held'[g] # None
           /\ keep' \subseteq URLs
           /\ OneOwner'
           /\ NoOrphanSession'
           /\ \A u \in URLs : sessions'[u] # sessions[u] => u \notin keep'
<1> DEFINE kept == cur \cup Range(neighbors)
           drop == {sessions[u] : u \in URLs \ kept} \ {None}
           idle == {g \in Workers : pc[g] = "idle"}
<1>1. PICK w \in [DOMAIN neighbors -> idle] :
         /\ sessions' = [u \in URLs |-> IF u \in kept THEN sessions[u] ELSE None]
         /\ closing' = closing \cup drop
         /\ pc' = [g \in Callers |-> CASE g \in Range(w) -> "check"
                                      [] g = Main        -> next
                                      [] OTHER           -> pc[g]]
         /\ arg' = [g \in Workers |-> IF g \in Range(w)
                                      THEN neighbors[CHOOSE i \in DOMAIN w : w[i] = g]
                                      ELSE arg[g]]
         /\ keep' = kept
         /\ UNCHANGED <<open, held>>
  BY Zenon DEF SetActive, KeepSet, Retained
<1>2. Range(w) \subseteq idle
  BY DEF Range
<1>3. Range(neighbors) \subseteq URLs
  BY DEF Range
<1>4. /\ TypeOK /\ OneOwner /\ NoOrphanSession /\ ArgKnown /\ Main \notin Workers
      /\ None \notin Sessions
  BY PrebufferAssumption DEF Inv
<1> HIDE DEF kept
<1>5. kept \subseteq URLs
  BY <1>3 DEF kept
<1>6. sessions' \in [URLs -> Sessions \cup {None}] /\ drop \subseteq Sessions
  BY <1>1, <1>4 DEF TypeOK
<1>7. pc' \in [Callers -> {"idle", "check", "dial", "install", "load", "active", "quit"}]
  BY <1>1, <1>4 DEF TypeOK
<1>8. \A g \in Workers : pc'[g] \in {"idle", "check", "dial", "install"}
  BY <1>1, <1>2, <1>4 DEF TypeOK, Callers
<1>9. /\ arg' \in [Workers -> URLs \cup {None}]
      /\ pc'[Main] = next
      /\ \A g \in Workers : pc'[g] # "idle" => arg'[g] \in URLs
  <2> DEFINE new(g) == neighbors[CHOOSE i \in DOMAIN w : w[i] = g]
  <2>1. \A g \in Range(w) : new(g) \in URLs
    <3> SUFFICES ASSUME NEW g \in Range(w)
                 PROVE  new(g) \in URLs
      OBVIOUS
    <3>1. \E i \in DOMAIN w : w[i] = g
      BY DEF Range
    <3>2. (CHOOSE i \in DOMAIN w : w[i] = g) \in DOMAIN neighbors
      BY <3>1
    <3> QED
      BY <3>2
  <2>2. arg' = [g \in Workers |-> IF g \in Range(w) THEN new(g) ELSE arg[g]]
    BY <1>1
  <2> HIDE DEF new
  <2>3. arg' \in [Workers -> URLs \cup {None}]
    BY <1>4, <2>1, <2>2 DEF TypeOK
  <2>4. pc'[Main] = next
    BY <1>1, <1>2, <1>4 DEF Callers
  <2>5. \A g \in Workers : pc'[g] # "idle" => arg'[g] \in URLs
    BY <1>1, <1>4, <2>1, <2>2 DEF ArgKnown, Callers
  <2> QED
    BY <2>3, <2>4, <2>5
<1>10. \A g \in Callers : pc'[g] = "install" <=> held'[g] # None
  BY <1>1, <1>2, <1>4 DEF TypeOK, Callers
<1>11. OneOwner'
  <2>1. \A u, v \in URLs : sessions'[u] = sessions'[v] /\ sessions'[u] # None => u = v
    BY <1>1, <1>4 DEF OneOwner
  <2>2. \A u \in URLs : sessions'[u] \in open' => sessions'[u] \notin closing'
    <3> SUFFICES ASSUME NEW u \in URLs, sessions'[u] \in open
                 PROVE  sessions'[u] \notin closing \cup drop
      BY <1>1
    <3>1. sessions'[u] = sessions[u] /\ u \in kept /\ sessions[u] # None
      BY <1>1, <1>4 DEF TypeOK
    <3>2. sessions[u] \notin closing
      BY <1>4, <3>1 DEF OneOwner
    <3>3. sessions[u] \notin drop
      BY <1>4, <3>1 DEF OneOwner
    <3> QED
      BY <3>1, <3>2, <3>3
  <2>3. Range(sessions') \subseteq Range(sessions) \cup {None} /\ drop \subseteq Range(sessions)
    BY <1>1, <1>4 DEF Range, TypeOK
  <2>4. \A g \in Callers : held'[g] # None => held'[g] \notin Mapped' \cup closing'
    BY <1>1, <1>4, <2>3 DEF OneOwner, Mapped
  <2>5. \A g, h \in Callers : held'[g] = held'[h] /\ held'[g] # None => g = h
    BY <1>1, <1>4 DEF OneOwner
  <2> QED
    BY <2>1, <2>2, <2>4, <2>5 DEF OneOwner
<1>12. NoOrphanSession'
  <2> SUFFICES ASSUME NEW s \in open
               PROVE  s \in Mapped' \cup Range(held) \cup closing'
    BY <1>1 DEF NoOrphanSession
  <2>1. CASE s \in Range(held) \cup closing
    BY <1>1, <2>1
  <2>2. CASE s \in Mapped
    <3>1. PICK u \in URLs : s = sessions[u]
      BY <1>4, <2>2 DEF Mapped, Range, TypeOK
    <3>2. s # None
      BY <1>4 DEF TypeOK
    <3>3. CASE u \in kept
      BY <1>1, <3>1, <3>3 DEF Mapped, Range
    <3>4. CASE u \notin kept
      BY <1>1, <3>1, <3>2, <3>4
    <3> QED
      BY <3>3, <3>4
  <2> QED
    BY <1>4, <2>1, <2>2 DEF NoOrphanSession
<1>13. \A u \in URLs : sessions'[u] # sessions[u] => u \notin keep'
  BY <1>1
<1> QED
  BY <1>1, <1>4, <1>5, <1>6, <1>7, <1>8, <1>9, <1>10, <1>11, <1>12, <1>13 DEF TypeOK

-----------------------------------------------------------------------------
(* What is remembered of lost sessions and refused loadfiles.              *)
LEMMA GhostTypes ==
    ASSUME TypeOK, ArgKnown, [Next]_vars
    PROVE  lost' \subseteq URLs /\ refused' \in BOOLEAN
<1> USE DEF ghosts
<1>1. lost \subseteq URLs /\ refused \in BOOLEAN
  BY DEF TypeOK
<1>2. ASSUME NEW g \in Callers, Ensure(g)
      PROVE  lost' \subseteq URLs /\ refused' \in BOOLEAN
  <2>1. ASSUME NEW live \in BOOLEAN, Given(g, live), pc[g] \in {"check", "install"}
        PROVE  lost' \subseteq URLs
    <3>1. g = Main => Arg(g) \in URLs
      BY <2>1, PrebufferAssumption DEF Arg, ArgKnown, TypeOK
    <3> QED BY <1>1, <2>1, <3>1 DEF Given
  <2>2. CASE EnsureHit(g)
    BY <1>1, <2>1, <2>2 DEF EnsureHit
  <2>3. CASE Install(g)
    <3>1. (Live(Arg(g)) \/ held[g] \in open) \in BOOLEAN
      BY DEF Live
    <3> QED BY <1>1, <2>1, <2>3, <3>1 DEF Install
  <2>4. CASE EnsureMiss(g) \/ DialOk(g) \/ DialFail(g)
    BY <1>1, <2>4 DEF EnsureMiss, DialOk, DialFail
  <2> QED BY <1>2, <2>2, <2>3, <2>4 DEF Ensure
<1>3. ASSUME NEW s \in Sessions, CloseRun(s) \/ SessionDies(s)
      PROVE  lost' \subseteq URLs /\ refused' \in BOOLEAN
  BY <1>1, <1>3 DEF CloseRun, SessionDies
<1>4. CASE UI
  BY <1>1, <1>4 DEF UI, PlayRtsp, PlayPublic, LoadOk, LoadFail, Activate, Retry, GiveUp, Quit
<1>5. CASE Player
  BY <1>1, <1>5 DEF Player, Serve, NotFound, Connect, StreamEnds
<1>6. CASE UNCHANGED vars
  BY <1>1, <1>6 DEF vars
<1> QED BY <1>2, <1>3, <1>4, <1>5, <1>6 DEF Next

-----------------------------------------------------------------------------
(* Every step of an ensure keeps the invariant (prebuffer.go:126-151).     *)
LEMMA EnsureInv ==
    ASSUME Inv, NEW g \in Callers, Ensure(g)
    PROVE  /\ Inv'
           /\ \A u \in URLs : sessions[u] \in open => sessions'[u] = sessions[u]
<1> DEFINE PcSet == {"idle", "check", "dial", "install", "load", "active", "quit"}
           Kept  == \A u \in URLs : sessions[u] \in open => sessions'[u] = sessions[u]
<1>1. /\ TypeOK /\ OneOwner /\ NoOrphanSession /\ ArgKnown /\ Main \notin Workers
      /\ None \notin Sessions
  BY PrebufferAssumption DEF Inv
<1>2. ASSUME NEW b \in BOOLEAN, EnsureReturns(g, b), pc[g] # "quit"
      PROVE  /\ pc' \in [Callers -> PcSet]
             /\ \A h \in Workers : pc'[h] \in {"idle", "check", "dial", "install"}
             /\ arg' \in [Workers -> URLs \cup {None}]
             /\ target' \in Targets
             /\ pc'[g] # "install"
             /\ \A h \in Callers \ {g} : pc'[h] = pc[h]
  BY <1>1, <1>2 DEF EnsureReturns, TypeOK, Callers, Targets
<1>9. lost' \subseteq URLs /\ refused' \in BOOLEAN
  <2>1. [Next]_vars
    BY DEF Next
  <2> QED BY <1>1, <2>1, GhostTypes
<1>8. ArgKnown'
  <2>1. \A h \in Callers \ {g} : pc'[h] = pc[h]
    BY <1>1 DEF Ensure, EnsureHit, EnsureMiss, DialOk, DialFail, Install, EnsureReturns, TypeOK
  <2>2. tuning' = tuning /\ \A h \in Workers \ {g} : arg'[h] = arg[h]
    BY <1>1 DEF Ensure, EnsureHit, EnsureMiss, DialOk, DialFail, Install, EnsureReturns, TypeOK,
                uiVars
  <2>3. g = Main => pc[Main] \in {"check", "dial", "install"} /\ arg' = arg
    BY <1>1 DEF Ensure, EnsureHit, EnsureMiss, DialOk, DialFail, Install, EnsureReturns, TypeOK
  <2>4. g # Main => pc[g] # "idle" /\ (pc'[g] = "idle" \/ arg'[g] = arg[g])
    BY <1>1 DEF Ensure, EnsureHit, EnsureMiss, DialOk, DialFail, Install, EnsureReturns, TypeOK
  <2> QED
    BY <1>1, <2>1, <2>2, <2>3, <2>4 DEF ArgKnown, Callers
<1>3. CASE EnsureHit(g)
  <2>1. EnsureReturns(g, TRUE) /\ pc[g] = "check"
    BY <1>3 DEF EnsureHit
  <2>2. UNCHANGED <<sessions, open, closing, held, mpv, current, retried, tuning, keep>>
    BY <1>3 DEF EnsureHit, poolVars
  <2>3. TypeOK'
    BY <1>1, <1>9, <1>2, <2>1, <2>2 DEF TypeOK
  <2> QED
    BY <1>1, <1>8, <2>2, <2>3 DEF Inv, OneOwner, NoOrphanSession, Mapped
<1>4. CASE EnsureMiss(g)
  <2>1. /\ sessions' = [sessions EXCEPT ![Arg(g)] = None]
        /\ pc[g] = "check" /\ pc' = [pc EXCEPT ![g] = "dial"]
        /\ ~(sessions[Arg(g)] \in open)
        /\ UNCHANGED <<open, closing, held, arg, target, mpv, current, retried, tuning, keep>>
    BY <1>4 DEF EnsureMiss, Live, uiVars
  <2>2. /\ sessions' \in [URLs -> Sessions \cup {None}]
        /\ \A u \in URLs : u # Arg(g) => sessions'[u] = sessions[u]
        /\ \A u \in URLs : sessions'[u] = sessions[u] \/ sessions'[u] = None
    BY <1>1, <2>1 DEF TypeOK
  <2>3. TypeOK'
    BY <1>1, <1>9, <2>1, <2>2 DEF TypeOK, Callers
  <2>4. Kept
    BY <2>1, <2>2
  <2>5. NoOrphanSession'
    <3>1. \A s \in open : s \in Mapped => s \in Mapped'
      BY <1>1, <2>2, <2>4 DEF Mapped, Range, TypeOK
    <3> QED
      BY <1>1, <2>1, <3>1 DEF NoOrphanSession
  <2>6. Mapped' \subseteq Mapped \cup {None}
    BY <1>1, <2>2 DEF Mapped, Range, TypeOK
  <2>7. OneOwner'
    <3>1. \A u, v \in URLs : sessions'[u] = sessions'[v] /\ sessions'[u] # None => u = v
      BY <1>1, <2>2 DEF OneOwner
    <3>2. \A u \in URLs : sessions'[u] \in open => sessions'[u] \notin closing
      BY <1>1, <2>2 DEF OneOwner, TypeOK
    <3>3. \A h \in Callers : held[h] # None => held[h] \notin Mapped' \cup closing
      BY <1>1, <2>6 DEF OneOwner
    <3> QED
      BY <1>1, <2>1, <3>1, <3>2, <3>3 DEF OneOwner
  <2> QED
    BY <1>8, <2>3, <2>4, <2>5, <2>7 DEF Inv
<1>5. CASE DialOk(g)
  <2>1. PICK s \in Sessions :
           /\ Fresh(s)
           /\ open' = open \cup {s}
           /\ held' = [held EXCEPT ![g] = s]
    BY <1>5 DEF DialOk
  <2>2. /\ pc[g] = "dial" /\ pc' = [pc EXCEPT ![g] = "install"]
        /\ UNCHANGED <<sessions, closing, arg, target, mpv, current, retried, tuning, keep>>
    BY <1>5 DEF DialOk, uiVars
  <2>3. s \notin open \cup closing /\ s \notin Mapped \cup Range(held)
    BY <2>1 DEF Fresh
  <2>4. TypeOK'
    BY <1>1, <1>9, <2>1, <2>2 DEF TypeOK, Callers
  <2>5. \A h \in Callers : held'[h] = IF h = g THEN s ELSE held[h]
    BY <1>1, <2>1 DEF TypeOK
  <2>6. held[g] = None
    BY <1>1, <2>2 DEF TypeOK
  <2>7. NoOrphanSession'
    <3>1. s \in Range(held') /\ \A r \in Range(held) : r # None => r \in Range(held')
      BY <1>1, <2>1, <2>5, <2>6 DEF Range, TypeOK
    <3>2. None \notin open
      BY <1>1 DEF TypeOK
    <3> QED
      BY <1>1, <2>1, <2>2, <3>1, <3>2 DEF NoOrphanSession, Mapped
  <2>8. OneOwner'
    <3>1. \A h \in Callers : held[h] # s
      BY <1>1, <2>3 DEF Range, TypeOK
    <3>2. \A u \in URLs : sessions[u] # s
      BY <1>1, <2>3 DEF Mapped, Range, TypeOK
    <3>3. UNCHANGED <<Mapped, closing, sessions>>
      BY <2>2 DEF Mapped
    <3> QED
      BY <1>1, <2>1, <2>3, <2>5, <3>1, <3>2, <3>3 DEF OneOwner
  <2> QED
    BY <1>8, <2>2, <2>4, <2>7, <2>8 DEF Inv
<1>6. CASE DialFail(g)
  <2>1. EnsureReturns(g, FALSE) /\ pc[g] = "dial"
    BY <1>6 DEF DialFail
  <2>2. UNCHANGED <<sessions, open, closing, held, mpv, current, retried, tuning, keep>>
    BY <1>6 DEF DialFail, poolVars
  <2>3. TypeOK'
    BY <1>1, <1>9, <1>2, <2>1, <2>2 DEF TypeOK
  <2> QED
    BY <1>1, <1>8, <2>2, <2>3 DEF Inv, OneOwner, NoOrphanSession, Mapped
<1>7. CASE Install(g)
  <2>1. EnsureReturns(g, TRUE) /\ pc[g] = "install"
    BY <1>7 DEF Install
  <2>2. /\ held' = [held EXCEPT ![g] = None]
        /\ UNCHANGED <<open, mpv, current, retried, tuning, keep>>
    BY <1>7 DEF Install
  <2>3. /\ held[g] \in Sessions /\ held[g] # None
        /\ held[g] \notin Mapped \cup closing
        /\ \A h \in Callers \ {g} : held[h] # held[g]
        /\ \A h \in Callers : held'[h] = IF h = g THEN None ELSE held[h]
        /\ held' \in [Callers -> Sessions \cup {None}]
    BY <1>1, <2>1, <2>2 DEF TypeOK, OneOwner
  <2>4. \A h \in Callers : pc'[h] = "install" <=> held'[h] # None
    BY <1>1, <1>2, <2>1, <2>3 DEF TypeOK
  <2>5. \A r \in Range(held) : r = held[g] \/ r \in Range(held')
    BY <1>1, <2>3 DEF Range, TypeOK
  <2>6. CASE Live(Arg(g))
    <3>1. closing' = closing \cup {held[g]} /\ UNCHANGED sessions
      BY <1>7, <2>6 DEF Install
    <3>2. TypeOK'
      BY <1>1, <1>9, <1>2, <2>1, <2>2, <2>3, <2>4, <3>1 DEF TypeOK
    <3>3. NoOrphanSession'
      BY <1>1, <2>2, <2>5, <3>1 DEF NoOrphanSession, Mapped
    <3>4. \A u \in URLs : sessions[u] # held[g]
      BY <1>1, <2>3 DEF Mapped, Range, TypeOK
    <3>5. OneOwner'
      BY <1>1, <2>2, <2>3, <3>1, <3>4 DEF OneOwner, Mapped
    <3> QED
      BY <1>8, <3>1, <3>2, <3>3, <3>5 DEF Inv
  <2>7. CASE ~Live(Arg(g))
    <3>1. /\ sessions' = [sessions EXCEPT ![Arg(g)] = held[g]]
          /\ UNCHANGED closing
          /\ sessions[Arg(g)] \notin open
      BY <1>7, <2>7 DEF Install, Live
    <3>2. /\ sessions' \in [URLs -> Sessions \cup {None}]
          /\ \A u \in URLs : sessions'[u] = IF u = Arg(g) THEN held[g] ELSE sessions[u]
      BY <1>1, <2>3, <3>1 DEF TypeOK
    <3>3. TypeOK'
      BY <1>1, <1>9, <1>2, <2>1, <2>2, <2>3, <2>4, <3>1, <3>2 DEF TypeOK
    <3>4. Kept
      BY <3>1, <3>2
    <3>5. Mapped' \subseteq Mapped \cup {held[g]}
      BY <1>1, <3>2 DEF Mapped, Range, TypeOK
    <3>6. \A u \in URLs : sessions[u] # held[g]
      BY <1>1, <2>3 DEF Mapped, Range, TypeOK
    <3>7. OneOwner'
      BY <1>1, <2>2, <2>3, <3>1, <3>2, <3>5, <3>6 DEF OneOwner
    <3>8. NoOrphanSession'
      <4>1. Arg(g) \in URLs
        BY <1>1, <2>1, PrebufferAssumption DEF Arg, ArgKnown, TypeOK, Callers
      <4>2. held[g] \in Mapped'
        BY <3>2, <4>1 DEF Mapped, Range
      <4>3. \A s \in open : s \in Mapped => s \in Mapped'
        BY <1>1, <3>1, <3>2 DEF Mapped, Range, TypeOK
      <4> QED
        BY <1>1, <2>2, <2>5, <3>1, <4>2, <4>3 DEF NoOrphanSession
    <3> QED
      BY <1>8, <3>3, <3>4, <3>7, <3>8 DEF Inv
  <2> QED
    BY <2>6, <2>7
<1> QED
  BY <1>3, <1>4, <1>5, <1>6, <1>7 DEF Ensure

-----------------------------------------------------------------------------
(* A fresh prebuffer satisfies the invariant (prebuffer.go:96-108).        *)
LEMMA InitInv == Init => Inv
<1> SUFFICES ASSUME Init PROVE Inv
  OBVIOUS
<1> USE DEF Init
<1>1. TypeOK
  <2>1. 0 \in 0..Len(Channels)
    BY PrebufferAssumption
  <2>2. mpv \in [mode : MpvModes, url : URLs \cup {None},
                 sess : Sessions \cup {None}, src : Targets]
    BY DEF Idle, MpvModes, Targets
  <2> QED
    BY <2>1, <2>2 DEF TypeOK, Targets, Callers
<1>2. OneOwner
  BY DEF OneOwner
<1>3. NoOrphanSession /\ ArgKnown
  BY DEF NoOrphanSession, ArgKnown, Callers
<1> QED
  BY <1>1, <1>2, <1>3 DEF Inv

(* Every step keeps the invariant, and drops or replaces the live session  *)
(* of a URL only when SetActive says the URL is not kept.                  *)
LEMMA NextInv ==
    ASSUME Inv, [Next]_vars
    PROVE  /\ Inv'
           /\ \A u \in URLs :
                sessions[u] \in open /\ sessions'[u] # sessions[u] => u \notin keep'
<1> DEFINE Kept == \A u \in URLs :
              sessions[u] \in open /\ sessions'[u] # sessions[u] => u \notin keep'
<1>1. /\ TypeOK /\ OneOwner /\ NoOrphanSession /\ ArgKnown
      /\ Main \notin Workers /\ Main \in Callers /\ None \notin Sessions
  BY PrebufferAssumption DEF Inv, Callers
<1>0. lost' \subseteq URLs /\ refused' \in BOOLEAN
  BY <1>1, GhostTypes
<1>2. ASSUME NEW g \in Callers, Ensure(g)
      PROVE  Inv' /\ Kept
  BY <1>2, EnsureInv
<1>3. ASSUME NEW s \in Sessions, CloseRun(s)
      PROVE  Inv' /\ Kept
  <2>1. /\ closing' = closing \ {s} /\ open' = open \ {s}
        /\ UNCHANGED <<sessions, held, pc, arg, uiVars, keep>>
    BY <1>3 DEF CloseRun
  <2>2. TypeOK' /\ ArgKnown'
    BY <1>1, <1>0, <2>1 DEF TypeOK, ArgKnown, uiVars
  <2>3. OneOwner' /\ NoOrphanSession'
    BY <1>1, <2>1 DEF OneOwner, NoOrphanSession, Mapped
  <2> QED
    BY <2>1, <2>2, <2>3 DEF Inv
<1>4. ASSUME NEW s \in Sessions, SessionDies(s)
      PROVE  Inv' /\ Kept
  <2>1. /\ open' = open \ {s}
        /\ UNCHANGED <<sessions, closing, held, pc, arg, uiVars, keep>>
    BY <1>1, <1>4 DEF SessionDies, TypeOK
  <2>2. TypeOK' /\ ArgKnown'
    BY <1>1, <1>0, <2>1 DEF TypeOK, ArgKnown, uiVars
  <2>3. OneOwner' /\ NoOrphanSession'
    BY <1>1, <2>1 DEF OneOwner, NoOrphanSession, Mapped
  <2> QED
    BY <2>1, <2>2, <2>3 DEF Inv
<1>5. ASSUME NEW i \in DOMAIN Channels, PlayRtsp(i)
      PROVE  Inv' /\ Kept
  <2>1. /\ pc[Main] = "idle" /\ pc' = [pc EXCEPT ![Main] = "check"]
        /\ tuning' = i /\ retried' = FALSE
        /\ UNCHANGED <<poolVars, arg, target, mpv, current, keep>>
    BY <1>5 DEF PlayRtsp
  <2>2. i \in 0..Len(Channels) /\ i # 0
    BY PrebufferAssumption
  <2>3. TypeOK' /\ ArgKnown'
    BY <1>1, <1>0, <2>1, <2>2 DEF TypeOK, ArgKnown, poolVars, Callers
  <2>4. OneOwner' /\ NoOrphanSession'
    BY <1>1, <2>1 DEF OneOwner, NoOrphanSession, Mapped, poolVars
  <2> QED
    BY <2>1, <2>3, <2>4 DEF Inv, poolVars
<1>6. ASSUME NEW i \in DOMAIN Channels, PlayPublic(i)
      PROVE  Inv' /\ Kept
  <2>1. /\ pc[Main] = "idle" /\ SetActive({}, <<>>, "load")
        /\ tuning' = i /\ target' = "public" /\ retried' = FALSE
        /\ UNCHANGED <<mpv, current>>
    BY <1>6 DEF PlayPublic
  <2>2. i \in 0..Len(Channels) /\ i # 0
    BY PrebufferAssumption
  <2>3. {} \in SUBSET URLs /\ <<>> \in Seq(URLs) /\ UNCHANGED <<open, held>>
    BY <2>1 DEF SetActive
  <2>4. TypeOK' /\ ArgKnown'
    BY <1>1, <1>0, <2>1, <2>2, <2>3, SetActiveInv DEF TypeOK, ArgKnown, Targets
  <2> QED
    BY <2>1, <2>3, <2>4, SetActiveInv DEF Inv
<1>7. ASSUME LoadOk
      PROVE  Inv' /\ Kept
  <2>1. /\ pc[Main] = "load" /\ mpv' = Opening(Channels[tuning])
        /\ current' = tuning /\ target' = "public"
        /\ \/ pc' = [pc EXCEPT ![Main] = "active"] /\ tuning' = tuning
           \/ pc' = [pc EXCEPT ![Main] = "idle"] /\ tuning' = 0
        /\ UNCHANGED <<poolVars, arg, retried, keep>>
    BY <1>7 DEF LoadOk
  <2>2. Channels[tuning] \in URLs
    BY <1>1, <2>1, PrebufferAssumption DEF ArgKnown, TypeOK
  <2>3. mpv' \in [mode : MpvModes, url : URLs \cup {None},
                  sess : Sessions \cup {None}, src : Targets]
    BY <1>1, <2>1, <2>2 DEF Opening, MpvModes, TypeOK
  <2>4. TypeOK'
    BY <1>1, <1>0, <2>1, <2>3, PrebufferAssumption DEF TypeOK, poolVars, Callers, Targets
  <2>5. ArgKnown' /\ OneOwner' /\ NoOrphanSession'
    BY <1>1, <2>1 DEF TypeOK, ArgKnown, OneOwner, NoOrphanSession, Mapped, poolVars, Callers
  <2> QED
    BY <2>1, <2>4, <2>5 DEF Inv, poolVars
<1>8. ASSUME LoadFail
      PROVE  Inv' /\ Kept
  <2>1. /\ pc[Main] = "load" /\ pc' = [pc EXCEPT ![Main] = "idle"]
        /\ target' = "public" /\ tuning' = 0
        /\ UNCHANGED <<poolVars, arg, mpv, current, retried, keep>>
    BY <1>8 DEF LoadFail
  <2>2. TypeOK'
    BY <1>1, <1>0, <2>1, PrebufferAssumption DEF TypeOK, poolVars, Callers, Targets
  <2>3. ArgKnown' /\ OneOwner' /\ NoOrphanSession'
    BY <1>1, <2>1 DEF TypeOK, ArgKnown, OneOwner, NoOrphanSession, Mapped, poolVars, Callers
  <2> QED
    BY <2>1, <2>2, <2>3 DEF Inv, poolVars
<1>9. ASSUME Activate
      PROVE  Inv' /\ Kept
  <2>1. /\ pc[Main] = "active" /\ tuning' = 0
        /\ SetActive({Channels[tuning]}, NeighborRTSPURLs(tuning), "idle")
        /\ UNCHANGED <<target, mpv, current, retried>>
    BY <1>9 DEF Activate
  <2>2. tuning \in DOMAIN Channels /\ {Channels[tuning]} \in SUBSET URLs
    BY <1>1, <2>1, PrebufferAssumption DEF ArgKnown, TypeOK
  <2>3. NeighborRTSPURLs(tuning) \in Seq(URLs) /\ UNCHANGED <<open, held>>
    BY <2>1, <2>2, NeighborURLs DEF SetActive
  <2> DEFINE ns == NeighborRTSPURLs(tuning)
             cs == {Channels[tuning]}
  <2> HIDE DEF ns, cs
  <2>4. /\ cs \in SUBSET URLs /\ ns \in Seq(URLs) /\ SetActive(cs, ns, "idle")
    BY <2>1, <2>2, <2>3 DEF ns, cs
  <2>5. TypeOK' /\ ArgKnown'
    <3>1. 0 \in 0..Len(Channels)
      BY PrebufferAssumption
    <3>2. TypeOK'
      BY <1>1, <1>0, <2>1, <2>3, <2>4, <3>1, SetActiveInv DEF TypeOK
    <3>3. ArgKnown'
      BY <2>1, <2>4, SetActiveInv DEF ArgKnown
    <3> QED
      BY <3>2, <3>3
  <2> QED
    BY <2>1, <2>4, <2>5, SetActiveInv DEF Inv
<1>10. ASSUME Retry
       PROVE  Inv' /\ Kept
  <2>1. /\ pc[Main] = "idle" /\ current # 0
        /\ pc' = [pc EXCEPT ![Main] = "load"]
        /\ tuning' = current /\ retried' = TRUE /\ mpv' = Idle
        /\ target' \in Targets
        /\ UNCHANGED <<poolVars, arg, current, keep>>
    BY <1>10 DEF Retry, Targets
  <2>2. TypeOK'
    BY <1>1, <1>0, <2>1 DEF TypeOK, poolVars, Callers, Idle, MpvModes, Targets
  <2>3. ArgKnown' /\ OneOwner' /\ NoOrphanSession'
    BY <1>1, <2>1 DEF TypeOK, ArgKnown, OneOwner, NoOrphanSession, Mapped, poolVars, Callers
  <2> QED
    BY <2>1, <2>2, <2>3 DEF Inv, poolVars
<1>11. ASSUME GiveUp
       PROVE  Inv' /\ Kept
  <2>1. /\ current' = 0 /\ mpv' = Idle
        /\ UNCHANGED <<poolVars, pc, arg, target, retried, tuning, keep>>
    BY <1>11 DEF GiveUp
  <2>2. TypeOK'
    BY <1>1, <1>0, <2>1, PrebufferAssumption DEF TypeOK, poolVars, Idle, MpvModes, Targets
  <2>3. ArgKnown' /\ OneOwner' /\ NoOrphanSession'
    BY <1>1, <2>1 DEF ArgKnown, OneOwner, NoOrphanSession, Mapped, poolVars
  <2> QED
    BY <2>1, <2>2, <2>3 DEF Inv, poolVars
<1>12. ASSUME Quit
       PROVE  Inv' /\ Kept
  <2>1. /\ pc[Main] = "idle" /\ SetActive({}, <<>>, "quit") /\ mpv' = Idle
        /\ UNCHANGED <<target, current, retried, tuning>>
    BY <1>12 DEF Quit
  <2>2. {} \in SUBSET URLs /\ <<>> \in Seq(URLs) /\ UNCHANGED <<open, held>>
    BY <2>1 DEF SetActive
  <2>3. TypeOK' /\ ArgKnown'
    BY <1>1, <1>0, <2>1, <2>2, SetActiveInv DEF TypeOK, ArgKnown, Idle, MpvModes, Targets
  <2> QED
    BY <2>1, <2>2, <2>3, SetActiveInv DEF Inv
<1>13. ASSUME Player
       PROVE  Inv' /\ Kept
  <2>1. /\ mpv' \in [mode : MpvModes, url : URLs \cup {None},
                     sess : Sessions \cup {None}, src : Targets]
       
    <3>1. CASE Serve
      <4>1. mpv.url \in URLs \cup {None} /\ sessions[mpv.url] \in open
        BY <1>1, <3>1 DEF Serve, Live, TypeOK
      <4> QED
        BY <1>1, <3>1, <4>1 DEF Serve, TypeOK, MpvModes
    <3>2. CASE NotFound \/ StreamEnds
      BY <1>1, <3>2 DEF NotFound, StreamEnds, TypeOK, Idle, MpvModes, Targets
    <3>3. CASE Connect
      BY <1>1, <3>3 DEF Connect, TypeOK, MpvModes
    <3> QED
      BY <1>13, <3>1, <3>2, <3>3 DEF Player
  <2>2. UNCHANGED <<poolVars, pc, arg, target, current, retried, tuning, keep>>
    BY <1>13 DEF Player, Serve, NotFound, Connect, StreamEnds
  <2>3. TypeOK'
    BY <1>1, <1>0, <2>1, <2>2 DEF TypeOK, poolVars
  <2>4. ArgKnown' /\ OneOwner' /\ NoOrphanSession'
    BY <1>1, <2>2 DEF ArgKnown, OneOwner, NoOrphanSession, Mapped, poolVars
  <2> QED
    BY <2>2, <2>3, <2>4 DEF Inv, poolVars
<1>14. CASE UNCHANGED vars
  BY <1>1, <1>14 DEF vars, poolVars, uiVars, ghosts, Inv, TypeOK, ArgKnown, OneOwner, NoOrphanSession,
                     Mapped
<1> QED
  BY <1>2, <1>3, <1>4, <1>5, <1>6, <1>7, <1>8, <1>9, <1>10, <1>11, <1>12, <1>13, <1>14
     DEF Next, UI

(* No session is lost between two ensures and a SetActive, and none has    *)
(* two owners (prebuffer.go:126-180).                                      *)
THEOREM NoSessionLost == Spec => [](TypeOK /\ OneOwner /\ NoOrphanSession)
<1>1. Init => Inv
  BY InitInv
<1>2. Inv /\ [Next]_vars => Inv'
  BY NextInv
<1>3. Inv => TypeOK /\ OneOwner /\ NoOrphanSession
  BY DEF Inv
<1> QED
  BY <1>1, <1>2, <1>3, PTL DEF Spec

(* A live session of a channel that SetActive keeps is neither dropped nor *)
(* replaced by a later ensure (prebuffer.go:128-131, 145-148, 166-171).    *)
THEOREM WarmSessionsStay == Spec => WarmSessionKept
<1>1. Init => Inv
  BY InitInv
<1>2. Inv /\ [Next]_vars => Inv'
  BY NextInv
<1>3. Inv /\ [Next]_vars
      => [\A u \in URLs :
            sessions[u] \in open /\ sessions'[u] # sessions[u] => u \notin keep']_vars
  BY NextInv
<1> QED
  BY <1>1, <1>2, <1>3, PTL DEF Spec, WarmSessionKept

-----------------------------------------------------------------------------
(* What holds the proxy's session up on its way from ensure to mpv: the    *)
(* map entry of the channel to be loaded, then that of the URL mpv asks    *)
(* for, from which it is served, unless a public channel is tuned, for     *)
(* which all are dropped before mpv accepts it.                            *)
Dropping == refused \/ (tuning # 0 /\ Channels[tuning] \notin Rtsp)

Loads  == pc[Main] = "load" /\ target = "proxy" /\ Channels[tuning] \notin lost
          => Live(Channels[tuning])
Asked  == mpv.mode = "ask" /\ mpv.url \notin lost /\ ~Dropping => Live(mpv.url)
Served == mpv.mode = "serve" /\ mpv.sess \in open /\ ~Dropping
          => mpv.sess = sessions[mpv.url]

(* The UI tunes between two handlers only, and to the URL mpv has.         *)
Tuned == /\ pc[Main] \in {"idle", "quit"} => tuning = 0
         /\ pc[Main] = "quit" => mpv = Idle
         /\ mpv.mode \in {"ask", "serve"} => mpv.url \in URLs
         /\ pc[Main] = "active" /\ mpv.mode \in {"ask", "serve"} => mpv.url = Channels[tuning]
         /\ pc[Main] \in {"check", "dial", "install", "active"} => Channels[tuning] \in Rtsp
         /\ pc[Main] = "load" /\ target = "proxy" => Channels[tuning] \in Rtsp

MpvInv == Tuned /\ Loads /\ Asked /\ Served

(* Ensures leave live sessions alone, and the main thread hands on what it *)
(* got (prebuffer.go:113-151).                                             *)
LEMMA EnsureMpv ==
    ASSUME Inv, MpvInv, NEW g \in Callers, Ensure(g)
    PROVE  MpvInv'
<1>1. /\ TypeOK /\ OneOwner /\ NoOrphanSession /\ ArgKnown /\ Main \notin Workers
      /\ Main \in Callers /\ None \notin Sessions
      /\ Tuned /\ Loads /\ Asked /\ Served
  BY PrebufferAssumption DEF Inv, Callers, MpvInv
<1>2. \A u \in URLs : sessions[u] \in open => sessions'[u] = sessions[u]
  BY EnsureInv
<1>3. /\ mpv' = mpv /\ tuning' = tuning /\ refused' = refused
      /\ open \subseteq open' /\ (mpv.sess \in open' => mpv.sess \in open)
  BY DEF Ensure, EnsureHit, EnsureMiss, DialOk, DialFail, Install, Fresh, poolVars, uiVars, ghosts
<1>4. Dropping' = Dropping
  BY <1>3 DEF Dropping
<1>5. mpv.mode \in {"ask", "serve"} => mpv.url \in URLs
  BY <1>1 DEF Tuned
<1>6. Served'
  BY <1>1, <1>2, <1>3, <1>4, <1>5 DEF Served
<1>7. CASE g # Main
  <2>1. pc'[Main] = pc[Main] /\ target' = target
    BY <1>1, <1>7 DEF Ensure, EnsureHit, EnsureMiss, DialOk, DialFail, Install, EnsureReturns,
                      uiVars, TypeOK
  <2>2. lost' = lost
    BY <1>7 DEF Ensure, EnsureHit, EnsureMiss, DialOk, DialFail, Install, Given, ghosts
  <2>3. Tuned'
    BY <1>1, <1>3, <2>1 DEF Tuned
  <2>4. Loads'
    <3>1. pc[Main] = "load" => Channels[tuning] \in URLs
      BY <1>1, PrebufferAssumption DEF ArgKnown, TypeOK
    <3> QED BY <1>1, <1>2, <1>3, <2>1, <2>2, <3>1 DEF Loads, Live
  <2>5. Asked'
    BY <1>1, <1>2, <1>3, <1>4, <1>5, <2>2 DEF Asked, Live
  <2> QED BY <1>6, <2>3, <2>4, <2>5 DEF MpvInv
<1>8. CASE g = Main
  <2>1. pc[Main] \in {"check", "dial", "install"} /\ tuning # 0 /\ Arg(Main) = Channels[tuning]
        /\ Channels[tuning] \in URLs /\ Channels[tuning] \in Rtsp
    <3>1. pc[Main] \in {"check", "dial", "install"}
      BY <1>8 DEF Ensure, EnsureHit, EnsureMiss, DialOk, DialFail, Install
    <3> QED BY <1>1, <3>1, PrebufferAssumption DEF ArgKnown, Arg, TypeOK, Tuned
  <2>2. pc'[Main] \in {"dial", "install", "load"}
    BY <1>1, <1>8 DEF Ensure, EnsureHit, EnsureMiss, DialOk, DialFail, Install, EnsureReturns, TypeOK
  <2>3. Tuned'
    BY <1>1, <1>3, <2>1, <2>2 DEF Tuned
  <2>4. /\ open \subseteq open'
        /\ \A u \in URLs : u \in lost /\ u \notin lost' => Live(u)'
        /\ pc'[Main] = "load" /\ target' = "proxy" => Channels[tuning] \in lost' \/ Live(Channels[tuning])'
    <3>1. CASE EnsureHit(g)
      <4>1. lost' = lost \ {Channels[tuning]} /\ Live(Channels[tuning]) /\ UNCHANGED <<sessions, open>>
        BY <1>8, <2>1, <3>1 DEF EnsureHit, Given, poolVars
      <4> QED BY <1>3, <4>1 DEF Live
    <3>2. CASE EnsureMiss(g) \/ DialOk(g)
      <4>1. pc'[Main] # "load" /\ lost' = lost
        BY <1>1, <1>8, <3>2 DEF EnsureMiss, DialOk, TypeOK, ghosts
      <4> QED BY <1>3, <4>1
    <3>3. CASE DialFail(g)
      <4>1. target' = "raw" /\ lost' = lost
        BY <1>8, <3>3 DEF DialFail, EnsureReturns, ghosts
      <4> QED BY <1>3, <4>1
    <3>4. CASE Install(g)
      <4>1. /\ open' = open
            /\ \/ Live(Channels[tuning]) /\ sessions' = sessions
               \/ sessions' = [sessions EXCEPT ![Channels[tuning]] = held[Main]]
        BY <1>8, <2>1, <3>4 DEF Install
      <4>2. CASE Live(Channels[tuning]) \/ held[Main] \in open
        <5>1. lost' = lost \ {Channels[tuning]}
          BY <1>8, <2>1, <3>4, <4>2 DEF Install, Given
        <5>2. Live(Channels[tuning])'
          <6>1. CASE Live(Channels[tuning])
            BY <1>2, <1>3, <2>1, <4>1, <6>1 DEF Live
          <6>2. CASE ~Live(Channels[tuning])
            BY <1>1, <1>3, <2>1, <4>1, <4>2, <6>2 DEF Live, TypeOK
          <6> QED BY <6>1, <6>2
        <5> QED BY <1>3, <4>1, <5>1, <5>2 DEF Live
      <4>3. CASE ~(Live(Channels[tuning]) \/ held[Main] \in open)
        <5>1. lost' = lost \cup {Channels[tuning]}
          BY <1>8, <2>1, <3>4, <4>3 DEF Install, Given
        <5> QED BY <4>1, <5>1
      <4> QED BY <4>2, <4>3
    <3> QED BY <3>1, <3>2, <3>3, <3>4 DEF Ensure
  <2>5. Loads'
    BY <1>3, <2>4 DEF Loads, Live
  <2>6. Asked'
    <3>1. ASSUME mpv.mode = "ask", mpv.url \notin lost', ~Dropping PROVE Live(mpv.url)'
      <4>1. CASE mpv.url \in lost
        BY <1>3, <1>5, <2>4, <3>1, <4>1 DEF Live
      <4>2. CASE mpv.url \notin lost
        BY <1>1, <1>2, <1>3, <1>5, <3>1, <4>2 DEF Asked, Live
      <4> QED BY <4>1, <4>2
    <3> QED BY <1>3, <1>4, <3>1 DEF Asked, Live
  <2> QED BY <1>6, <2>3, <2>5, <2>6 DEF MpvInv
<1> QED BY <1>7, <1>8

(* Every step keeps the proxy's session: a close runs only for sessions    *)
(* nobody refers to, SetActive keeps the channel tuned, a refused local    *)
(* loadfile changes nothing, and a death is remembered in lost.            *)
LEMMA MpvStep ==
    ASSUME Inv, MpvInv, [Next]_vars
    PROVE  MpvInv'
<1>1. /\ TypeOK /\ OneOwner /\ NoOrphanSession /\ ArgKnown /\ Main \notin Workers
      /\ Main \in Callers /\ None \notin Sessions
  BY PrebufferAssumption DEF Inv, Callers
<1>2. /\ Tuned /\ Loads /\ Asked /\ Served
      /\ pc[Main] \in {"load", "active", "check", "dial", "install"}
           => tuning # 0 /\ Channels[tuning] \in URLs
      /\ mpv.mode \in {"ask", "serve"} => mpv.url \in URLs
  BY <1>1, PrebufferAssumption DEF MpvInv, ArgKnown, TypeOK, Tuned
<1>3. ASSUME NEW g \in Callers, Ensure(g)
      PROVE  MpvInv'
  BY <1>3, EnsureMpv
<1>4. ASSUME NEW s \in Sessions, CloseRun(s)
      PROVE  MpvInv'
  <2>1. /\ s \in closing /\ open' = open \ {s}
        /\ UNCHANGED <<sessions, held, pc, arg, uiVars, keep, ghosts>>
    BY <1>4 DEF CloseRun
  <2>2. \A u \in URLs : sessions[u] \in open => sessions[u] # s
    BY <1>1, <2>1 DEF OneOwner
  <2>3. Tuned'
    BY <1>2, <2>1 DEF Tuned, uiVars
  <2>4. Loads' /\ Asked'
    BY <1>2, <2>1, <2>2 DEF Loads, Asked, Live, Dropping, uiVars, ghosts
  <2>5. Served'
    BY <1>2, <2>1 DEF Served, Dropping, uiVars, ghosts
  <2> QED BY <2>3, <2>4, <2>5 DEF MpvInv
<1>5. ASSUME NEW s \in Sessions, SessionDies(s)
      PROVE  MpvInv'
  <2>1. /\ open' = open \ {s} /\ lost' = lost \cup {u \in URLs \cap Awaited : sessions[u] = s}
        /\ UNCHANGED <<sessions, closing, held, pc, arg, uiVars, keep, refused>>
    BY <1>5 DEF SessionDies
  <2>2. Tuned'
    BY <1>2, <2>1 DEF Tuned, uiVars
  <2>3. Loads'
    <3>1. pc[Main] = "load" /\ target = "proxy" => Channels[tuning] \in URLs \cap Awaited
      BY <1>2 DEF Awaited
    <3> QED BY <1>2, <2>1, <3>1 DEF Loads, Live, uiVars
  <2>4. Asked'
    <3>1. mpv.mode = "ask" => mpv.url \in URLs \cap Awaited
      BY <1>2 DEF Awaited
    <3> QED BY <1>2, <2>1, <3>1 DEF Asked, Live, Dropping, uiVars
  <2>5. Served'
    BY <1>2, <2>1 DEF Served, Dropping, uiVars
  <2> QED BY <2>2, <2>3, <2>4, <2>5 DEF MpvInv
<1>6. ASSUME NEW i \in DOMAIN Channels, PlayRtsp(i)
      PROVE  MpvInv'
  <2>1. /\ pc[Main] = "idle" /\ pc'[Main] = "check" /\ tuning' = i /\ Channels[i] \in Rtsp
        /\ UNCHANGED <<sessions, open, mpv, lost, refused>>
    BY <1>1, <1>6 DEF PlayRtsp, TypeOK, poolVars, ghosts
  <2>2. Dropping' => Dropping
    BY <2>1 DEF Dropping
  <2>3. Dropping => refused
    BY <1>2, <2>1 DEF Dropping, Tuned
  <2>4. refused => Dropping'
    BY <2>1 DEF Dropping
  <2> QED BY <1>2, <2>1, <2>2, <2>3, <2>4 DEF MpvInv, Tuned, Loads, Asked, Served, Live
<1>7. ASSUME NEW i \in DOMAIN Channels, PlayPublic(i)
      PROVE  MpvInv'
  <2>1. /\ SetActive({}, <<>>, "load") /\ pc[Main] = "idle" /\ target' = "public" /\ mpv' = mpv
        /\ tuning' = i /\ Channels[i] \notin Rtsp /\ i # 0
    BY <1>7, PrebufferAssumption DEF PlayPublic
  <2>2. {} \in SUBSET URLs /\ <<>> \in Seq(URLs)
    OBVIOUS
  <2>3. pc'[Main] = "load"
    BY <2>1, <2>2, SetActiveInv
  <2>4. Dropping'
    BY <2>1 DEF Dropping
  <2> QED BY <1>2, <2>1, <2>3, <2>4 DEF MpvInv, Tuned, Loads, Asked, Served
<1>8. ASSUME LoadOk
      PROVE  MpvInv'
  <2>1. /\ pc[Main] = "load" /\ mpv' = Opening(Channels[tuning]) /\ target' = "public"
        /\ \/ pc'[Main] = "active" /\ tuning' = tuning /\ Channels[tuning] \in Rtsp
           \/ pc'[Main] = "idle" /\ tuning' = 0
        /\ lost' = lost \cap Awaited'
        /\ UNCHANGED <<sessions, open>>
    BY <1>1, <1>8 DEF LoadOk, poolVars, TypeOK
  <2>2. mpv'.url = Channels[tuning] /\ mpv'.mode # "serve" /\ (mpv'.mode = "ask" => target = "proxy")
    BY <2>1 DEF Opening
  <2>3. Tuned'
    BY <1>2, <2>1, <2>2 DEF Tuned
  <2>4. Loads' /\ Served'
    BY <2>1, <2>2 DEF Loads, Served
  <2>5. Asked'
    <3>1. mpv'.mode = "ask" => Channels[tuning] \in Awaited'
      BY <2>2 DEF Awaited
    <3> QED BY <1>2, <2>1, <2>2, <3>1 DEF Loads, Asked, Live
  <2> QED BY <2>3, <2>4, <2>5 DEF MpvInv
<1>9. ASSUME LoadFail
      PROVE  MpvInv'
  <2>1. /\ pc[Main] = "load" /\ pc'[Main] = "idle" /\ tuning' = 0 /\ mpv' = mpv
        /\ target' = "public" /\ lost' = lost \cap Awaited'
        /\ refused' = \/ refused
                      \/ Channels[tuning] \notin Rtsp /\ mpv.mode \in {"ask", "serve"}
        /\ UNCHANGED <<sessions, open>>
    BY <1>1, <1>9 DEF LoadFail, TypeOK, poolVars
  <2>2. mpv.mode \in {"ask", "serve"} /\ ~Dropping' => ~Dropping
    BY <1>2, <2>1 DEF Dropping
  <2>3. mpv.mode = "ask" => mpv.url \in Awaited'
    BY <2>1 DEF Awaited
  <2>4. Tuned'
    BY <1>2, <2>1 DEF Tuned
  <2>5. Loads'
    BY <2>1 DEF Loads
  <2>6. Asked' /\ Served'
    BY <1>2, <2>1, <2>2, <2>3 DEF Asked, Served, Live
  <2> QED BY <2>4, <2>5, <2>6 DEF MpvInv
<1>10. ASSUME Activate
       PROVE  MpvInv'
  <2> DEFINE ns == NeighborRTSPURLs(tuning)
             cs == {Channels[tuning]}
  <2>1. /\ pc[Main] = "active" /\ tuning' = 0 /\ mpv' = mpv /\ UNCHANGED <<lost, refused>>
        /\ SetActive(cs, ns, "idle")
    BY <1>10 DEF Activate, ghosts
  <2>2. tuning \in DOMAIN Channels /\ cs \in SUBSET URLs
    BY <1>1, <1>2, <2>1, PrebufferAssumption DEF TypeOK
  <2>3. ns \in Seq(URLs)
    BY <2>2, NeighborURLs
  <2>4. sessions' = Retained(KeepSet(cs, ns)) /\ open' = open
    BY <2>1, Zenon DEF SetActive
  <2>5. sessions'[Channels[tuning]] = sessions[Channels[tuning]]
    BY <1>2, <2>1, <2>4 DEF Retained, KeepSet
  <2> HIDE DEF ns, cs
  <2>6. pc'[Main] = "idle"
    BY <2>1, <2>2, <2>3, SetActiveInv
  <2>7. Tuned'
    BY <1>2, <2>1, <2>6 DEF Tuned
  <2>8. Dropping <=> Dropping'
    BY <1>2, <2>1 DEF Dropping, Tuned
  <2>9. Loads' /\ Asked' /\ Served'
    BY <1>2, <2>1, <2>4, <2>5, <2>6, <2>8 DEF Tuned, Loads, Asked, Served, Live
  <2> QED BY <2>7, <2>9 DEF MpvInv
<1>11. ASSUME Retry
       PROVE  MpvInv'
  <2>1. pc'[Main] = "load" /\ mpv' = Idle /\ target' # "proxy"
    BY <1>1, <1>11 DEF Retry, TypeOK
  <2> QED BY <2>1 DEF MpvInv, Tuned, Loads, Asked, Served, Idle
<1>12. ASSUME GiveUp
       PROVE  MpvInv'
  <2>1. pc' = pc /\ pc[Main] = "idle" /\ mpv' = Idle /\ tuning' = tuning
    BY <1>12 DEF GiveUp
  <2> QED BY <1>2, <2>1 DEF MpvInv, Tuned, Loads, Asked, Served, Idle
<1>13. ASSUME Quit
       PROVE  MpvInv'
  <2>1. SetActive({}, <<>>, "quit") /\ pc[Main] = "idle" /\ mpv' = Idle /\ tuning' = tuning
    BY <1>13 DEF Quit
  <2>2. {} \in SUBSET URLs /\ <<>> \in Seq(URLs)
    OBVIOUS
  <2>3. pc'[Main] = "quit"
    BY <2>1, <2>2, SetActiveInv
  <2> QED BY <1>2, <2>1, <2>3 DEF MpvInv, Tuned, Loads, Asked, Served, Idle
<1>14. ASSUME Player
       PROVE  MpvInv'
  <2>1. UNCHANGED <<poolVars, pc, target, tuning>>
    BY <1>14 DEF Player, Serve, NotFound, Connect, StreamEnds
  <2>2. mpv'.mode # "ask" /\ (mpv'.mode = "serve" => /\ mpv.mode = "ask" /\ mpv'.url = mpv.url
                                                    /\ mpv'.sess = sessions[mpv.url])
    BY <1>1, <1>14 DEF Player, Serve, NotFound, Connect, StreamEnds, Idle, TypeOK
  <2>3. mpv.mode # "idle"
    BY <1>14 DEF Player, Serve, NotFound, Connect, StreamEnds
  <2>4. Tuned' /\ Asked' /\ Served'
    BY <1>2, <2>1, <2>2, <2>3 DEF Tuned, Asked, Served, Idle, poolVars
  <2>5. Loads'
    <3>1. \/ lost' = lost
          \/ lost' = lost \cap Awaited'
      BY <1>14 DEF Player, Serve, NotFound, Connect, StreamEnds, ghosts
    <3>2. pc[Main] = "load" /\ target = "proxy" => Channels[tuning] \in Awaited'
      BY <2>1 DEF Awaited
    <3> QED BY <1>2, <2>1, <3>1, <3>2 DEF Loads, Live, poolVars
  <2> QED BY <2>4, <2>5 DEF MpvInv
<1>15. CASE UNCHANGED vars
  BY <1>15 DEF vars, poolVars, uiVars, ghosts, MpvInv, Tuned, Loads, Asked, Served, Dropping, Live
<1> QED
  BY <1>3, <1>4, <1>5, <1>6, <1>7, <1>8, <1>9, <1>10, <1>11, <1>12, <1>13, <1>14, <1>15
     DEF Next, UI

(* A new program has nothing to keep.                                      *)
LEMMA InitMpv == Init => Inv /\ MpvInv
  BY InitInv, PrebufferAssumption
     DEF Init, MpvInv, Tuned, Loads, Asked, Served, Idle, Callers

(* For any channels, dials that race and zaps, the proxy URL given to mpv  *)
(* finds a live session (prebuffer.go:119-180, 182-215; ui.go:482-509).    *)
THEOREM ProxyFindsSession == Spec => []ProxyReady
<1>1. Inv /\ MpvInv /\ [Next]_vars => Inv' /\ MpvInv'
  BY NextInv, MpvStep
<1>2. Inv /\ MpvInv => ProxyReady
  BY DEF MpvInv, Asked, ProxyReady, Dropping, Tuned, Live
<1> QED
  BY InitMpv, <1>1, <1>2, PTL DEF Spec

(* The session mpv is served from is not one we are about to close         *)
(* (prebuffer.go:156-180, 182-215).                                        *)
THEOREM ServedStays == Spec => []ServedNotClosing
<1>1. Inv /\ MpvInv /\ [Next]_vars => Inv' /\ MpvInv'
  BY NextInv, MpvStep
<1>2. Inv /\ MpvInv => ServedNotClosing
  BY DEF Inv, OneOwner, MpvInv, Tuned, Served, Dropping, ServedNotClosing
<1> QED
  BY InitMpv, <1>1, <1>2, PTL DEF Spec
=============================================================================
