-------------------------- MODULE SourceWatchProofs --------------------------
(***************************************************************************)
(* Theorems about SourceWatch, for any networks, pages and capacity of the *)
(* update channel, and any number of changes and restarts; and about the   *)
(* parser, for pages of any length.                                        *)
(***************************************************************************)
EXTENDS SourceWatch, SubsequenceFacts, TLAPS

-----------------------------------------------------------------------------
(* Types.                                                                  *)

(* What a discovery may find anywhere.                                     *)
Findable == {<<>>} \cup {ProbeOne(BoxPage[n]) : n \in Networks}
                   \cup {ProbeOne(OtherPage[n]) : n \in Networks}

Update == {Local(l) : l \in Findable} \cup {Public(ParseM3U(p)) : p \in PublicPages}

Types ==
    /\ net \in Networks /\ page \in PublicPages \cup {Down}
    /\ found \in Findable
    /\ fetched \in PublicPages \cup {<<>>}
    /\ pc \in {"save", "cache"} => fetched \in PublicPages
    /\ out \in Seq(Update)

(* An answer of a discovery is findable.                                   *)
LEMMA CandidatesFindable ==
    ASSUME NEW n \in Networks, NEW pages \in SUBSET {BoxPage[n], OtherPage[n]},
           NEW l \in ProbeCandidates(pages)
    PROVE  l \in Findable
  <1>1. l \in {<<>>} \cup {ProbeOne(p) : p \in pages}
    BY DEF ProbeCandidates
  <1> QED BY <1>1 DEF Findable

(* An update that is sent is the last in the channel, or is dropped.       *)
LEMMA SendTypes ==
    ASSUME out \in Seq(Update), NEW u \in Update, Send(u)
    PROVE  /\ out' \in Seq(Update)
           /\ ~dropped' => ~dropped /\ out' = Append(out, u)
           /\ dropped => dropped'
  BY DEF Send

(* Every step keeps the types.                                             *)
LEMMA TypeStep == Types /\ [Next]_vars => Types'
  <1> SUFFICES ASSUME Types, [Next]_vars PROVE Types'
    OBVIOUS
  <1> USE DEF env, watch, beliefs, disk, sent, shown
  <1>1. CASE Change
    BY <1>1 DEF Change, Types
  <1>2. CASE Load
    BY <1>2 DEF Load, Types
  <1>3. CASE Save
    BY <1>3 DEF Save, Types
  <1>4. CASE Probe
    <2>1. found' \in Findable
      <3>1. {OtherPage[net]} \cup (IF net \in Announced THEN {} ELSE BoxAnswers(net))
              \in SUBSET {BoxPage[net], OtherPage[net]}
        BY DEF BoxAnswers
      <3>2. found' \in ProbeCandidates({OtherPage[net]} \cup IF net \in Announced THEN {} ELSE BoxAnswers(net))
        BY <1>4 DEF Probe
      <3> QED BY <3>1, <3>2, CandidatesFindable DEF Types
    <2> QED BY <2>1, <1>4 DEF Probe, Types
  <1>5. CASE ProbeAnnounced
    <2>1. found' \in Findable
      <3>1. BoxAnswers(net) \in SUBSET {BoxPage[net], OtherPage[net]}
        BY DEF BoxAnswers
      <3> QED BY <3>1, <1>5, CandidatesFindable DEF ProbeAnnounced, Types
    <2> QED BY <2>1, <1>5 DEF ProbeAnnounced, Types
  <1>6. CASE SkipProbe
    BY <1>6 DEF SkipProbe, AfterDiscovery, Types
  <1>7. CASE Report
    <2>1. Local(found) \in Update /\ Local(<<>>) \in Update
      BY DEF Types, Update, Findable
    <2>2. out' \in Seq(Update)
      BY <2>1, <1>7, SendTypes DEF Report, Types
    <2>3. pc' \in {"sign", "wait"}
      BY <1>7 DEF Report, AfterDiscovery
    <2> QED BY <2>2, <2>3, <1>7 DEF Report, Types
  <1>8. CASE Sign
    BY <1>8 DEF Sign, Types
  <1>9. CASE Fetch
    BY <1>9 DEF Fetch, Types
  <1>10. CASE Cache
    <2>1. Public(ParseM3U(fetched)) \in Update
      BY <1>10 DEF Cache, Types, Update
    <2>2. out' \in Seq(Update)
      BY <2>1, <1>10, SendTypes DEF Cache, Types
    <2> QED BY <2>2, <1>10 DEF Cache, Types
  <1>11. ASSUME NEW duePublic \in BOOLEAN, NEW dueLocal \in BOOLEAN, Tick(duePublic, dueLocal)
         PROVE  Types'
    BY <1>11 DEF Tick, Types
  <1>12. CASE Receive
    BY <1>12 DEF Receive, Types
  <1>13. CASE Stop
    BY <1>13 DEF Stop, Types, Nothing, Findable
  <1>14. CASE Start
    BY <1>14 DEF Start, Types
  <1>15. CASE UNCHANGED vars
    BY <1>15 DEF vars, Types
  <1> QED BY <1>1, <1>2, <1>3, <1>4, <1>5, <1>6, <1>7, <1>8, <1>9, <1>10, <1>11,
             <1>12, <1>13, <1>14, <1>15 DEF Next, Watcher

-----------------------------------------------------------------------------
(* The last list of local channels sent.                                   *)

(* A list that is sent becomes the last.                                   *)
LEMMA LastAfterLocal ==
    ASSUME out \in Seq(Update), NEW l, out' = Append(out, Local(l)), NEW lists
    PROVE  LastLocalIn(lists)' <=> l \in lists
  <1>1. /\ DOMAIN out = 1..Len(out) /\ Len(out) \in Nat
        /\ DOMAIN out' = 1..(Len(out) + 1)
        /\ out'[Len(out) + 1] = Local(l)
    OBVIOUS
  <1>2. "local" \in DOMAIN out'[Len(out) + 1] /\ out'[Len(out) + 1].local = l
    BY <1>1 DEF Local
  <1>3. ASSUME NEW i \in DOMAIN out',
               \A j \in DOMAIN out' : j > i => "local" \notin DOMAIN out'[j]
        PROVE  i = Len(out) + 1
    <2>1. Len(out) + 1 \in DOMAIN out' /\ ~ (Len(out) + 1 > i)
      BY <1>1, <1>2, <1>3
    <2> QED BY <2>1, <1>1
  <1>4. Len(out) + 1 \in DOMAIN out' /\ \A j \in DOMAIN out' : ~ (j > Len(out) + 1)
    BY <1>1
  <1> QED BY <1>2, <1>3, <1>4 DEF LastLocalIn

(* An update of the public list leaves the last list as it is.             *)
LEMMA LastAfterPublic ==
    ASSUME out \in Seq(Update), NEW l, out' = Append(out, Public(l)), uiLocal' = uiLocal,
           NEW lists
    PROVE  LastLocalIn(lists)' <=> LastLocalIn(lists)
  <1>1. /\ DOMAIN out = 1..Len(out) /\ Len(out) \in Nat
        /\ DOMAIN out' = DOMAIN out \cup {Len(out) + 1}
        /\ \A i \in DOMAIN out : out'[i] = out[i]
        /\ out'[Len(out) + 1] = Public(l)
    OBVIOUS
  <1>2. "local" \notin DOMAIN out'[Len(out) + 1]
    BY <1>1 DEF Public
  <1> QED BY <1>1, <1>2 DEF LastLocalIn

(* An update of the local channels, and the last one under way.            *)
IsLocal(i) == "local" \in DOMAIN out[i]

IsLast(i) == IsLocal(i) /\ \A j \in DOMAIN out : j > i => ~IsLocal(j)

(* When an update is taken, the others move up.                            *)
LEMMA LastMovesUp ==
    ASSUME out \in Seq(Update), out # <<>>, out' = Tail(out)
    PROVE  /\ 1 \in DOMAIN out
           /\ \A i \in DOMAIN out' : i + 1 \in DOMAIN out \ {1} /\ out'[i] = out[i + 1]
           /\ \A i \in DOMAIN out \ {1} : \E j \in DOMAIN out' : i = j + 1
           /\ \A i \in DOMAIN out' : IsLocal(i)' <=> IsLocal(i + 1)
           /\ \A i \in DOMAIN out' : IsLast(i)' <=> IsLast(i + 1)
  <1>1. /\ DOMAIN out = 1..Len(out) /\ Len(out) \in Nat \ {0}
        /\ DOMAIN out' = 1..(Len(out) - 1)
        /\ \A i \in DOMAIN out' : out'[i] = out[i + 1]
    OBVIOUS
  <1>2. 1 \in DOMAIN out /\ \A i \in DOMAIN out' : i + 1 \in DOMAIN out \ {1}
    BY <1>1
  <1>3. ASSUME NEW i \in DOMAIN out \ {1} PROVE \E j \in DOMAIN out' : i = j + 1
    <2>1. i - 1 \in DOMAIN out' /\ i = (i - 1) + 1
      BY <1>1
    <2> QED BY <2>1
  <1>4. \A i \in DOMAIN out' : IsLocal(i)' <=> IsLocal(i + 1)
    BY <1>1 DEF IsLocal
  <1>5. ASSUME NEW i \in DOMAIN out' PROVE IsLast(i)' <=> IsLast(i + 1)
    <2>1. ASSUME IsLast(i)', NEW j \in DOMAIN out, j > i + 1 PROVE ~IsLocal(j)
      <3>1. j # 1
        BY <2>1, <1>1
      <3>2. PICK k \in DOMAIN out' : j = k + 1
        BY <3>1, <1>3
      <3>3. k > i
        BY <3>2, <2>1, <1>1
      <3> QED BY <3>2, <3>3, <2>1, <1>4 DEF IsLast
    <2>2. ASSUME IsLast(i + 1), NEW j \in DOMAIN out', j > i PROVE ~IsLocal(j)'
      <3>1. j + 1 \in DOMAIN out /\ j + 1 > i + 1
        BY <2>2, <1>1, <1>2
      <3> QED BY <3>1, <2>2, <1>4 DEF IsLast
    <2> QED BY <2>1, <2>2, <1>4 DEF IsLast
  <1> QED BY <1>1, <1>2, <1>3, <1>4, <1>5

(* Applying an update leaves the last list as it is, too.                  *)
LEMMA LastAfterReceive ==
    ASSUME out \in Seq(Update), Receive, NEW lists
    PROVE  LastLocalIn(lists)' <=> LastLocalIn(lists)
  <1>1. /\ 1 \in DOMAIN out
        /\ \A i \in DOMAIN out' : i + 1 \in DOMAIN out \ {1} /\ out'[i] = out[i + 1]
        /\ \A i \in DOMAIN out \ {1} : \E j \in DOMAIN out' : i = j + 1
        /\ \A i \in DOMAIN out' : IsLocal(i)' <=> IsLocal(i + 1)
        /\ \A i \in DOMAIN out' : IsLast(i)' <=> IsLast(i + 1)
    BY LastMovesUp DEF Receive
  <1>2. Head(out) = out[1] /\ out[1] \in Update
    BY <1>1
  <1>3. LastLocalIn(lists) <=>
          \/ uiLocal \in lists /\ \A i \in DOMAIN out : ~IsLocal(i)
          \/ \E i \in DOMAIN out : IsLast(i) /\ out[i].local \in lists
    BY DEF LastLocalIn, IsLocal, IsLast
  <1>4. LastLocalIn(lists)' <=>
          \/ uiLocal' \in lists /\ \A i \in DOMAIN out' : ~IsLocal(i)'
          \/ \E i \in DOMAIN out' : IsLast(i)' /\ out'[i].local \in lists
    BY DEF LastLocalIn, IsLocal, IsLast
  <1>5. (\E i \in DOMAIN out' : IsLast(i)' /\ out'[i].local \in lists)
          <=> \E i \in DOMAIN out \ {1} : IsLast(i) /\ out[i].local \in lists
    <2>1. ASSUME NEW i \in DOMAIN out', IsLast(i)', out'[i].local \in lists
          PROVE  \E k \in DOMAIN out \ {1} : IsLast(k) /\ out[k].local \in lists
      BY <2>1, <1>1
    <2>2. ASSUME NEW i \in DOMAIN out \ {1}, IsLast(i), out[i].local \in lists
          PROVE  \E k \in DOMAIN out' : IsLast(k)' /\ out'[k].local \in lists
      <3>1. PICK k \in DOMAIN out' : i = k + 1
        BY <1>1
      <3> QED BY <3>1, <2>2, <1>1
    <2> QED BY <2>1, <2>2
  <1>6. (\A i \in DOMAIN out' : ~IsLocal(i)') <=> \A i \in DOMAIN out \ {1} : ~IsLocal(i)
    <2>1. ASSUME \A i \in DOMAIN out' : ~IsLocal(i)', NEW i \in DOMAIN out \ {1} PROVE ~IsLocal(i)
      <3>1. PICK k \in DOMAIN out' : i = k + 1
        BY <1>1
      <3> QED BY <3>1, <2>1, <1>1
    <2>2. ASSUME \A i \in DOMAIN out \ {1} : ~IsLocal(i), NEW i \in DOMAIN out' PROVE ~IsLocal(i)'
      BY <2>2, <1>1
    <2> QED BY <2>1, <2>2
  <1>7. CASE IsLocal(1)
    <2>1. uiLocal' = out[1].local
      <3>1. "public" \notin DOMAIN out[1]
        BY <1>2, <1>7 DEF IsLocal, Update, Local, Public
      <3> QED BY <3>1, <1>2 DEF Receive
    <2>2. IsLast(1) <=> \A i \in DOMAIN out \ {1} : ~IsLocal(i)
      <3>1. \A i \in DOMAIN out : i > 1 <=> i # 1
        OBVIOUS
      <3> QED BY <3>1, <1>7, <1>1 DEF IsLast
    <2> QED BY <2>1, <2>2, <1>1, <1>3, <1>4, <1>5, <1>6, <1>7
  <1>8. CASE ~IsLocal(1)
    <2>1. uiLocal' = uiLocal
      <3>1. "public" \in DOMAIN out[1]
        BY <1>2, <1>8 DEF IsLocal, Update, Local, Public
      <3> QED BY <3>1, <1>2 DEF Receive
    <2>2. ~IsLast(1)
      BY <1>8 DEF IsLast
    <2> QED BY <2>1, <2>2, <1>1, <1>3, <1>4, <1>5, <1>6, <1>8
  <1> QED BY <1>7, <1>8

(* An update that is sent, or dropped, leaves the last list sent as it is  *)
(* when it is of the public list, and replaces it otherwise.               *)
LEMMA SendLocal ==
    ASSUME Types, NEW l \in Findable, Send(Local(l)), ~dropped', NEW lists
    PROVE  LastLocalIn(lists)' <=> l \in lists
  <1>1. Local(l) \in Update
    BY DEF Update
  <1>2. out' = Append(out, Local(l))
    BY <1>1, SendTypes DEF Types
  <1> QED BY <1>2, LastAfterLocal DEF Types

(* The public list is sent without a word of the box.                      *)
LEMMA SendPublic ==
    ASSUME Types, Cache, ~dropped', NEW lists
    PROVE  ~dropped /\ (LastLocalIn(lists)' <=> LastLocalIn(lists))
  <1>1. Public(ParseM3U(fetched)) \in Update
    BY DEF Cache, Types, Update
  <1>2. ~dropped /\ out' = Append(out, Public(ParseM3U(fetched)))
    BY <1>1, SendTypes DEF Cache, Types
  <1>3. uiLocal' = uiLocal
    BY DEF Cache, shown
  <1> QED BY <1>2, <1>3, LastAfterPublic DEF Types

-----------------------------------------------------------------------------
(* What the goroutine believes of the local channels.                      *)

(* Only Report, Cache, Receive and Stop touch the updates.                 *)
LEMMA OtherSteps ==
    ASSUME [Next]_vars, ~Report, ~Cache, ~Receive, ~Stop
    PROVE  UNCHANGED <<out, dropped, uiLocal, haveLocal>>
  <1> USE DEF beliefs, sent, shown
  <1>1. CASE Change
    BY <1>1 DEF Change
  <1>2. CASE Load \/ Save
    BY <1>2 DEF Load, Save
  <1>3. CASE Probe \/ ProbeAnnounced \/ SkipProbe \/ Sign \/ Fetch
    BY <1>3 DEF Probe, ProbeAnnounced, SkipProbe, Sign, Fetch
  <1>4. ASSUME NEW duePublic \in BOOLEAN, NEW dueLocal \in BOOLEAN, Tick(duePublic, dueLocal)
        PROVE  UNCHANGED <<out, dropped, uiLocal, haveLocal>>
    BY <1>4 DEF Tick
  <1>5. CASE Start
    BY <1>5 DEF Start
  <1>6. CASE UNCHANGED vars
    BY <1>6 DEF vars
  <1> QED BY <1>1, <1>2, <1>3, <1>4, <1>5, <1>6 DEF Next, Watcher

(* What is remembered of the box is what was sent last.                    *)
LEMMA SentStep == Types /\ ShownAsSent /\ [Next]_vars => ShownAsSent'
  <1> SUFFICES ASSUME Types, ShownAsSent, [Next]_vars, ~dropped'
               PROVE  haveLocal' <=> ~LastLocalIn({<<>>})'
    BY DEF ShownAsSent
  <1>1. CASE Report
    <2>0. found \in Findable /\ <<>> \in Findable
      BY DEF Types, Findable
    <2>1. CASE found # <<>> /\ haveLocal' = TRUE /\ Send(Local(found))
      <3>1. ~LastLocalIn({<<>>})'
        BY <2>0, <2>1, SendLocal
      <3> QED BY <3>1, <2>1
    <2>2. CASE haveLocal' = FALSE /\ Send(Local(<<>>))
      <3>1. LastLocalIn({<<>>})'
        BY <2>0, <2>2, SendLocal
      <3> QED BY <3>1, <2>2
    <2>3. CASE UNCHANGED <<haveLocal, sent>>
      <3>1. UNCHANGED <<out, dropped, uiLocal>>
        BY <1>1, <2>3 DEF Report, sent, shown
      <3> QED BY <3>1, <2>3 DEF ShownAsSent, LastLocalIn
    <2> QED BY <1>1, <2>1, <2>2, <2>3 DEF Report
  <1>2. CASE Cache
    <2>1. ~dropped /\ (LastLocalIn({<<>>})' <=> LastLocalIn({<<>>}))
      BY <1>2, SendPublic
    <2> QED BY <2>1, <1>2 DEF Cache, ShownAsSent
  <1>3. CASE Receive
    <2>1. LastLocalIn({<<>>})' <=> LastLocalIn({<<>>})
      BY <1>3, LastAfterReceive DEF Types
    <2> QED BY <2>1, <1>3 DEF Receive, ShownAsSent, beliefs
  <1>4. CASE Stop
    <2>1. out' = <<>> /\ uiLocal' = <<>> /\ haveLocal' = FALSE
      BY <1>4 DEF Stop
    <2> QED BY <2>1 DEF LastLocalIn
  <1>5. CASE ~Report /\ ~Cache /\ ~Receive /\ ~Stop
    <2>1. UNCHANGED <<out, dropped, uiLocal, haveLocal>>
      BY <1>5, OtherSteps
    <2> QED BY <2>1 DEF ShownAsSent, LastLocalIn
  <1> QED BY <1>1, <1>2, <1>3, <1>4, <1>5

-----------------------------------------------------------------------------
(* Where the local channels come from.                                     *)

Here == {<<>>} \cup ListsOf(net)

Early == {"off", "load", "save", "start"}

(* What is found, sent or shown while the network stays was found on  *)
(* it, or a discovery is about to find out.                                *)
BoxOk ==
    /\ pc \in Early => out = <<>> /\ uiLocal = <<>> /\ ~haveLocal
    /\ pc \in {"ssdp", "report"} => discover
    /\ ~discover => ~haveLocal
    /\ ~moved /\ pc \in {"ssdp", "report"} => found \in Here
    /\ ~moved /\ ~dropped /\ pc \in {"sign", "wait"} => LastLocalIn(Here)
    /\ ~moved /\ ~dropped /\ pc \in {"fetch", "cache", "probe"} => want.local \/ LastLocalIn(Here)

(* A goroutine that believes there is no box has said so last.             *)
LEMMA NoneIsHere ==
    ASSUME ShownAsSent, ~dropped, ~haveLocal
    PROVE  LastLocalIn(Here)
  <1>1. LastLocalIn({<<>>})
    BY DEF ShownAsSent
  <1> QED BY <1>1 DEF LastLocalIn, Here

(* What is said of the last list sent holds of Here, too, while the        *)
(* network stays.                                                          *)
LEMMA HereKept ==
    ASSUME net' = net, \A lists : LastLocalIn(lists)' <=> LastLocalIn(lists)
    PROVE  LastLocalIn(Here)' <=> LastLocalIn(Here)
  <1>1. PICK lists : lists = Here
    OBVIOUS
  <1>2. lists = Here'
    BY <1>1 DEF Here, ListsOf, BoxList
  <1>3. LastLocalIn(lists) <=> LastLocalIn(Here)
    BY <1>1
  <1>4. LastLocalIn(lists)' <=> LastLocalIn(Here)'
    BY <1>2 DEF LastLocalIn
  <1> QED BY <1>3, <1>4

(* A list found on this network is sent.                                   *)
LEMMA HereSent ==
    ASSUME Types, net' = net, NEW l \in Findable, l \in Here, Send(Local(l)), ~dropped'
    PROVE  LastLocalIn(Here)'
  <1>1. PICK lists : lists = Here
    OBVIOUS
  <1>2. lists = Here'
    BY <1>1 DEF Here, ListsOf, BoxList
  <1>3. LastLocalIn(lists)'
    BY <1>1, SendLocal
  <1> QED BY <1>2, <1>3 DEF LastLocalIn

(* A discovery that ends on the network it began on finds what is there.   *)
LEMMA CandidatesHere ==
    ASSUME net \in Networks,
           NEW pages \in SUBSET {BoxPage[net], OtherPage[net]}, NEW l \in ProbeCandidates(pages)
    PROVE  l \in Here
  <1>1. l \in {<<>>} \cup {ProbeOne(p) : p \in pages}
    BY DEF ProbeCandidates
  <1> QED BY <1>1 DEF Here, ListsOf, BoxList

(* Every step keeps the local channels those of the network.               *)
LEMMA BoxStep ==
    ASSUME Types, ShownAsSent, BoxOk, [Next]_vars
    PROVE  BoxOk'
  <1> USE DEF env, watch, beliefs, disk, sent, shown, Early
  <1>1. CASE Change
    <2>1. UNCHANGED <<discover, pc, want, found, out, dropped, uiLocal, haveLocal>>
      BY <1>1 DEF Change
    <2>2. CASE net' = net /\ moved' = moved
      <3>1. LastLocalIn(Here)' <=> LastLocalIn(Here)
        BY <2>1, <2>2 DEF LastLocalIn, Here, ListsOf, BoxList
      <3> QED BY <2>1, <2>2, <3>1 DEF BoxOk, Here, ListsOf, BoxList
    <2>3. CASE moved' = (pc # "off")
      BY <2>1, <2>3 DEF BoxOk
    <2> QED BY <1>1, <2>2, <2>3 DEF Change
  <1>2. CASE Load \/ Save
    <2>1. pc' \in {"save", "start"} /\ pc \in Early
      BY <1>2 DEF Load, Save
    <2> QED BY <2>1, <1>2 DEF Load, Save, BoxOk
  <1>3. CASE Probe
    <2>1. found' \in Here
      <3>1. {OtherPage[net]} \cup (IF net \in Announced THEN {} ELSE BoxAnswers(net))
              \in SUBSET {BoxPage[net], OtherPage[net]}
        BY DEF BoxAnswers
      <3>2. found' \in ProbeCandidates({OtherPage[net]} \cup IF net \in Announced THEN {} ELSE BoxAnswers(net))
        BY <1>3 DEF Probe
      <3> QED BY <3>1, <3>2, CandidatesHere DEF Types
    <2>2. pc' \in {"ssdp", "report"} /\ discover' /\ Here' = Here
      BY <1>3 DEF Probe, Here, ListsOf, BoxList
    <2> QED BY <2>1, <2>2 DEF BoxOk
  <1>4. CASE ProbeAnnounced
    <2>1. found' \in Here
      <3>1. BoxAnswers(net) \in SUBSET {BoxPage[net], OtherPage[net]}
        BY DEF BoxAnswers
      <3> QED BY <3>1, <1>4, CandidatesHere DEF ProbeAnnounced, Types
    <2>2. pc' = "report" /\ discover' /\ Here' = Here
      BY <1>4 DEF ProbeAnnounced, Here, ListsOf, BoxList, BoxOk
    <2> QED BY <2>1, <2>2 DEF BoxOk
  <1>5. CASE SkipProbe
    <2>1. /\ UNCHANGED <<net, discover, moved, want, found, out, dropped, uiLocal, haveLocal>>
          /\ pc' \in {"sign", "wait"}
      BY <1>5 DEF SkipProbe, AfterDiscovery
    <2>2. LastLocalIn(Here)' <=> LastLocalIn(Here)
      BY <2>1 DEF LastLocalIn, Here, ListsOf, BoxList
    <2>3. ~moved /\ ~dropped => LastLocalIn(Here)
      <3>1. CASE ~haveLocal
        BY <3>1, NoneIsHere
      <3>2. CASE haveLocal
        BY <3>2, <1>5 DEF SkipProbe, BoxOk
      <3> QED BY <3>1, <3>2
    <2> QED BY <2>1, <2>2, <2>3 DEF BoxOk
  <1>6. CASE Report
    <2>1. /\ UNCHANGED <<net, discover, moved, want, found, uiLocal>> /\ discover
          /\ pc' \in {"sign", "wait"} /\ Here' = Here
      BY <1>6 DEF Report, AfterDiscovery, BoxOk, Here, ListsOf, BoxList
    <2>2. ASSUME ~moved', ~dropped' PROVE LastLocalIn(Here)'
      <3>0. found \in Findable /\ <<>> \in Findable /\ <<>> \in Here /\ found \in Here
        BY <1>6, <2>1, <2>2 DEF Types, Findable, Here, BoxOk, Report
      <3>1. CASE Send(Local(found))
        <4>1. PICK l : l = found
          OBVIOUS
        <4> QED BY <4>1, <3>0, <3>1, <2>1, <2>2, HereSent
      <3>2. CASE Send(Local(<<>>))
        BY <3>0, <3>2, <2>1, <2>2, HereSent
      <3>3. CASE ~haveLocal /\ UNCHANGED sent
        <4>1. LastLocalIn(Here)
          BY <3>3, <2>2, NoneIsHere
        <4> QED BY <4>1, <3>3, <2>1 DEF LastLocalIn
      <3> QED BY <3>1, <3>2, <3>3, <1>6 DEF Report
    <2> QED BY <2>1, <2>2 DEF BoxOk
  <1>7. CASE Sign
    <2>1. UNCHANGED <<net, discover, moved, want, found, out, dropped, uiLocal, haveLocal>>
      BY <1>7 DEF Sign
    <2>2. LastLocalIn(Here)' <=> LastLocalIn(Here)
      BY <2>1 DEF LastLocalIn, Here, ListsOf, BoxList
    <2> QED BY <1>7, <2>1, <2>2 DEF Sign, BoxOk
  <1>8. CASE Fetch
    <2>1. UNCHANGED <<net, discover, moved, want, found, out, dropped, uiLocal, haveLocal>>
      BY <1>8 DEF Fetch
    <2>2. LastLocalIn(Here)' <=> LastLocalIn(Here)
      BY <2>1 DEF LastLocalIn, Here, ListsOf, BoxList
    <2>3. pc = "fetch" /\ pc' \in {"cache", "probe"}
      BY <1>8 DEF Fetch
    <2> QED BY <2>1, <2>2, <2>3 DEF BoxOk
  <1>9. CASE Cache
    <2>1. UNCHANGED <<net, discover, moved, want, found, haveLocal>> /\ pc = "cache" /\ pc' = "probe"
      BY <1>9 DEF Cache
    <2>2. ASSUME ~moved', ~dropped' PROVE want'.local \/ LastLocalIn(Here)'
      <3>1. ~dropped
        BY <1>9, <2>2, SendPublic
      <3>2. LastLocalIn(Here)' <=> LastLocalIn(Here)
        <4>1. \A lists : LastLocalIn(lists)' <=> LastLocalIn(lists)
          BY <1>9, <2>2, SendPublic
        <4> QED BY <4>1, <2>1, HereKept
      <3> QED BY <2>1, <2>2, <3>1, <3>2 DEF BoxOk
    <2> QED BY <2>1, <2>2 DEF BoxOk
  <1>10. ASSUME NEW duePublic \in BOOLEAN, NEW dueLocal \in BOOLEAN, Tick(duePublic, dueLocal)
         PROVE  BoxOk'
    <2>1. /\ UNCHANGED <<net, discover, found, out, dropped, uiLocal, haveLocal>>
          /\ pc = "wait" /\ pc' = "fetch" /\ moved' = (moved /\ net = sig)
          /\ want' = Wanted(net # sig, duePublic, dueLocal)
      BY <1>10 DEF Tick
    <2>2. LastLocalIn(Here)' <=> LastLocalIn(Here)
      BY <2>1 DEF LastLocalIn, Here, ListsOf, BoxList
    <2>3. net # sig => want'.local
      BY <2>1 DEF Wanted
    <2>4. ~moved' /\ net = sig => ~moved
      BY <2>1
    <2>5. ASSUME ~moved', ~dropped' PROVE want'.local \/ LastLocalIn(Here)'
      <3>1. CASE net # sig
        BY <3>1, <2>3
      <3>2. CASE net = sig
        BY <3>2, <2>1, <2>2, <2>4, <2>5 DEF BoxOk
      <3> QED BY <3>1, <3>2
    <2> QED BY <2>1, <2>5 DEF BoxOk
  <1>11. CASE Receive
    <2>1. /\ UNCHANGED <<net, discover, pc, moved, want, found, dropped, haveLocal>>
          /\ out # <<>>
      BY <1>11 DEF Receive
    <2>2. LastLocalIn(Here)' <=> LastLocalIn(Here)
      <3>1. \A lists : LastLocalIn(lists)' <=> LastLocalIn(lists)
        BY <1>11, LastAfterReceive DEF Types
      <3> QED BY <3>1, <2>1, HereKept
    <2>3. Here' = Here /\ pc \notin Early
      BY <2>1 DEF Here, ListsOf, BoxList, BoxOk
    <2> QED BY <2>1, <2>2, <2>3 DEF BoxOk
  <1>12. CASE Stop
    <2>1. pc' = "off" /\ out' = <<>> /\ uiLocal' = <<>> /\ haveLocal' = FALSE
      BY <1>12 DEF Stop
    <2> QED BY <2>1 DEF BoxOk
  <1>13. CASE Start
    <2>1. pc = "off" /\ pc' = "load" /\ UNCHANGED <<discover, out, uiLocal, haveLocal>>
      BY <1>13 DEF Start
    <2> QED BY <2>1 DEF BoxOk
  <1>14. CASE UNCHANGED vars
    <2>1. /\ UNCHANGED <<net, discover, pc, moved, want, found, out, dropped, uiLocal, haveLocal>>
      BY <1>14 DEF vars
    <2>2. LastLocalIn(Here)' <=> LastLocalIn(Here)
      BY <2>1 DEF LastLocalIn, Here, ListsOf, BoxList
    <2>3. Here' = Here
      BY <2>1 DEF Here, ListsOf, BoxList
    <2> QED BY <2>1, <2>2, <2>3 DEF BoxOk
  <1> QED BY <1>1, <1>2, <1>3, <1>4, <1>5, <1>6, <1>7, <1>8, <1>9, <1>10, <1>11,
             <1>12, <1>13, <1>14 DEF Next, Watcher

-----------------------------------------------------------------------------
(* The cached list.                                                        *)

IsPublic(i) == "public" \in DOMAIN out[i]

(* What is cached was looked at, and no empty list is sent.                *)
ListOk ==
    /\ pc \in Early => out = <<>>
    /\ \A i \in DOMAIN out : IsPublic(i) => out[i].public # <<>>
    /\ pc = "cache" => ParseM3U(fetched) # <<>>
    /\ ListSurvives

(* A write keeps a list that is cached, or what is kept is a list again.   *)
LEMMA CacheKeeps ==
    ASSUME NEW unspoilt \in BOOLEAN, CacheM3U(unspoilt), unspoilt => Good(fetched),
           kept => Good(cache)
    PROVE  kept' => Good(cache)'
  <1>1. CASE cache' = fetched /\ kept' = unspoilt
    BY <1>1 DEF Good
  <1>2. CASE UNCHANGED cache /\ kept' = (kept /\ unspoilt)
    BY <1>2 DEF Good
  <1>3. CASE kept' = FALSE
    BY <1>3
  <1> QED BY <1>1, <1>2, <1>3 DEF CacheM3U

(* A list that is sent is under way; the others stay so.                   *)
LEMMA SendKeeps ==
    ASSUME out \in Seq(Update), NEW u \in Update, Send(u),
           \A i \in DOMAIN out : IsPublic(i) => out[i].public # <<>>,
           "public" \in DOMAIN u => u.public # <<>>
    PROVE  /\ \A i \in DOMAIN out' : IsPublic(i)' => out'[i].public # <<>>
           /\ ListUnderWay => ListUnderWay'
           /\ "public" \notin DOMAIN u => (ListUnderWay' <=> ListUnderWay)
           /\ "public" \in DOMAIN u => ListUnderWay' \/ dropped'
  <1>1. CASE out' = Append(out, u)
    <2>1. /\ DOMAIN out = 1..Len(out) /\ Len(out) \in Nat
          /\ DOMAIN out' = DOMAIN out \cup {Len(out) + 1}
          /\ \A i \in DOMAIN out : out'[i] = out[i]
          /\ out'[Len(out) + 1] = u
      BY <1>1
    <2> QED BY <2>1 DEF ListUnderWay, IsPublic
  <1>2. CASE out' = out /\ dropped' = TRUE
    BY <1>2 DEF ListUnderWay, IsPublic
  <1> QED BY <1>1, <1>2 DEF Send

(* A list that is applied is shown; the others stay under way.             *)
LEMMA ReceiveKeeps ==
    ASSUME out \in Seq(Update), Receive,
           \A i \in DOMAIN out : IsPublic(i) => out[i].public # <<>>
    PROVE  /\ \A i \in DOMAIN out' : IsPublic(i)' => out'[i].public # <<>>
           /\ ListShown' <=> ListShown
  <1>1. /\ 1 \in DOMAIN out
        /\ \A i \in DOMAIN out' : i + 1 \in DOMAIN out \ {1} /\ out'[i] = out[i + 1]
        /\ \A i \in DOMAIN out \ {1} : \E j \in DOMAIN out' : i = j + 1
    BY LastMovesUp DEF Receive
  <1>2. \A i \in DOMAIN out' : IsPublic(i)' <=> IsPublic(i + 1)
    BY <1>1 DEF IsPublic
  <1>3. \A i \in DOMAIN out' : IsPublic(i)' => out'[i].public # <<>>
    BY <1>1, <1>2
  <1>4. Head(out) = out[1]
    BY <1>1
  <1>5. CASE IsPublic(1)
    <2>1. uiPublic' # <<>>
      BY <1>1, <1>4, <1>5 DEF Receive, IsPublic
    <2>2. ListUnderWay
      BY <1>1, <1>5 DEF ListUnderWay, IsPublic
    <2> QED BY <2>1, <2>2, <1>3 DEF ListShown
  <1>6. CASE ~IsPublic(1)
    <2>1. uiPublic' = uiPublic
      BY <1>4, <1>6 DEF Receive, IsPublic
    <2>2. ASSUME NEW i \in DOMAIN out, IsPublic(i) PROVE ListUnderWay'
      <3>1. PICK k \in DOMAIN out' : i = k + 1
        BY <2>2, <1>1, <1>6
      <3> QED BY <3>1, <2>2, <1>2 DEF ListUnderWay, IsPublic
    <2>3. ASSUME NEW i \in DOMAIN out', IsPublic(i)' PROVE ListUnderWay
      BY <2>3, <1>1, <1>2 DEF ListUnderWay, IsPublic
    <2>4. ListUnderWay' <=> ListUnderWay
      BY <2>2, <2>3 DEF ListUnderWay, IsPublic
    <2> QED BY <2>1, <2>4, <1>3 DEF ListShown
  <1> QED BY <1>5, <1>6

(* Every step keeps the cached list, and a list on its way to the screen.  *)
LEMMA ListStep ==
    ASSUME Types, ListOk, [Next]_vars
    PROVE  ListOk'
  <1> USE DEF env, watch, beliefs, disk, sent, shown
  <1>q. ASSUME UNCHANGED <<out, dropped, uiPublic, havePublic, disk>>,
               Running' => Running, pc' \in Early => pc \in Early,
               pc' = "cache" => ParseM3U(fetched') # <<>>
        PROVE  ListOk'
    <2>1. Good(cache)' <=> Good(cache)
      BY <1>q DEF Good
    <2>2. ListShown' <=> ListShown
      BY <1>q DEF ListShown, ListUnderWay
    <2>3. \A i \in DOMAIN out' : IsPublic(i)' => out'[i].public # <<>>
      BY <1>q DEF ListOk, IsPublic
    <2>4. ListSurvives'
      BY <1>q, <2>1, <2>2 DEF ListOk, ListSurvives
    <2> QED BY <1>q, <2>3, <2>4 DEF ListOk
  <1>s. ASSUME out' = <<>>, havePublic' <=> uiPublic' # <<>>, pc' # "cache",
               kept' => Good(cache)' /\ havePublic'
        PROVE  ListOk'
    <2>1. ListShown' <=> uiPublic' # <<>>
      BY <1>s DEF ListShown, ListUnderWay
    <2>2. \A i \in DOMAIN out' : IsPublic(i)' => out'[i].public # <<>>
      BY <1>s
    <2> QED BY <1>s, <2>1, <2>2 DEF ListOk, ListSurvives
  <1>1. CASE Change
    BY <1>1, <1>q DEF Change, ListOk, Running, Early
  <1>2. CASE Load
    <2>1. CASE page # Down
      BY <1>2, <2>1, <1>q DEF Load, Running, Early
    <2>2. CASE page = Down
      <3>1. /\ UNCHANGED <<out, cache, kept>> /\ pc' = "start" /\ out = <<>>
            /\ uiPublic' = ParseM3U(cache) /\ (havePublic' <=> uiPublic' # <<>>)
        BY <1>2, <2>2 DEF Load, ListOk, Early
      <3>2. kept' => Good(cache)' /\ havePublic'
        BY <3>1 DEF ListOk, ListSurvives, Good
      <3> QED BY <3>1, <3>2, <1>s
    <2> QED BY <2>1, <2>2
  <1>3. CASE Save
    <2>1. /\ out' = out /\ out = <<>> /\ pc' = "start" /\ CacheM3U(Good(fetched))
          /\ uiPublic' = ParseM3U(fetched) /\ (havePublic' <=> uiPublic' # <<>>)
      BY <1>3 DEF Save, ListOk, Early
    <2>2. Good(fetched) \in BOOLEAN /\ (kept => Good(cache))
      BY DEF Good, ListOk, ListSurvives
    <2>3. kept' => Good(cache)'
      BY <2>1, <2>2, CacheKeeps
    <2>4. kept' => Good(fetched)
      BY <2>1 DEF CacheM3U
    <2>5. kept' => havePublic'
      BY <2>1, <2>4 DEF Good
    <2> QED BY <2>1, <2>3, <2>5, <1>s
  <1>4. CASE Probe
    BY <1>4, <1>q DEF Probe, Running, Early
  <1>5. CASE ProbeAnnounced
    BY <1>5, <1>q DEF ProbeAnnounced, Running, Early
  <1>6. CASE SkipProbe
    BY <1>6, <1>q DEF SkipProbe, AfterDiscovery, Running, Early
  <1>7. CASE Report
    <2>1. /\ UNCHANGED <<disk, havePublic, uiPublic>> /\ Running
          /\ pc' # "cache" /\ pc' \notin Early
      BY <1>7 DEF Report, AfterDiscovery, Running, Early
    <2>2. CASE Send(Local(found)) \/ Send(Local(<<>>))
      <3>1. PICK u \in Update : Send(u) /\ "public" \notin DOMAIN u
        <4>1. /\ Local(found) \in Update /\ "public" \notin DOMAIN Local(found)
              /\ Local(<<>>) \in Update /\ "public" \notin DOMAIN Local(<<>>)
          BY DEF Types, Update, Findable, Local
        <4> QED BY <2>2, <4>1
      <3>2. /\ \A i \in DOMAIN out' : IsPublic(i)' => out'[i].public # <<>>
            /\ ListUnderWay' <=> ListUnderWay
            /\ dropped => dropped'
        BY <3>1, SendKeeps, SendTypes DEF Types, ListOk
      <3>3. (Good(cache)' <=> Good(cache)) /\ (ListShown' <=> ListShown)
        BY <2>1, <3>2 DEF Good, ListShown
      <3>4. ListSurvives'
        BY <2>1, <3>2, <3>3 DEF ListOk, ListSurvives
      <3> QED BY <2>1, <3>2, <3>4 DEF ListOk
    <2>3. CASE UNCHANGED sent
      BY <2>1, <2>3, <1>q
    <2> QED BY <1>7, <2>2, <2>3 DEF Report
  <1>8. CASE Sign
    BY <1>8, <1>q DEF Sign, Running, Early
  <1>9. CASE Fetch
    BY <1>9, <1>q DEF Fetch, Running, Early
  <1>10. CASE Cache
    <2>1. /\ pc' = "probe" /\ havePublic' = TRUE
          /\ Send(Public(ParseM3U(fetched))) /\ ParseM3U(fetched) # <<>>
          /\ CacheM3U(Good(fetched) \/ (kept /\ ParseM3U(fetched) = <<>>))
      BY <1>10 DEF Cache, ListOk
    <2>2. /\ Public(ParseM3U(fetched)) \in Update
          /\ "public" \in DOMAIN Public(ParseM3U(fetched))
          /\ Public(ParseM3U(fetched)).public # <<>>
      BY <1>10, <2>1 DEF Cache, Types, Update, Public
    <2>3. /\ \A i \in DOMAIN out' : IsPublic(i)' => out'[i].public # <<>>
          /\ ListUnderWay' \/ dropped'
      BY <2>1, <2>2, SendKeeps DEF Types, ListOk
    <2>4. kept' => Good(cache)'
      <3>1. (Good(fetched) \/ (kept /\ ParseM3U(fetched) = <<>>)) = Good(fetched)
        BY <2>1 DEF Good
      <3>2. Good(fetched) \in BOOLEAN /\ (kept => Good(cache)) /\ CacheM3U(Good(fetched))
        BY <2>1, <3>1 DEF Good, ListOk, ListSurvives
      <3> QED BY <3>2, CacheKeeps
    <2> QED BY <2>1, <2>3, <2>4 DEF ListOk, ListSurvives, ListShown, Early
  <1>11. ASSUME NEW duePublic \in BOOLEAN, NEW dueLocal \in BOOLEAN, Tick(duePublic, dueLocal)
         PROVE  ListOk'
    BY <1>11, <1>q DEF Tick, Running, Early
  <1>12. CASE Receive
    <2>1. UNCHANGED <<pc, fetched, disk, dropped, havePublic>> /\ pc \notin Early
      BY <1>12 DEF Receive, ListOk
    <2>2. /\ \A i \in DOMAIN out' : IsPublic(i)' => out'[i].public # <<>>
          /\ ListShown' <=> ListShown
      BY <1>12, ReceiveKeeps DEF Types, ListOk
    <2>3. (Good(cache)' <=> Good(cache)) /\ (Running' <=> Running)
      BY <2>1 DEF Good, Running
    <2>4. ListSurvives'
      BY <2>1, <2>2, <2>3 DEF ListOk, ListSurvives
    <2> QED BY <2>1, <2>2, <2>4 DEF ListOk
  <1>13. CASE Stop
    <2>1. pc' = "off" /\ out' = <<>>
      BY <1>13 DEF Stop
    <2>2. kept' => Good(cache)'
      <3>1. kept' => kept /\ cache' = cache
        BY <1>13 DEF Stop
      <3> QED BY <3>1 DEF ListOk, ListSurvives, Good
    <2>3. ~Running'
      BY <2>1 DEF Running
    <2>4. ListSurvives'
      BY <2>2, <2>3 DEF ListSurvives
    <2>5. \A i \in DOMAIN out' : IsPublic(i)' => out'[i].public # <<>>
      BY <2>1
    <2> QED BY <2>1, <2>4, <2>5 DEF ListOk
  <1>14. CASE Start
    BY <1>14, <1>q DEF Start, Running, Early
  <1>15. CASE UNCHANGED vars
    BY <1>15, <1>q DEF vars, ListOk, Running
  <1> QED BY <1>1, <1>2, <1>3, <1>4, <1>5, <1>6, <1>7, <1>8, <1>9, <1>10, <1>11,
             <1>12, <1>13, <1>14, <1>15 DEF Next, Watcher

-----------------------------------------------------------------------------
(* The first start satisfies every invariant.                              *)
LEMMA InitInv == Init => Types /\ ShownAsSent /\ BoxOk /\ ListOk
  <1> SUFFICES ASSUME Init PROVE Types /\ ShownAsSent /\ BoxOk /\ ListOk
    OBVIOUS
  <1>1. /\ out = <<>> /\ uiLocal = <<>> /\ haveLocal = FALSE /\ kept = FALSE
        /\ pc = "load" /\ found = <<>> /\ fetched = <<>>
    BY DEF Init
  <1>2. Types
    BY <1>1 DEF Init, Types, Findable
  <1>3. ShownAsSent
    BY <1>1 DEF ShownAsSent, LastLocalIn
  <1>4. BoxOk
    BY <1>1 DEF BoxOk
  <1>5. ListOk
    BY <1>1 DEF ListOk, ListSurvives, Running
  <1> QED BY <1>2, <1>3, <1>4, <1>5

(* While no update is dropped, the goroutine remembers the box exactly as  *)
(* the screen shows or will show it.                                       *)
THEOREM BeliefsMatch == Spec => []ShownAsSent
  BY InitInv, TypeStep, SentStep, PTL DEF Spec

(* No interleaving of moves, probes and updates leaves channels of another *)
(* network on the screen, once a tick saw the last move: whatever answers  *)
(* there was asked after it.                                               *)
THEOREM OwnNetworkOnly == Spec => []NoStaleBox
  <1>1. Types /\ ShownAsSent /\ BoxOk /\ [Next]_vars => BoxOk'
    BY BoxStep
  <1>2. BoxOk => NoStaleBox
    <2> SUFFICES ASSUME BoxOk, pc = "wait", ~moved, out = <<>>, ~dropped
                 PROVE  uiLocal \in {<<>>} \cup ListsOf(net)
      BY DEF NoStaleBox
    <2>1. LastLocalIn(Here)
      BY DEF BoxOk
    <2> QED BY <2>1 DEF LastLocalIn, Here
  <1> QED BY InitInv, TypeStep, SentStep, <1>1, <1>2, PTL DEF Spec

(* While no update is dropped, the goroutine goes on asking for the public *)
(* list exactly as long as none is shown or about to be; and a list that   *)
(* was cached in full stays there and is shown by every start, until a     *)
(* write is cut short, a start is served a page without a list, or a page  *)
(* that only looks like a list is cached: outages, moves, failed fetches,  *)
(* pages without channels and restarts by themselves do not lose it.       *)
THEOREM CachedListStays == Spec => []ListSurvives
  <1>1. Types /\ ListOk /\ [Next]_vars => ListOk'
    BY ListStep
  <1>2. ListOk => ListSurvives
    BY DEF ListOk
  <1> QED BY InitInv, TypeStep, <1>1, <1>2, PTL DEF Spec

-----------------------------------------------------------------------------
(* The parser.                                                             *)

Line == [kind : {"blank", "header", "directive", "overlong", "extinf", "address"},
         text : STRING]

Fresh == [channels |-> <<>>, pending |-> ""]

(* The equation of the loop over the first n lines of a page.              *)
Scanning(f, p, n) ==
    f = [i \in 0..n |-> IF i = 0 THEN Fresh ELSE ReadLine(f[i - 1], p[i])]

(* The equation at one line.                                               *)
LEMMA ScanningAt ==
    ASSUME NEW f, NEW p, NEW n, Scanning(f, p, n), NEW i \in 0..n
    PROVE  f[i] = IF i = 0 THEN Fresh ELSE ReadLine(f[i - 1], p[i])
  <1>1. PICK g : g = [j \in 0..n |-> IF j = 0 THEN Fresh ELSE ReadLine(f[j - 1], p[j])]
    OBVIOUS
  <1>2. g[i] = IF i = 0 THEN Fresh ELSE ReadLine(f[i - 1], p[i])
    BY <1>1
  <1>3. f = g
    BY <1>1 DEF Scanning
  <1> QED BY <1>2, <1>3

(* It has a solution.                                                      *)
LEMMA ScanningExists ==
    ASSUME NEW p, NEW n \in Nat
    PROVE  \E f : Scanning(f, p, n)
  <1> DEFINE S == {m \in 0..n : \E f : Scanning(f, p, m)}
  <1>1. 0 \in S
    <2> DEFINE f == [i \in 0..0 |-> Fresh]
    <2>1. f = [i \in 0..0 |-> IF i = 0 THEN Fresh ELSE ReadLine(f[i - 1], p[i])]
      OBVIOUS
    <2>2. Scanning(f, p, 0)
      BY <2>1 DEF Scanning
    <2> HIDE DEF f
    <2>3. 0 \in 0..n
      OBVIOUS
    <2> QED BY <2>2, <2>3
  <1>2. ASSUME NEW m \in 0..(n - 1), m \in S PROVE m + 1 \in S
    <2>1. PICK f : Scanning(f, p, m)
      BY <1>2
    <2> DEFINE g == [i \in 0..(m + 1) |->
                        IF i = m + 1 THEN ReadLine(f[m], p[m + 1]) ELSE f[i]]
    <2>2. ASSUME NEW i \in 0..(m + 1)
          PROVE  g[i] = IF i = 0 THEN Fresh ELSE ReadLine(g[i - 1], p[i])
      <3>1. CASE i = m + 1
        <4>1. m \in 0..(m + 1) /\ m # m + 1 /\ i - 1 = m /\ i # 0
          BY <3>1
        <4>2. g[i] = ReadLine(f[m], p[m + 1]) /\ g[m] = f[m]
          BY <3>1, <4>1
        <4> QED BY <3>1, <4>1, <4>2
      <3>2. CASE i # m + 1
        <4>1. i \in 0..m /\ (i # 0 => i - 1 \in 0..(m + 1) /\ i - 1 # m + 1)
          BY <3>2
        <4>2. g[i] = f[i] /\ (i # 0 => g[i - 1] = f[i - 1])
          BY <3>2, <4>1
        <4>3. f[i] = IF i = 0 THEN Fresh ELSE ReadLine(f[i - 1], p[i])
          BY <2>1, <4>1, ScanningAt
        <4> QED BY <4>2, <4>3
      <3> QED BY <3>1, <3>2
    <2>3. Scanning(g, p, m + 1)
      BY <2>2 DEF Scanning
    <2> QED BY <2>3
  <1> HIDE DEF S
  <1>3. 0..n \subseteq S
    BY <1>1, <1>2, IntervalInduction
  <1> QED BY <1>3 DEF S

(* The loop reads one line after the other.                                *)
LEMMA ScanStep ==
    ASSUME NEW p, Len(p) \in Nat
    PROVE  /\ Scan(p)[0] = Fresh
           /\ \A n \in 0..(Len(p) - 1) :
                Scan(p)[n + 1] = ReadLine(Scan(p)[n], p[n + 1])
  <1> DEFINE f == CHOOSE g : g = [n \in 0..Len(p) |->
                        IF n = 0 THEN [channels |-> <<>>, pending |-> ""]
                        ELSE ReadLine(g[n - 1], p[n])]
  <1>1. Scanning(f, p, Len(p))
    BY ScanningExists DEF Scanning, Fresh
  <1>2. Scan(p) = f
    BY DEF Scan
  <1> HIDE DEF f
  <1>3. \A i \in 0..Len(p) :
           f[i] = IF i = 0 THEN Fresh ELSE ReadLine(f[i - 1], p[i])
    BY <1>1, ScanningAt
  <1>4. ASSUME NEW n \in 0..(Len(p) - 1)
        PROVE  f[n + 1] = ReadLine(f[n], p[n + 1])
    <2>1. n + 1 \in 0..Len(p) /\ n + 1 # 0 /\ (n + 1) - 1 = n
      OBVIOUS
    <2> QED BY <1>3, <2>1
  <1>5. f[0] = Fresh
    BY <1>3
  <1> QED BY <1>2, <1>4, <1>5

(* With an address at line n + 1 there is one address more, and the new    *)
(* one is the last so far.                                                 *)
LEMMA RankStep ==
    ASSUME NEW I, I \subseteq Nat, IsFiniteSet(I), NEW n \in Nat
    PROVE  /\ Rank(I, n) \in Nat
           /\ n + 1 \in I => /\ Rank(I, n + 1) = Rank(I, n) + 1
                             /\ Rank(I, n) + 1 \in 1..Cardinality(I)
                             /\ Nth(I, Rank(I, n) + 1) = n + 1
           /\ n + 1 \notin I => Rank(I, n + 1) = Rank(I, n)
  <1> DEFINE upTo(m) == {j \in I : j <= m}
  <1>1. \A m : IsFiniteSet(upTo(m)) /\ Cardinality(upTo(m)) \in Nat
    <2>1. \A m : upTo(m) \subseteq I
      OBVIOUS
    <2> QED BY <2>1, FS_Subset, FS_CardinalityType
  <1>0. \A j \in I : j \in Nat
    OBVIOUS
  <1>2. n + 1 \notin upTo(n)
    OBVIOUS
  <1>3. CASE n + 1 \in I
    <2>1. upTo(n + 1) = upTo(n) \cup {n + 1}
      <3>1. \A j \in I : j <= n + 1 <=> j <= n \/ j = n + 1
        BY <1>0
      <3> QED BY <1>3, <3>1
    <2>2. Cardinality(upTo(n + 1)) = Cardinality(upTo(n)) + 1
      <3>1. \A T, x : IsFiniteSet(T) /\ x \notin T => Cardinality(T \cup {x}) = Cardinality(T) + 1
        BY FS_AddElement
      <3> HIDE DEF upTo
      <3> QED BY <1>1, <1>2, <2>1, <3>1
    <2>3. Rank(I, n + 1) = Rank(I, n) + 1
      BY <2>2 DEF Rank
    <2>4. Rank(I, n + 1) \in 1..Cardinality(I)
      BY <1>3, RankFacts
    <2>5. \A i \in I : Rank(I, i) = Rank(I, n + 1) => i = n + 1
      <3>1. \A i, j \in I : i < j => Rank(I, i) < Rank(I, j)
        BY RankFacts, Zenon
      <3>2. \A i \in I : Rank(I, i) \in 1..Cardinality(I)
        BY RankFacts, Zenon
      <3>3. \A i \in I : Rank(I, i) \in Int
        BY <3>2
      <3> QED BY <1>0, <1>3, <3>1, <3>3
    <2>6. \E i \in I : Rank(I, i) = Rank(I, n + 1)
      BY <1>3
    <2>7. Nth(I, Rank(I, n + 1)) = n + 1
      BY <2>5, <2>6 DEF Nth
    <2> QED BY <1>1, <1>3, <2>3, <2>4, <2>7 DEF Rank
  <1>4. CASE n + 1 \notin I
    <2>1. upTo(n + 1) = upTo(n)
      <3>1. \A j \in I : j <= n + 1 <=> j <= n
        BY <1>0, <1>4
      <3> QED BY <3>1
    <2> QED BY <1>1, <1>4, <2>1 DEF Rank
  <1> QED BY <1>3, <1>4

(* The name a line leaves for the address to come.                         *)
LEMMA NameStep ==
    ASSUME NEW p \in Seq(Line), NEW n \in 0..(Len(p) - 1)
    PROVE  /\ NameBefore(p, 1) = ""
           /\ p[n + 1].kind = "address" => NameBefore(p, n + 2) = ""
           /\ p[n + 1].kind = "extinf" => NameBefore(p, n + 2) = p[n + 1].text
           /\ p[n + 1].kind \notin {"address", "extinf"} =>
                 NameBefore(p, n + 2) = NameBefore(p, n + 1)
  <1> DEFINE names(i) == {j \in 1..(i - 1) : /\ p[j].kind = "extinf"
                                             /\ \A k \in j..(i - 1) : p[k].kind # "address"}
  <1>1. \A i : NameBefore(p, i) = IF names(i) = {} THEN "" ELSE p[Max(names(i))].text
    BY DEF NameBefore
  <1>2. names(1) = {}
    OBVIOUS
  <1>3. p[n + 1].kind = "address" => names(n + 2) = {}
    <2>1. ASSUME p[n + 1].kind = "address", NEW j \in 1..((n + 2) - 1)
          PROVE  n + 1 \in j..((n + 2) - 1)
      OBVIOUS
    <2> QED BY <2>1
  <1>4. p[n + 1].kind = "extinf" =>
           /\ n + 1 \in names(n + 2)
           /\ \A j \in names(n + 2) : j \in Nat /\ n + 1 >= j
    <2>1. (n + 2) - 1 = n + 1 /\ n + 1 \in 1..((n + 2) - 1)
      OBVIOUS
    <2>2. \A k \in (n + 1)..((n + 2) - 1) : k = n + 1
      OBVIOUS
    <2> QED BY <2>1, <2>2
  <1>5. p[n + 1].kind \notin {"address", "extinf"} => names(n + 2) = names(n + 1)
    <2> SUFFICES ASSUME p[n + 1].kind \notin {"address", "extinf"}
                 PROVE  names(n + 2) = names(n + 1)
      OBVIOUS
    <2>1. (n + 2) - 1 = n + 1 /\ (n + 1) - 1 = n
      OBVIOUS
    <2>2. \A j : j \in 1..(n + 1) /\ p[j].kind = "extinf" <=> j \in 1..n /\ p[j].kind = "extinf"
      OBVIOUS
    <2>3. \A j \in 1..n : \A k : k \in j..(n + 1) <=> k \in j..n \/ k = n + 1
      OBVIOUS
    <2>4. \A j \in 1..n : (\A k \in j..(n + 1) : p[k].kind # "address")
                            <=> \A k \in j..n : p[k].kind # "address"
      BY <2>3
    <2>5. \A j : j \in names(n + 2) <=> j \in names(n + 1)
      BY <2>1, <2>2, <2>4
    <2> QED BY <2>5
  <1> HIDE DEF names
  <1>6. p[n + 1].kind = "extinf" => Max(names(n + 2)) = n + 1
    BY <1>4 DEF Max
  <1> QED BY <1>1, <1>2, <1>3, <1>4, <1>5, <1>6

(* After n lines the loop holds what these lines mean.                     *)
LEMMA ScanMeans ==
    ASSUME NEW p \in Seq(Line), NEW n \in 0..Len(p)
    PROVE  /\ Scan(p)[n].pending = NameBefore(p, n + 1)
           /\ Scan(p)[n].channels =
                [k \in 1..Rank(Addresses(p), n) |->
                    Channel(NameBefore(p, Nth(Addresses(p), k)), p[Nth(Addresses(p), k)].text)]
  <1> DEFINE A == Addresses(p)
             M(k) == Channel(NameBefore(p, Nth(A, k)), p[Nth(A, k)].text)
             Upto(m) == [k \in 1..m |-> M(k)]
             Held(m) == [channels |-> Upto(Rank(A, m)), pending |-> NameBefore(p, m + 1)]
             S == {m \in 0..Len(p) : Scan(p)[m] = Held(m)}
  <1>1. A \subseteq 1..Len(p) /\ A \subseteq Nat /\ IsFiniteSet(A)
    <2>1. A \subseteq 1..Len(p)
      BY DEF Addresses
    <2>2. IsFiniteSet(1..Len(p))
      BY FS_Interval
    <2> QED BY <2>1, <2>2, FS_Subset
  <1>2. \A i \in 1..Len(p) : i \in A <=> p[i].kind = "address"
    BY DEF Addresses
  <1>3. 0 \in S
    <2>1. {j \in A : j <= 0} = {}
      BY <1>1
    <2>2. Rank(A, 0) = 0
      BY <2>1, FS_EmptySet DEF Rank
    <2>3. Upto(0) = <<>>
      OBVIOUS
    <2>4. NameBefore(p, 1) = ""
      <3>1. {j \in 1..(1 - 1) : /\ p[j].kind = "extinf"
                                /\ \A k \in j..(1 - 1) : p[k].kind # "address"} = {}
        OBVIOUS
      <3> QED BY <3>1 DEF NameBefore
    <2>5. Len(p) \in Nat
      OBVIOUS
    <2>6. Scan(p)[0] = [channels |-> <<>>, pending |-> ""]
      BY <2>5, ScanStep DEF Fresh
    <2>7. Held(0) = [channels |-> <<>>, pending |-> ""]
      <3>1. Held(0) = [channels |-> Upto(Rank(A, 0)), pending |-> NameBefore(p, 1)]
        OBVIOUS
      <3> QED BY <2>2, <2>3, <2>4, <3>1
    <2>8. 0 \in 0..Len(p)
      BY <2>5
    <2> HIDE DEF Held
    <2> QED BY <2>6, <2>7, <2>8
  <1>4. ASSUME NEW m \in 0..(Len(p) - 1), Scan(p)[m] = Held(m)
        PROVE  Scan(p)[m + 1] = Held(m + 1)
    <2> DEFINE line == p[m + 1]
    <2>1. Scan(p)[m + 1] = ReadLine(Held(m), line)
      <3>1. Len(p) \in Nat
        OBVIOUS
      <3>2. Scan(p)[m + 1] = ReadLine(Scan(p)[m], line)
        BY <3>1, ScanStep
      <3> HIDE DEF Held
      <3> QED BY <1>4, <3>2
    <2>2. (m + 1) + 1 = m + 2 /\ m \in Nat /\ m + 1 \in 1..Len(p)
      OBVIOUS
    <2>3. /\ Rank(A, m) \in Nat
          /\ m + 1 \in A => /\ Rank(A, m + 1) = Rank(A, m) + 1
                            /\ Nth(A, Rank(A, m) + 1) = m + 1
          /\ m + 1 \notin A => Rank(A, m + 1) = Rank(A, m)
      BY <1>1, <2>2, RankStep
    <2> HIDE DEF A
    <2>4. CASE line.kind = "address"
      <3>1. m + 1 \in A
        BY <1>2, <2>2, <2>4
      <3>2. M(Rank(A, m) + 1) = Channel(NameBefore(p, m + 1), line.text)
        BY <2>3, <3>1
      <3>3. ASSUME NEW r \in Nat
            PROVE  Append(Upto(r), M(r + 1)) = Upto(r + 1)
        <4> DEFINE T == {M(k) : k \in 1..(r + 1)}
        <4>1. \A k \in 1..(r + 1) : M(k) \in T
          OBVIOUS
        <4> HIDE DEF T, M
        <4>2. Upto(r) \in Seq(T) /\ Len(Upto(r)) = r /\ M(r + 1) \in T
          BY <4>1
        <4>3. Append(Upto(r), M(r + 1)) \in Seq(T) /\ Upto(r + 1) \in Seq(T)
          BY <4>1, <4>2
        <4>4. Len(Append(Upto(r), M(r + 1))) = r + 1 /\ Len(Upto(r + 1)) = r + 1
          BY <4>2
        <4>5. \A k \in 1..(r + 1) : Append(Upto(r), M(r + 1))[k] = Upto(r + 1)[k]
          BY <4>2
        <4> QED BY <4>3, <4>4, <4>5
      <3>4. ReadLine(Held(m), line) =
              [channels |-> Append(Upto(Rank(A, m)), Channel(NameBefore(p, m + 1), line.text)),
               pending |-> ""]
        BY <2>4 DEF ReadLine
      <3>5. NameBefore(p, m + 2) = ""
        BY <2>4, NameStep
      <3> HIDE DEF M, Upto
      <3> QED BY <2>1, <2>2, <2>3, <3>1, <3>2, <3>3, <3>4, <3>5
    <2>5. CASE line.kind = "extinf"
      <3>1. m + 1 \notin A
        BY <1>2, <2>2, <2>5
      <3>2. ReadLine(Held(m), line) = [channels |-> Upto(Rank(A, m)), pending |-> line.text]
        BY <2>5 DEF ReadLine
      <3>3. NameBefore(p, m + 2) = line.text
        BY <2>5, NameStep
      <3> HIDE DEF Upto
      <3> QED BY <2>1, <2>2, <2>3, <3>1, <3>2, <3>3
    <2>6. CASE line.kind \notin {"address", "extinf"}
      <3>1. m + 1 \notin A
        BY <1>2, <2>2, <2>6
      <3>2. ReadLine(Held(m), line) = Held(m)
        BY <2>6 DEF ReadLine
      <3>3. NameBefore(p, m + 2) = NameBefore(p, m + 1)
        BY <2>6, NameStep
      <3> HIDE DEF Upto
      <3> QED BY <2>1, <2>2, <2>3, <3>1, <3>2, <3>3
    <2> QED BY <2>4, <2>5, <2>6
  <1>5. \A m \in 0..(Len(p) - 1) : m \in S => m + 1 \in S
    BY <1>4
  <1> HIDE DEF S
  <1>6. 0..Len(p) \subseteq S
    <2>1. 0 \in Nat /\ Len(p) \in Nat
      OBVIOUS
    <2> QED BY <1>3, <1>5, <2>1, IntervalInduction
  <1>7. Scan(p)[n] = Held(n)
    BY <1>6 DEF S
  <1> QED BY <1>7

(* However long a page is, parseM3U makes of it the channels it means:     *)
(* each address once, in order, under its own name.                        *)
THEOREM ParserReads ==
    ASSUME NEW p \in Seq(Line), \A i \in DOMAIN p : p[i].kind # "overlong"
    PROVE  ParseM3U(p) = Means(p)
  <1> DEFINE A == Addresses(p)
  <1>1. {j \in A : j <= Len(p)} = A
    BY DEF Addresses
  <1>2. Rank(A, Len(p)) = Cardinality(A)
    BY <1>1 DEF Rank
  <1>3. Len(p) \in 0..Len(p)
    OBVIOUS
  <1>4. ParseM3U(p) = Scan(p)[Len(p)].channels
    BY DEF ParseM3U
  <1> QED BY <1>2, <1>3, <1>4, ScanMeans DEF Means

(* The loop does not look ahead.                                           *)
LEMMA ScanCut ==
    ASSUME NEW p \in Seq(Line), NEW n \in 0..Len(p)
    PROVE  Scan(SubSeq(p, 1, n))[n] = Scan(p)[n]
  <1> DEFINE q == SubSeq(p, 1, n)
             S == {i \in 0..n : Scan(q)[i] = Scan(p)[i]}
  <1>1. Len(q) = n /\ n \in Nat /\ \A i \in 1..n : q[i] = p[i]
    OBVIOUS
  <1>2. 0 \in S
    BY <1>1, ScanStep
  <1>3. ASSUME NEW i \in 0..(n - 1), Scan(q)[i] = Scan(p)[i]
        PROVE  Scan(q)[i + 1] = Scan(p)[i + 1]
    <2>1. i \in 0..(Len(q) - 1) /\ i \in 0..(Len(p) - 1) /\ q[i + 1] = p[i + 1]
      BY <1>1
    <2>2. Scan(q)[i + 1] = ReadLine(Scan(q)[i], q[i + 1])
      BY <1>1, <2>1, ScanStep
    <2>3. Scan(p)[i + 1] = ReadLine(Scan(p)[i], p[i + 1])
      BY <2>1, ScanStep
    <2> QED BY <1>3, <2>1, <2>2, <2>3
  <1>4. \A i \in 0..(n - 1) : i \in S => i + 1 \in S
    BY <1>3
  <1> HIDE DEF S
  <1>5. 0..n \subseteq S
    BY <1>1, <1>2, <1>4, IntervalInduction
  <1> QED BY <1>1, <1>5 DEF S

(* A page that was cut short after a line, as cacheM3U's write in place    *)
(* can leave it, is read as the first of its channels: none under          *)
(* another's name or with another's address.                               *)
THEOREM CutPageParses ==
    ASSUME NEW p \in Seq(Line), \A i \in DOMAIN p : p[i].kind # "overlong",
           NEW n \in 0..Len(p)
    PROVE  IsPrefix(ParseM3U(SubSeq(p, 1, n)), ParseM3U(p))
  <1> DEFINE A == Addresses(p)
             M(k) == Channel(NameBefore(p, Nth(A, k)), p[Nth(A, k)].text)
             Upto(m) == [k \in 1..m |-> M(k)]
             q == SubSeq(p, 1, n)
  <1>1. q \in Seq(Line) /\ Len(q) = n /\ \A i \in DOMAIN q : q[i].kind # "overlong"
    OBVIOUS
  <1>2. ParseM3U(q) = Scan(p)[n].channels
    BY <1>1, ScanCut DEF ParseM3U
  <1>3. ParseM3U(q) = Upto(Rank(A, n))
    BY <1>2, ScanMeans
  <1>4. ParseM3U(p) = Upto(Cardinality(A))
    BY ParserReads DEF Means
  <1>5. Rank(A, n) \in Nat /\ Cardinality(A) \in Nat /\ Rank(A, n) <= Cardinality(A)
    <2>1. A \subseteq 1..Len(p)
      BY DEF Addresses
    <2>2. IsFiniteSet(1..Len(p))
      BY FS_Interval
    <2>3. IsFiniteSet(A)
      BY <2>1, <2>2, FS_Subset
    <2>4. {j \in A : j <= n} \subseteq A
      OBVIOUS
    <2> QED BY <2>3, <2>4, FS_Subset, FS_CardinalityType DEF Rank
  <1> HIDE DEF A, M
  <1>6. ASSUME NEW r \in Nat, NEW c \in Nat, r <= c
        PROVE  IsPrefix(Upto(r), Upto(c))
    <2> DEFINE T == {M(k) : k \in 1..c}
    <2>1. \A k \in 1..c : M(k) \in T
      OBVIOUS
    <2> HIDE DEF T
    <2>2. /\ Upto(r) \in Seq(T) /\ Upto(c) \in Seq(T)
          /\ Len(Upto(r)) = r /\ Len(Upto(c)) = c
      BY <1>6, <2>1
    <2>3. SubSeq(Upto(r), 1, r) = SubSeq(Upto(c), 1, r)
      <3>1. \A k \in 1..r : Upto(r)[k] = M(k) /\ Upto(c)[k] = M(k)
        BY <1>6
      <3> QED BY <1>6, <2>2, <3>1
    <2> QED BY <1>6, <2>2, <2>3 DEF IsPrefix
  <1> QED BY <1>3, <1>4, <1>5, <1>6

=============================================================================
