----------------------------- MODULE PanelProofs ------------------------------
(***************************************************************************)
(* Proofs about Panel and ChannelList, for every list, panel and search.   *)
(*                                                                         *)
(* The first half is about data: which channels and which rows             *)
(* arrangeChannels makes of two lists, and applyFilter of a search.  The   *)
(* second half is about the handlers, and uses of the first only           *)
(* ChannelsFacts, ItemsFacts, CountFact, SortFact and RowsSound.           *)
(***************************************************************************)
EXTENDS Panel, SubsequenceFacts, TLAPS

-----------------------------------------------------------------------------
(* The groups of the public list.                                          *)

(* The groups of a public list, and the place in the list of the q-th      *)
(* channel of one.                                                         *)
Groups(public) == [i \in DOMAIN Names(public) |-> Group(public, Names(public)[i])]

Spot(public, name, q) ==
    LET h == Cardinality(Homes(public, name))
    IN IF q <= h THEN Nth(Homes(public, name), q) ELSE Nth(Others(public, name), q - h)

(* A group has the channels of its category, each once; those at home come *)
(* first, and both parts are in the order of the list.                     *)
LEMMA GroupFacts ==
    ASSUME NEW public \in Seq(Channel), NEW name
    PROVE  LET g == Group(public, name)
               n == Len(g)
           IN  /\ g \in Seq(Channel) /\ DOMAIN g = 1..n /\ n \in Nat
               /\ \A q \in 1..n : /\ Spot(public, name, q) \in DOMAIN public
                                  /\ g[q] = public[Spot(public, name, q)]
                                  /\ Category(g[q]) = name
               /\ \A q, r \in 1..n : q < r =>
                    /\ Spot(public, name, q) # Spot(public, name, r)
                    /\ IsHome(g[r]) => IsHome(g[q])
                    /\ (IsHome(g[q]) <=> IsHome(g[r])) =>
                          Spot(public, name, q) < Spot(public, name, r)
               /\ \A k \in DOMAIN public : Category(public[k]) = name =>
                    \E q \in 1..n : Spot(public, name, q) = k
  <1> DEFINE H == Homes(public, name)
             F == Others(public, name)
             a == At(public, H)
             b == At(public, F)
             h == Cardinality(H)
             m == Cardinality(F)
             g == Group(public, name)
             spot(q) == Spot(public, name, q)
  <1>1. /\ H \subseteq DOMAIN public /\ F \subseteq DOMAIN public
        /\ \A k \in H : Category(public[k]) = name /\ IsHome(public[k])
        /\ \A k \in F : Category(public[k]) = name /\ ~IsHome(public[k])
        /\ \A k \in DOMAIN public : Category(public[k]) = name => k \in H \/ k \in F
    BY DEF Homes, Others
  <1>2. g = a \o b /\ \A q : spot(q) = IF q <= h THEN Nth(H, q) ELSE Nth(F, q - h)
    BY DEF Group, Spot
  <1> HIDE DEF H, F, g, spot
  <1>3. /\ IsFiniteSet(H) /\ H \subseteq Nat /\ h \in Nat
        /\ a \in Seq(Channel) /\ Len(a) = h
        /\ \A k \in 1..h : a[k] = public[Nth(H, k)] /\ Nth(H, k) \in H
    BY <1>1, AtFacts
  <1>4. /\ IsFiniteSet(F) /\ F \subseteq Nat /\ m \in Nat
        /\ b \in Seq(Channel) /\ Len(b) = m
        /\ \A k \in 1..m : b[k] = public[Nth(F, k)] /\ Nth(F, k) \in F
    BY <1>1, AtFacts
  <1>5. /\ \A k, l \in 1..h : k < l => Nth(H, k) < Nth(H, l)
        /\ \A i \in H : \E k \in 1..h : Nth(H, k) = i
    BY <1>3, NthFacts
  <1>6. /\ \A k, l \in 1..m : k < l => Nth(F, k) < Nth(F, l)
        /\ \A i \in F : \E k \in 1..m : Nth(F, k) = i
    BY <1>4, NthFacts
  <1> HIDE DEF a, b, h, m
  <1>7. g \in Seq(Channel) /\ Len(g) = h + m /\ DOMAIN g = 1..(h + m)
    <2>0. a \in Seq(Channel) /\ b \in Seq(Channel)
      BY <1>3, <1>4
    <2>1. a \o b \in Seq(Channel) /\ Len(a \o b) = Len(a) + Len(b)
      BY <2>0
    <2>2. DOMAIN (a \o b) = 1..Len(a \o b)
      BY <2>1
    <2> QED BY <1>2, <1>3, <1>4, <2>1, <2>2
  <1>8. \A q \in 1..(h + m) :
          \/ q \in 1..h /\ spot(q) = Nth(H, q) /\ spot(q) \in H /\ g[q] = public[spot(q)]
          \/ q - h \in 1..m /\ spot(q) = Nth(F, q - h) /\ spot(q) \in F /\ g[q] = public[spot(q)]
    <2> SUFFICES ASSUME NEW q \in 1..(h + m)
                 PROVE  \/ q \in 1..h /\ spot(q) = Nth(H, q) /\ spot(q) \in H /\ g[q] = public[spot(q)]
                        \/ q - h \in 1..m /\ spot(q) = Nth(F, q - h) /\ spot(q) \in F
                           /\ g[q] = public[spot(q)]
      OBVIOUS
    <2>1. CASE q <= h
      <3>1. q \in 1..h
        BY <1>3, <2>1
      <3>2. (a \o b)[q] = a[q]
        BY <1>3, <1>4, <3>1
      <3> QED BY <1>2, <1>3, <2>1, <3>1, <3>2
    <2>2. CASE ~(q <= h)
      <3>1. q - h \in 1..m
        BY <1>3, <1>4, <2>2
      <3>2. (a \o b)[q] = b[q - h]
        <4>1. a \in Seq(Channel) /\ b \in Seq(Channel) /\ h \in Nat /\ m \in Nat
              /\ Len(a) = h /\ Len(b) = m
          BY <1>3, <1>4
        <4>2. q \in (Len(a) + 1)..(Len(a) + Len(b))
          BY <2>2, <4>1
        <4>3. (a \o b)[q] = b[q - Len(a)]
          BY <4>1, <4>2
        <4> QED BY <4>1, <4>3
      <3> QED BY <1>2, <1>4, <2>2, <3>1, <3>2
    <2> QED BY <2>1, <2>2
  <1>9. \A q \in 1..(h + m) : /\ spot(q) \in DOMAIN public /\ g[q] = public[spot(q)]
                              /\ Category(g[q]) = name
                              /\ IsHome(g[q]) <=> q \in 1..h
    <2> SUFFICES ASSUME NEW q \in 1..(h + m)
                 PROVE  /\ spot(q) \in DOMAIN public /\ g[q] = public[spot(q)]
                        /\ Category(g[q]) = name
                        /\ IsHome(g[q]) <=> q \in 1..h
      OBVIOUS
    <2>1. CASE q \in 1..h
      <3>1. ~(q - h \in 1..m)
        BY <1>3, <1>4, <2>1
      <3>2. spot(q) \in H /\ g[q] = public[spot(q)]
        BY <1>8, <3>1
      <3> QED BY <1>1, <2>1, <3>2
    <2>2. CASE ~(q \in 1..h)
      <3>1. spot(q) \in F /\ g[q] = public[spot(q)]
        BY <1>8, <2>2
      <3> QED BY <1>1, <2>2, <3>1
    <2> QED BY <2>1, <2>2
  <1>10. ASSUME NEW q \in 1..(h + m), NEW r \in 1..(h + m), q < r
         PROVE  /\ spot(q) # spot(r)
                /\ IsHome(g[r]) => IsHome(g[q])
                /\ (IsHome(g[q]) <=> IsHome(g[r])) => spot(q) < spot(r)
    <2>1. IsHome(g[q]) <=> q \in 1..h
      BY <1>9
    <2>2. IsHome(g[r]) <=> r \in 1..h
      BY <1>9
    <2>3. IsHome(g[r]) => IsHome(g[q])
      BY <1>3, <1>10, <2>1, <2>2
    <2>4. (IsHome(g[q]) <=> IsHome(g[r])) => spot(q) < spot(r)
      <3>1. CASE q \in 1..h /\ r \in 1..h
        <4>1. ~(q - h \in 1..m) /\ ~(r - h \in 1..m)
          BY <1>3, <1>4, <3>1
        <4>2. spot(q) = Nth(H, q) /\ spot(r) = Nth(H, r)
          BY <1>8, <4>1
        <4> QED BY <1>5, <1>10, <3>1, <4>2
      <3>2. CASE ~(q \in 1..h) /\ ~(r \in 1..h)
        <4>1. /\ spot(q) = Nth(F, q - h) /\ spot(r) = Nth(F, r - h)
              /\ q - h \in 1..m /\ r - h \in 1..m
          BY <1>8, <3>2
        <4>2. q - h < r - h
          BY <1>3, <1>4, <1>10
        <4> QED BY <1>6, <4>1, <4>2
      <3> QED BY <2>1, <2>2, <3>1, <3>2, Zenon
    <2>5. spot(q) \in Nat /\ spot(r) \in Nat
      BY <1>9
    <2>6. spot(q) = spot(r) => g[q] = g[r]
      BY <1>9
    <2>7. spot(q) # spot(r)
      <3>1. spot(q) = spot(r) => spot(q) < spot(r)
        BY <2>4, <2>6, Zenon
      <3> QED BY <2>5, <3>1
    <2> QED BY <2>3, <2>4, <2>7
  <1>11. ASSUME NEW k \in DOMAIN public, Category(public[k]) = name
         PROVE  \E q \in 1..(h + m) : spot(q) = k
    <2>1. CASE k \in H
      <3>1. PICK q \in 1..h : Nth(H, q) = k
        BY <1>5, <2>1
      <3>2. q \in 1..(h + m) /\ ~(q - h \in 1..m)
        BY <1>3, <1>4
      <3> QED BY <1>8, <3>1, <3>2
    <2>2. CASE k \in F
      <3>1. PICK j \in 1..m : Nth(F, j) = k
        BY <1>6, <2>2
      <3> DEFINE q == h + j
      <3>2. q \in 1..(h + m) /\ ~(q \in 1..h) /\ q - h = j
        BY <1>3, <1>4
      <3> HIDE DEF q
      <3> QED BY <1>8, <3>1, <3>2
    <2> QED BY <1>1, <1>11, <2>1, <2>2
  <1>12. Len(g) \in Nat /\ h + m \in Nat
    BY <1>3, <1>4, <1>7
  <1> QED BY <1>7, <1>9, <1>10, <1>11, <1>12 DEF g, spot

(* The groups are named by the categories of the public list, each once.   *)
LEMMA NamesFacts ==
    ASSUME NEW public \in Seq(Channel)
    PROVE  /\ Names(public) \in Seq(ToSet(GroupOrder)) /\ Len(Names(public)) \in Nat
           /\ DOMAIN Names(public) = 1..Len(Names(public))
           /\ ToSet(GroupOrder) = {Undefined} \cup ToSet(Categories)
           /\ ToSet(GroupOrder) \subseteq STRING \ {""}
           /\ \A i, j \in DOMAIN Names(public) : Names(public)[i] = Names(public)[j] => i = j
           /\ \A c \in ToSet(public) : \E i \in DOMAIN Names(public) : Names(public)[i] = Category(c)
           /\ \A i \in DOMAIN Names(public) : \E c \in ToSet(public) : Category(c) = Names(public)[i]
  <1> DEFINE o == GroupOrder
             U == Used(public)
             names == Names(public)
             k == Cardinality(U)
             n == Len(Categories)
             Word == STRING \ {""}
             Named == STRING \ {"", Undefined}
  <1>1. /\ Categories \in Seq(Named) /\ Undefined \in Word
        /\ \A i, j \in DOMAIN Categories : Categories[i] = Categories[j] => i = j
    BY ListAssumption
  <1>0. Named \subseteq Word /\ Undefined \notin Named
    OBVIOUS
  <1> HIDE DEF Word, Named
  <1>2. n \in Nat /\ DOMAIN Categories = 1..n /\ \A i \in 1..n : Categories[i] \in Named
    BY <1>1
  <1>3. /\ DOMAIN o = 1..(n + 1) /\ o = [i \in 1..(n + 1) |-> o[i]]
        /\ \A i \in 1..n : o[i] = Categories[i] /\ o[i] # Undefined /\ o[i] \in Word
        /\ o[n + 1] = Undefined
    <2>4. Categories \in Seq(Word)
      <3>1. Categories = [i \in 1..n |-> Categories[i]] /\ \A i \in 1..n : Categories[i] \in Word
        BY <1>0, <1>1, <1>2
      <3> QED BY <1>2, <3>1
    <2>1. o = [i \in 1..(n + 1) |-> IF i = n + 1 THEN Undefined ELSE Categories[i]]
      <3> DEFINE c == Append(Categories, Undefined)
      <3>1. c \in Seq(Word) /\ Len(c) = n + 1
        BY <1>1, <2>4
      <3>2. \A i \in 1..(n + 1) : c[i] = IF i = n + 1 THEN Undefined ELSE Categories[i]
        BY <1>1, <1>2, <2>4
      <3>3. o = c
        BY DEF GroupOrder
      <3> HIDE DEF c, o, n
      <3>4. c = [i \in 1..(n + 1) |-> c[i]]
        BY <3>1
      <3> QED BY <3>2, <3>3, <3>4
    <2> HIDE DEF o, n
    <2>2. \A i \in 1..n : i \in 1..(n + 1) /\ i # n + 1
      BY <1>2
    <2>3. n + 1 \in 1..(n + 1)
      BY <1>2
    <2> QED BY <1>0, <1>2, <2>1, <2>2, <2>3
  <1> HIDE DEF o, n
  <1>14. \A i \in 1..(n + 1) : i \in 1..n \/ i = n + 1
    BY <1>2
  <1>4. \A i, j \in 1..(n + 1) : o[i] = o[j] => i = j
    <2>1. \A i, j \in 1..n : o[i] = o[j] => i = j
      BY <1>1, <1>2, <1>3
    <2> QED BY <1>3, <1>14, <2>1, Zenon
  <1>5. ToSet(o) = {Undefined} \cup ToSet(Categories) /\ ToSet(o) \subseteq Word
    <2>1. ToSet(o) = {o[i] : i \in 1..(n + 1)} /\ ToSet(Categories) = {Categories[i] : i \in 1..n}
      BY <1>2, <1>3 DEF ToSet
    <2>2. n + 1 \in 1..(n + 1) /\ \A i \in 1..n : i \in 1..(n + 1)
      BY <1>2
    <2>3. {o[i] : i \in 1..(n + 1)} \subseteq {Undefined} \cup {Categories[i] : i \in 1..n}
      BY <1>3, <1>14
    <2>4. {Undefined} \cup {Categories[i] : i \in 1..n} \subseteq {o[i] : i \in 1..(n + 1)}
      BY <1>3, <2>2
    <2>5. {o[i] : i \in 1..(n + 1)} \subseteq Word
      BY <1>1, <1>3, <1>14
    <2> QED BY <2>1, <2>3, <2>4, <2>5, Zenon
  <1>6. names = At(o, U)
    BY DEF Names, o
  <1>7. U \subseteq DOMAIN o /\ \A g \in DOMAIN o : g \in U <=> \E c \in ToSet(public) : Category(c) = o[g]
    BY DEF Used, o
  <1> HIDE DEF U, names
  <1>8. o \in Seq(ToSet(o))
    <2>1. o \in [1..(n + 1) -> ToSet(o)]
      <3>1. o = [i \in 1..(n + 1) |-> o[i]]
        BY <1>3
      <3>2. \A i \in 1..(n + 1) : o[i] \in ToSet(o)
        BY <1>3 DEF ToSet
      <3> QED BY <3>1, <3>2
    <2>2. n + 1 \in Nat
      BY <1>2
    <2> QED BY <2>1, <2>2
  <1>9. /\ IsFiniteSet(U) /\ U \subseteq Nat /\ k \in Nat
        /\ names \in Seq(ToSet(o)) /\ Len(names) = k /\ DOMAIN names = 1..k
        /\ \A i \in 1..k : names[i] = o[Nth(U, i)] /\ Nth(U, i) \in U
    BY <1>6, <1>7, <1>8, AtFacts
  <1>10. /\ \A i, j \in 1..k : i < j => Nth(U, i) < Nth(U, j)
         /\ \A g \in U : \E i \in 1..k : Nth(U, i) = g
    BY <1>9, NthFacts
  <1> HIDE DEF k
  <1>11. \A i, j \in 1..k : names[i] = names[j] => i = j
    <2> SUFFICES ASSUME NEW i \in 1..k, NEW j \in 1..k, names[i] = names[j] PROVE i = j
      OBVIOUS
    <2>1. Nth(U, i) = Nth(U, j)
      <3>1. /\ Nth(U, i) \in 1..(n + 1) /\ Nth(U, j) \in 1..(n + 1)
            /\ names[i] = o[Nth(U, i)] /\ names[j] = o[Nth(U, j)]
        BY <1>3, <1>7, <1>9
      <3> QED BY <1>4, <3>1, Zenon
    <2>2. Nth(U, i) \in Nat
      BY <1>9
    <2>3. ~(i < j) /\ ~(j < i)
      BY <1>10, <2>1, <2>2
    <2> QED BY <1>9, <2>3
  <1>12. ASSUME NEW c \in ToSet(public)
         PROVE  \E i \in 1..k : names[i] = Category(c)
    <2>1. c \in Channel
      BY DEF ToSet
    <2>2. Category(c) \in ToSet(o)
      BY <1>5, <2>1 DEF Category, Channel
    <2>3. PICK g \in DOMAIN o : o[g] = Category(c)
      BY <2>2 DEF ToSet
    <2>4. g \in U
      BY <1>7, <2>3
    <2> QED BY <1>9, <1>10, <2>3, <2>4
  <1>13. \A i \in 1..k : \E c \in ToSet(public) : Category(c) = names[i]
    BY <1>7, <1>9
  <1> QED BY <1>5, <1>9, <1>11, <1>12, <1>13 DEF names, o, Word

(* The groups, one after the other.                                        *)
LEMMA GroupsFacts ==
    ASSUME NEW public \in Seq(Channel)
    PROVE  LET G == Groups(public)
               n == Len(Names(public))
           IN  /\ n \in Nat /\ G \in Seq(Seq(Channel)) /\ Len(G) = n
               /\ \A i \in 1..n : G[i] = Group(public, Names(public)[i])
               /\ FlattenSeq(G) \in Seq(Channel) /\ Len(FlattenSeq(G)) = Offset(G, n)
               /\ Offset(G, 0) = 0
               /\ \A i \in 1..n : Offset(G, i) = Offset(G, i - 1) + Len(G[i])
               /\ \A i \in 0..n : Offset(G, i) \in Nat
               /\ \A i, j \in 0..n : i <= j => Offset(G, i) <= Offset(G, j)
               /\ \A i \in 1..n : \A q \in 1..Len(G[i]) :
                    /\ Offset(G, i - 1) + q \in 1..Len(FlattenSeq(G))
                    /\ FlattenSeq(G)[Offset(G, i - 1) + q] = G[i][q]
               /\ \A p \in 1..Len(FlattenSeq(G)) :
                    \E i \in 1..n : \E q \in 1..Len(G[i]) : p = Offset(G, i - 1) + q
  <1> DEFINE G == Groups(public)
             names == Names(public)
             n == Len(names)
  <1>1. n \in Nat /\ DOMAIN names = 1..n
    BY NamesFacts
  <1>2. G = [i \in 1..n |-> Group(public, names[i])]
    BY <1>1 DEF Groups
  <1>3. \A i \in 1..n : Group(public, names[i]) \in Seq(Channel)
    BY GroupFacts
  <1> HIDE DEF G, names, n
  <1>4. G \in Seq(Seq(Channel)) /\ Len(G) = n
    BY <1>1, <1>2, <1>3
  <1>5. \A i \in 1..n : G[i] = Group(public, names[i])
    BY <1>2
  <1>6. /\ FlattenSeq(G) \in Seq(Channel) /\ Len(FlattenSeq(G)) = Offset(G, Len(G))
        /\ Offset(G, 0) = 0
        /\ \A i \in 1..Len(G) : Offset(G, i) = Offset(G, i - 1) + Len(G[i])
        /\ \A i \in 0..Len(G) : Offset(G, i) \in Nat
        /\ \A i, j \in 0..Len(G) : i <= j => Offset(G, i) <= Offset(G, j)
        /\ \A i \in 1..Len(G) : \A q \in 1..Len(G[i]) :
             /\ Offset(G, i - 1) + q \in 1..Len(FlattenSeq(G))
             /\ FlattenSeq(G)[Offset(G, i - 1) + q] = G[i][q]
        /\ \A p \in 1..Len(FlattenSeq(G)) :
             \E i \in 1..Len(G) : \E q \in 1..Len(G[i]) : p = Offset(G, i - 1) + q
    BY <1>4, FlattenPlaces
  <1>7. /\ FlattenSeq(G) \in Seq(Channel) /\ Len(FlattenSeq(G)) = Offset(G, n)
        /\ Offset(G, 0) = 0
        /\ \A i \in 1..n : Offset(G, i) = Offset(G, i - 1) + Len(G[i])
        /\ \A i \in 0..n : Offset(G, i) \in Nat
        /\ \A i, j \in 0..n : i <= j => Offset(G, i) <= Offset(G, j)
        /\ \A i \in 1..n : \A q \in 1..Len(G[i]) :
             /\ Offset(G, i - 1) + q \in 1..Len(FlattenSeq(G))
             /\ FlattenSeq(G)[Offset(G, i - 1) + q] = G[i][q]
        /\ \A p \in 1..Len(FlattenSeq(G)) :
             \E i \in 1..n : \E q \in 1..Len(G[i]) : p = Offset(G, i - 1) + q
    BY <1>4, <1>6, Zenon
  <1> QED BY <1>1, <1>4, <1>5, <1>7, Zenon DEF G, names, n

(* The p-th public channel of ui.channels is the from[p]-th of the public  *)
(* list.  Each has one place, and in a category those at home come first,  *)
(* both in the order of the list.                                          *)
Sorted(public, P, from) ==
    /\ from \in [1..Len(P) -> DOMAIN public]
    /\ \A p \in 1..Len(P) : P[p] = public[from[p]]
    /\ \A p, r \in 1..Len(P) : p < r => from[p] # from[r]
    /\ \A k \in DOMAIN public : \E p \in 1..Len(P) : from[p] = k
    /\ \A p, r \in 1..Len(P) : p < r /\ Category(P[p]) = Category(P[r]) =>
         /\ IsHome(P[r]) => IsHome(P[p])
         /\ (IsHome(P[p]) <=> IsHome(P[r])) => from[p] < from[r]

(* Grouping sorts the public list.                                        *)
LEMMA PublicSorted ==
    ASSUME NEW public \in Seq(Channel)
    PROVE  \E from : Sorted(public, FlattenSeq(Groups(public)), from)
  <1> DEFINE G == Groups(public)
             P == FlattenSeq(G)
             names == Names(public)
             n == Len(names)
             N == Len(P)
             o(i) == Offset(G, i)
             spot(i, q) == Spot(public, names[i], q)
             grp(p) == CHOOSE i \in 1..n : \E q \in 1..Len(G[i]) : p = o(i - 1) + q
             rnk(p) == p - o(grp(p) - 1)
             from == [p \in 1..N |-> spot(grp(p), rnk(p))]
  <1>1. /\ n \in Nat /\ P \in Seq(Channel)
        /\ \A i \in 1..n : G[i] = Group(public, names[i])
        /\ \A i \in 1..n : o(i) = o(i - 1) + Len(G[i])
        /\ \A i \in 0..n : o(i) \in Nat
        /\ \A i, j \in 0..n : i <= j => o(i) <= o(j)
        /\ \A i \in 1..n : \A q \in 1..Len(G[i]) : o(i - 1) + q \in 1..N /\ P[o(i - 1) + q] = G[i][q]
        /\ \A p \in 1..N : \E i \in 1..n : \E q \in 1..Len(G[i]) : p = o(i - 1) + q
    BY GroupsFacts, Zenon
  <1>2. \A i \in 1..n :
          /\ Len(G[i]) \in Nat
          /\ \A q \in 1..Len(G[i]) : /\ spot(i, q) \in DOMAIN public
                                     /\ G[i][q] = public[spot(i, q)]
                                     /\ Category(G[i][q]) = names[i]
          /\ \A q, r \in 1..Len(G[i]) : q < r =>
               /\ spot(i, q) # spot(i, r)
               /\ IsHome(G[i][r]) => IsHome(G[i][q])
               /\ (IsHome(G[i][q]) <=> IsHome(G[i][r])) => spot(i, q) < spot(i, r)
          /\ \A k \in DOMAIN public : Category(public[k]) = names[i] =>
               \E q \in 1..Len(G[i]) : spot(i, q) = k
    <2> SUFFICES ASSUME NEW i \in 1..n
                 PROVE
          /\ Len(G[i]) \in Nat
          /\ \A q \in 1..Len(G[i]) : /\ spot(i, q) \in DOMAIN public
                                     /\ G[i][q] = public[spot(i, q)]
                                     /\ Category(G[i][q]) = names[i]
          /\ \A q, r \in 1..Len(G[i]) : q < r =>
               /\ spot(i, q) # spot(i, r)
               /\ IsHome(G[i][r]) => IsHome(G[i][q])
               /\ (IsHome(G[i][q]) <=> IsHome(G[i][r])) => spot(i, q) < spot(i, r)
          /\ \A k \in DOMAIN public : Category(public[k]) = names[i] =>
               \E q \in 1..Len(G[i]) : spot(i, q) = k
      OBVIOUS
    <2>1. PICK name : name = names[i]
      OBVIOUS
    <2>2. G[i] = Group(public, name) /\ \A q : spot(i, q) = Spot(public, name, q)
      BY <1>1, <2>1
    <2> HIDE DEF G, names, spot
    <2>3. LET g == Group(public, name)
              m == Len(g)
          IN  /\ m \in Nat
              /\ \A q \in 1..m : /\ Spot(public, name, q) \in DOMAIN public
                                 /\ g[q] = public[Spot(public, name, q)]
                                 /\ Category(g[q]) = name
              /\ \A q, r \in 1..m : q < r =>
                    /\ Spot(public, name, q) # Spot(public, name, r)
                    /\ IsHome(g[r]) => IsHome(g[q])
                    /\ (IsHome(g[q]) <=> IsHome(g[r])) =>
                          Spot(public, name, q) < Spot(public, name, r)
              /\ \A k \in DOMAIN public : Category(public[k]) = name =>
                    \E q \in 1..m : Spot(public, name, q) = k
      BY GroupFacts, Zenon
    <2> QED BY <2>1, <2>2, <2>3
  <1>3. /\ DOMAIN names = 1..n
        /\ \A i, j \in 1..n : names[i] = names[j] => i = j
        /\ \A c \in ToSet(public) : \E i \in 1..n : names[i] = Category(c)
    BY NamesFacts
  <1>4. N \in Nat
    BY <1>1
  <1>5. \A p \in 1..N : grp(p) \in 1..n /\ \E q \in 1..Len(G[grp(p)]) : p = o(grp(p) - 1) + q
    <2> SUFFICES ASSUME NEW p \in 1..N
                 PROVE  grp(p) \in 1..n /\ \E q \in 1..Len(G[grp(p)]) : p = o(grp(p) - 1) + q
      OBVIOUS
    <2>1. \E i \in 1..n : \E q \in 1..Len(G[i]) : p = o(i - 1) + q
      BY <1>1
    <2> QED BY <2>1, Zenon
  <1> HIDE DEF G, P, names, n, N, o, spot, grp
  <1>6. \A p \in 1..N : /\ grp(p) \in 1..n /\ rnk(p) \in 1..Len(G[grp(p)])
                        /\ p = o(grp(p) - 1) + rnk(p)
    <2> SUFFICES ASSUME NEW p \in 1..N
                 PROVE  /\ grp(p) \in 1..n /\ rnk(p) \in 1..Len(G[grp(p)])
                        /\ p = o(grp(p) - 1) + rnk(p)
      OBVIOUS
    <2>1. PICK i \in 1..n : i = grp(p)
      BY <1>5
    <2>2. PICK q \in 1..Len(G[i]) : p = o(i - 1) + q
      BY <1>5, <2>1
    <2>3. i - 1 \in 0..n /\ Len(G[i]) \in Nat
      BY <1>1, <1>2
    <2>4. o(i - 1) \in Nat
      BY <1>1, <2>3
    <2>5. p - o(i - 1) = q
      BY <1>4, <2>2, <2>3, <2>4
    <2> QED BY <2>1, <2>2, <2>5
  <1> HIDE DEF rnk
  <1>7. \A p \in 1..N : /\ P[p] = G[grp(p)][rnk(p)] /\ Category(P[p]) = names[grp(p)]
                        /\ spot(grp(p), rnk(p)) \in DOMAIN public
                        /\ P[p] = public[spot(grp(p), rnk(p))]
    <2> SUFFICES ASSUME NEW p \in 1..N
                 PROVE  /\ P[p] = G[grp(p)][rnk(p)] /\ Category(P[p]) = names[grp(p)]
                        /\ spot(grp(p), rnk(p)) \in DOMAIN public
                        /\ P[p] = public[spot(grp(p), rnk(p))]
      OBVIOUS
    <2>1. PICK i \in 1..n : i = grp(p)
      BY <1>6
    <2>2. PICK q \in 1..Len(G[i]) : q = rnk(p) /\ p = o(i - 1) + q
      BY <1>6, <2>1
    <2>3. P[p] = G[i][q]
      BY <1>1, <2>2
    <2>4. spot(i, q) \in DOMAIN public /\ G[i][q] = public[spot(i, q)] /\ Category(G[i][q]) = names[i]
      BY <1>2, <2>2
    <2> QED BY <2>1, <2>2, <2>3, <2>4
  <1>8. \A p \in 1..N : from[p] = spot(grp(p), rnk(p))
    OBVIOUS
  <1>9. from \in [1..N -> DOMAIN public]
    BY <1>7
  <1> HIDE DEF from
  <1>10. ASSUME NEW p \in 1..N, NEW r \in 1..N, p < r, Category(P[p]) = Category(P[r])
         PROVE  grp(p) = grp(r) /\ rnk(p) < rnk(r)
    <2>1. grp(p) = grp(r)
      BY <1>3, <1>6, <1>7, <1>10
    <2>2. p = o(grp(p) - 1) + rnk(p) /\ r = o(grp(p) - 1) + rnk(r) /\ grp(p) \in 1..n
          /\ rnk(p) \in 1..Len(G[grp(p)]) /\ rnk(r) \in 1..Len(G[grp(p)])
      BY <1>6, <2>1
    <2>3. grp(p) - 1 \in 0..n /\ Len(G[grp(p)]) \in Nat
      <3>1. PICK i \in 1..n : i = grp(p)
        BY <2>2
      <3>2. i - 1 \in 0..n /\ Len(G[i]) \in Nat
        BY <1>1, <1>2
      <3> QED BY <3>1, <3>2
    <2>4. o(grp(p) - 1) \in Nat
      BY <1>1, <2>3
    <2>5. rnk(p) \in Int /\ rnk(r) \in Int
      BY <2>2, <2>3
    <2>6. rnk(p) < rnk(r)
      BY <1>10, <2>2, <2>4, <2>5
    <2> QED BY <2>1, <2>6
  <1>11. ASSUME NEW p \in 1..N, NEW r \in 1..N, p < r, Category(P[p]) = Category(P[r])
         PROVE  /\ from[p] # from[r]
                /\ IsHome(P[r]) => IsHome(P[p])
                /\ (IsHome(P[p]) <=> IsHome(P[r])) => from[p] < from[r]
    <2>1. PICK i \in 1..n : i = grp(p) /\ i = grp(r)
      BY <1>6, <1>10, <1>11
    <2>2. PICK q \in 1..Len(G[i]), s \in 1..Len(G[i]) : q = rnk(p) /\ s = rnk(r) /\ q < s
      BY <1>6, <1>10, <1>11, <2>1
    <2>3. P[p] = G[i][q] /\ P[r] = G[i][s] /\ from[p] = spot(i, q) /\ from[r] = spot(i, s)
      BY <1>7, <1>8, <2>1, <2>2
    <2>4. /\ spot(i, q) # spot(i, s)
          /\ IsHome(G[i][s]) => IsHome(G[i][q])
          /\ (IsHome(G[i][q]) <=> IsHome(G[i][s])) => spot(i, q) < spot(i, s)
      BY <1>2, <2>2
    <2> QED BY <2>3, <2>4, Zenon
  <1>12. ASSUME NEW p \in 1..N, NEW r \in 1..N, p < r
         PROVE  from[p] # from[r]
    <2>1. from[p] = from[r] => P[p] = P[r]
      BY <1>7, <1>8
    <2>2. from[p] = from[r] => Category(P[p]) = Category(P[r])
      BY <2>1
    <2> QED BY <1>11, <1>12, <2>2
  <1>13. ASSUME NEW k \in DOMAIN public
         PROVE  \E p \in 1..N : from[p] = k
    <2>1. public[k] \in ToSet(public)
      BY DEF ToSet
    <2>2. PICK i \in 1..n : names[i] = Category(public[k])
      BY <1>3, <2>1
    <2>3. PICK q \in 1..Len(G[i]) : spot(i, q) = k
      BY <1>2, <2>2
    <2>4. PICK p \in 1..N : p = o(i - 1) + q /\ P[p] = G[i][q]
      BY <1>1
    <2>5. Category(P[p]) = names[i]
      BY <1>2, <2>4
    <2>6. grp(p) = i
      BY <1>3, <1>6, <1>7, <2>5
    <2>7. rnk(p) = q
      <3>1. p = o(i - 1) + rnk(p) /\ rnk(p) \in 1..Len(G[i])
        BY <1>6, <2>6
      <3>2. i - 1 \in 0..n /\ Len(G[i]) \in Nat
        BY <1>1, <1>2
      <3>3. o(i - 1) \in Nat
        BY <1>1, <3>2
      <3> QED BY <2>4, <3>1, <3>2, <3>3
    <2> QED BY <1>8, <2>3, <2>6, <2>7
  <1>14. Sorted(public, P, from)
    BY <1>7, <1>8, <1>9, <1>11, <1>12, <1>13 DEF Sorted, N
  <1> QED BY <1>14 DEF P, G

-----------------------------------------------------------------------------
(* The rows.                                                               *)

Titles == {LocalHeader} \cup ToSet(GroupOrder)

AnyRow == [header : {""} \cup Titles, chan : Int]

(* The rows v have the channels after number lo up to hi, each once and in *)
(* order, and otherwise headers.                                           *)
Rising(v, lo, hi) ==
    /\ v \in Seq(AnyRow) /\ lo \in Nat /\ hi \in Nat /\ lo <= hi
    /\ \A i \in 1..Len(v) : \/ v[i].header = "" /\ v[i].chan \in (lo + 1)..hi
                            \/ v[i].header \in Titles /\ v[i].chan = 0
    /\ \A i, j \in 1..Len(v) :
         i < j /\ v[i].chan # 0 /\ v[j].chan # 0 => v[i].chan < v[j].chan
    /\ \A c \in (lo + 1)..hi : \E i \in 1..Len(v) : v[i].chan = c
    /\ Len(v) > 0 => lo < hi

(* A header or none, and then channel rows.                                *)
LEMMA RisingSection ==
    ASSUME NEW header \in Titles, NEW headed \in BOOLEAN, NEW before \in Nat, NEW n \in Nat,
           headed => n > 0
    PROVE  Rising(Section(header, headed, before, n), before, before + n)
  <1> DEFINE a == IF headed THEN <<HeaderRow(header)>> ELSE <<>>
             b == [i \in 1..n |-> ChannelRow(before + i)]
             v == Section(header, headed, before, n)
             h == IF headed THEN 1 ELSE 0
  <1>1. h \in Nat
    OBVIOUS
  <1>2. a \in Seq(AnyRow) /\ Len(a) = h
    <2>1. HeaderRow(header) \in AnyRow
      <3>1. PICK T : T = {""} \cup Titles
        OBVIOUS
      <3>2. header \in T
        BY <3>1
      <3>3. [header |-> header, chan |-> 0] \in [header : T, chan : Int]
        BY <3>2
      <3>4. AnyRow = [header : T, chan : Int]
        BY <3>1, Zenon DEF AnyRow
      <3>5. HeaderRow(header) = [header |-> header, chan |-> 0]
        BY Zenon DEF HeaderRow
      <3> QED BY <3>3, <3>4, <3>5, Zenon
    <2> HIDE DEF AnyRow
    <2>2. <<HeaderRow(header)>> \in Seq(AnyRow) /\ Len(<<HeaderRow(header)>>) = 1
      BY <2>1
    <2>3. <<>> \in Seq(AnyRow) /\ Len(<<>>) = 0
      OBVIOUS
    <2>4. CASE headed
      BY <2>2, <2>4
    <2>5. CASE ~headed
      BY <2>3, <2>5
    <2> QED BY <2>4, <2>5
  <1>3. b \in Seq(AnyRow) /\ Len(b) = n /\ \A i \in 1..n : b[i] = ChannelRow(before + i)
    <2>1. \A i \in 1..n : ChannelRow(before + i) \in AnyRow
      <3>1. ASSUME NEW c \in Int PROVE ChannelRow(c) \in AnyRow
        BY DEF ChannelRow, AnyRow
      <3>2. \A i \in 1..n : before + i \in Int
        OBVIOUS
      <3> QED BY <3>1, <3>2, Zenon
    <2> HIDE DEF AnyRow
    <2> QED BY <2>1
  <1>4. \A i \in 1..h : a[i] = HeaderRow(header)
    OBVIOUS
  <1>5. v = a \o b
    BY DEF Section
  <1> HIDE DEF a, b, v, h
  <1>6. v \in Seq(AnyRow) /\ Len(v) = h + n
    <2>0. a \in Seq(AnyRow) /\ b \in Seq(AnyRow)
      BY <1>2, <1>3
    <2>1. a \o b \in Seq(AnyRow) /\ Len(a \o b) = Len(a) + Len(b)
      BY <2>0
    <2> QED BY <1>2, <1>3, <1>5, <2>1
  <1>7. \A i \in 1..h : v[i] = HeaderRow(header)
    <2> SUFFICES ASSUME NEW i \in 1..h PROVE v[i] = HeaderRow(header)
      OBVIOUS
    <2>1. (a \o b)[i] = a[i]
      BY <1>1, <1>2, <1>3
    <2> QED BY <1>4, <1>5, <2>1
  <1>8. \A i \in 1..n : v[h + i] = ChannelRow(before + i)
    <2> SUFFICES ASSUME NEW i \in 1..n PROVE v[h + i] = ChannelRow(before + i)
      OBVIOUS
    <2> DEFINE p == h + i
    <2>1. p \in (Len(a) + 1)..(Len(a) + Len(b)) /\ p - Len(a) = i
      BY <1>1, <1>2, <1>3
    <2> HIDE DEF p
    <2>2. (a \o b)[p] = b[p - Len(a)]
      BY <1>2, <1>3, <2>1
    <2> QED BY <1>3, <1>5, <2>1, <2>2 DEF p
  <1>9. \A i \in 1..(h + n) : i \in 1..h \/ (i - h \in 1..n /\ h + (i - h) = i)
    BY <1>1
  <1>10. \A i \in 1..h : v[i].header = header /\ v[i].chan = 0
    BY <1>7 DEF HeaderRow
  <1>11. \A i \in 1..n : v[h + i].header = "" /\ v[h + i].chan = before + i
    <2>1. \A c : ChannelRow(c).header = "" /\ ChannelRow(c).chan = c
      BY DEF ChannelRow
    <2> QED BY <1>8, <2>1
  <1>12. \A i \in 1..(h + n) :
           \/ v[i].header = header /\ v[i].chan = 0 /\ i \in 1..h
           \/ v[i].header = "" /\ v[i].chan = before + (i - h) /\ i - h \in 1..n
    BY <1>9, <1>10, <1>11
  <1>13. \A c \in (before + 1)..(before + n) : \E i \in 1..(h + n) : v[i].chan = c
    <2> SUFFICES ASSUME NEW c \in (before + 1)..(before + n) PROVE \E i \in 1..(h + n) : v[i].chan = c
      OBVIOUS
    <2>1. PICK i \in 1..n : before + i = c
      <3>1. c - before \in 1..n /\ before + (c - before) = c
        OBVIOUS
      <3> QED BY <3>1
    <2>2. h + i \in 1..(h + n)
      BY <1>1
    <2> QED BY <1>11, <2>1, <2>2
  <1>14. \A i \in 1..(h + n) : \/ v[i].header = "" /\ v[i].chan \in (before + 1)..(before + n)
                               \/ v[i].header \in Titles /\ v[i].chan = 0
    <2>1. \A x : x - h \in 1..n => before + (x - h) \in (before + 1)..(before + n)
      BY <1>1
    <2> QED BY <1>12, <2>1
  <1>15. ASSUME NEW i \in 1..(h + n), NEW j \in 1..(h + n), i < j, v[i].chan # 0, v[j].chan # 0
         PROVE  v[i].chan < v[j].chan
    <2>1. v[i].chan = before + (i - h) /\ v[j].chan = before + (j - h)
      BY <1>12, <1>15
    <2>2. before + (i - h) < before + (j - h)
      BY <1>1, <1>15
    <2> QED BY <2>1, <2>2
  <1>16. before + n \in Nat /\ before <= before + n
    OBVIOUS
  <1>17. h + n > 0 => before < before + n
    BY DEF h
  <1> QED BY <1>6, <1>13, <1>14, <1>15, <1>16, <1>17 DEF Rising, v

(* One after the other.                                                    *)
LEMMA RisingJoin ==
    ASSUME NEW a, NEW b, NEW lo, NEW mid, NEW hi, Rising(a, lo, mid), Rising(b, mid, hi)
    PROVE  Rising(a \o b, lo, hi)
  <1> DEFINE v == a \o b
             m == Len(a)
             n == Len(b)
  <1>1. /\ a \in Seq(AnyRow) /\ b \in Seq(AnyRow)
        /\ lo \in Nat /\ mid \in Nat /\ hi \in Nat /\ lo <= mid /\ mid <= hi
    BY DEF Rising
  <1>2. m \in Nat /\ n \in Nat
    BY <1>1
  <1>3. v \in Seq(AnyRow) /\ Len(v) = m + n
    BY <1>1
  <1>4. \A i \in 1..m : v[i] = a[i]
    BY <1>1
  <1>5. \A i \in 1..n : v[m + i] = b[i]
    <2> SUFFICES ASSUME NEW i \in 1..n PROVE v[m + i] = b[i]
      OBVIOUS
    <2> DEFINE p == m + i
    <2>1. p \in (Len(a) + 1)..(Len(a) + Len(b)) /\ p - Len(a) = i
      BY <1>2
    <2> HIDE DEF p
    <2>2. (a \o b)[p] = b[p - Len(a)]
      BY <1>1, <2>1
    <2> QED BY <2>1, <2>2 DEF p
  <1> HIDE DEF v, m, n
  <1>6. \A i \in 1..m : \/ a[i].header = "" /\ a[i].chan \in (lo + 1)..mid
                        \/ a[i].header \in Titles /\ a[i].chan = 0
    BY DEF Rising, m
  <1>7. \A i \in 1..n : \/ b[i].header = "" /\ b[i].chan \in (mid + 1)..hi
                        \/ b[i].header \in Titles /\ b[i].chan = 0
    BY DEF Rising, n
  <1>8. \A i \in 1..(m + n) : \/ i \in 1..m /\ v[i] = a[i]
                              \/ i - m \in 1..n /\ v[i] = b[i - m]
    <2> SUFFICES ASSUME NEW i \in 1..(m + n), i \notin 1..m PROVE i - m \in 1..n /\ v[i] = b[i - m]
      BY <1>4
    <2>1. i - m \in 1..n /\ m + (i - m) = i
      BY <1>2
    <2> QED BY <1>5, <2>1
  <1>9. \A i \in 1..(m + n) : \/ v[i].header = "" /\ v[i].chan \in (lo + 1)..hi
                              \/ v[i].header \in Titles /\ v[i].chan = 0
    <2> SUFFICES ASSUME NEW i \in 1..(m + n)
                 PROVE  \/ v[i].header = "" /\ v[i].chan \in (lo + 1)..hi
                        \/ v[i].header \in Titles /\ v[i].chan = 0
      OBVIOUS
    <2>0. (lo + 1)..mid \subseteq (lo + 1)..hi /\ (mid + 1)..hi \subseteq (lo + 1)..hi
      BY <1>1
    <2>1. CASE i \in 1..m /\ v[i] = a[i]
      BY <1>6, <2>0, <2>1, Zenon
    <2>2. CASE i - m \in 1..n /\ v[i] = b[i - m]
      BY <1>7, <2>0, <2>2, Zenon
    <2> QED BY <1>8, <2>1, <2>2
  <1>10. ASSUME NEW i \in 1..(m + n), NEW j \in 1..(m + n), i < j, v[i].chan # 0, v[j].chan # 0
         PROVE  v[i].chan < v[j].chan
    <2>1. CASE i \in 1..m /\ v[i] = a[i] /\ j \in 1..m /\ v[j] = a[j]
      BY <1>10, <2>1 DEF Rising, m
    <2>2. CASE i - m \in 1..n /\ v[i] = b[i - m] /\ j - m \in 1..n /\ v[j] = b[j - m]
      <3>1. PICK k \in 1..n, l \in 1..n : k = i - m /\ l = j - m
        BY <2>2
      <3>2. k < l
        BY <1>2, <1>10, <3>1
      <3>3. b[k].chan # 0 /\ b[l].chan # 0 => b[k].chan < b[l].chan
        BY <3>2 DEF Rising, n
      <3> QED BY <1>10, <2>2, <3>1, <3>3
    <2>3. CASE i \in 1..m /\ v[i] = a[i] /\ j - m \in 1..n /\ v[j] = b[j - m]
      <3>1. v[i].chan \in (lo + 1)..mid
        BY <1>6, <1>10, <2>3
      <3>2. v[j].chan \in (mid + 1)..hi
        BY <1>7, <1>10, <2>3
      <3> QED BY <1>1, <3>1, <3>2
    <2>4. ~(i - m \in 1..n /\ j \in 1..m)
      BY <1>2, <1>10
    <2> QED BY <1>8, <2>1, <2>2, <2>3, <2>4
  <1>11. ASSUME NEW c \in (lo + 1)..hi
         PROVE  \E i \in 1..(m + n) : v[i].chan = c
    <2>1. CASE c \in (lo + 1)..mid
      <3>1. PICK i \in 1..m : a[i].chan = c
        BY <2>1 DEF Rising, m
      <3>2. i \in 1..(m + n)
        BY <1>2
      <3> QED BY <1>4, <3>1, <3>2
    <2>2. CASE c \in (mid + 1)..hi
      <3>1. PICK i \in 1..n : b[i].chan = c
        BY <2>2 DEF Rising, n
      <3>2. m + i \in 1..(m + n)
        BY <1>2
      <3> QED BY <1>5, <3>1, <3>2
    <2> QED BY <1>1, <2>1, <2>2
  <1>12. lo <= hi
    BY <1>1
  <1>13. m + n > 0 => lo < hi
    <2>1. (m > 0 => lo < mid) /\ (n > 0 => mid < hi)
      BY DEF Rising, m, n
    <2> QED BY <1>1, <1>2, <2>1
  <1> QED BY <1>1, <1>3, <1>9, <1>10, <1>11, <1>12, <1>13 DEF Rising, v

(* The sections of the public list, for the groups ss named by titles.     *)
Sections(titles, headed, m, ss) ==
    [i \in 1..Len(ss) |-> Section(titles[i], headed, m + Offset(ss, i - 1), Len(ss[i]))]

(* Their rows have the channels of the groups.                             *)
LEMMA RisingSections ==
    ASSUME NEW S, NEW ss \in Seq(Seq(S)), NEW titles, NEW headed \in BOOLEAN, NEW m \in Nat,
           \A i \in 1..Len(ss) : titles[i] \in Titles /\ Len(ss[i]) > 0
    PROVE  Rising(FlattenSeq(Sections(titles, headed, m, ss)), m, m + Offset(ss, Len(ss)))
  <1> DEFINE n == Len(ss)
             rr == Sections(titles, headed, m, ss)
             o(i) == Offset(ss, i)
             T == {k \in 0..n : Rising(FlattenSeq(First(rr, k)), m, m + o(k))}
  <1>0. n \in Nat
    OBVIOUS
  <1>1. /\ o(0) = 0
        /\ \A i \in 1..n : o(i) = o(i - 1) + Len(ss[i])
        /\ \A i \in 0..n : o(i) \in Nat
    BY FlattenPlaces
  <1>2. \A i \in 1..n : rr[i] = Section(titles[i], headed, m + o(i - 1), Len(ss[i]))
    BY DEF Sections
  <1>3. DOMAIN rr = 1..n /\ rr = [i \in 1..n |-> rr[i]]
    BY DEF Sections
  <1> HIDE DEF rr, o
  <1>4. ASSUME NEW i \in 1..n
        PROVE  Rising(rr[i], m + o(i - 1), m + o(i))
    <2>1. Len(ss[i]) \in Nat
      OBVIOUS
    <2>2. i - 1 \in 0..n
      BY <1>0
    <2> HIDE DEF n
    <2>8. o(i - 1) \in Nat /\ o(i) = o(i - 1) + Len(ss[i])
      BY <1>1, <2>2, Zenon
    <2>3. PICK b \in Nat : b = m + o(i - 1)
      BY <2>8
    <2>4. b + Len(ss[i]) = m + o(i)
      BY <2>1, <2>3, <2>8
    <2>5. PICK l \in Nat : l = Len(ss[i]) /\ l > 0
      BY <2>1 DEF n
    <2>6. PICK t \in Titles : t = titles[i]
      BY DEF n
    <2>7. Rising(Section(t, headed, b, l), b, b + l)
      BY <2>5, RisingSection
    <2> QED BY <1>2, <2>3, <2>4, <2>5, <2>6, <2>7
  <1> HIDE DEF n
  <1>5. rr \in Seq(Seq(AnyRow)) /\ Len(rr) = n
    <2>1. \A i \in 1..n : rr[i] \in Seq(AnyRow)
      BY <1>4 DEF Rising
    <2>2. PICK R : R = Seq(AnyRow)
      OBVIOUS
    <2>3. rr \in [1..n -> R]
      BY <1>3, <2>1, <2>2
    <2> QED BY <1>0, <2>2, <2>3
  <1>6. /\ FlattenSeq(First(rr, 0)) = <<>> /\ First(rr, n) = rr
        /\ \A k \in 0..(n - 1) :
             FlattenSeq(First(rr, k + 1)) = FlattenSeq(First(rr, k)) \o rr[k + 1]
    <2>1. /\ FlattenSeq(First(rr, 0)) = <<>> /\ First(rr, Len(rr)) = rr
          /\ \A k \in 0..(Len(rr) - 1) :
               FlattenSeq(First(rr, k + 1)) = FlattenSeq(First(rr, k)) \o rr[k + 1]
      BY <1>5, FlattenStep
    <2> QED BY <1>5, <2>1
  <1>7. 0 \in T
    <2>1. Rising(<<>>, m, m)
      <3>1. <<>> \in Seq(AnyRow)
        OBVIOUS
      <3>2. Len(<<>>) = 0 /\ 1..0 = {} /\ (m + 1)..m = {} /\ m <= m
        OBVIOUS
      <3> QED BY <3>1, <3>2 DEF Rising
    <2>2. m + o(0) = m /\ 0 \in 0..n
      BY <1>0, <1>1
    <2> QED BY <1>6, <2>1, <2>2, Zenon
  <1>8. ASSUME NEW k \in 0..(n - 1), k \in T PROVE k + 1 \in T
    <2>1. k + 1 \in 1..n /\ (k + 1) - 1 = k /\ k + 1 \in 0..n
      BY <1>0
    <2>2. PICK j \in 1..n : j = k + 1
      BY <2>1
    <2>3. Rising(rr[j], m + o(k), m + o(j))
      <3>1. Rising(rr[j], m + o(j - 1), m + o(j))
        BY <1>4
      <3>2. j - 1 = k
        BY <2>1, <2>2
      <3> QED BY <3>1, <3>2
    <2>4. Rising(FlattenSeq(First(rr, k)), m, m + o(k))
      BY <1>8
    <2>5. Rising(FlattenSeq(First(rr, k)) \o rr[j], m, m + o(j))
      BY <2>3, <2>4, RisingJoin
    <2>6. FlattenSeq(First(rr, j)) = FlattenSeq(First(rr, k)) \o rr[j]
      BY <1>6, <2>2
    <2> QED BY <2>1, <2>2, <2>5, <2>6
  <1> HIDE DEF T
  <1>9. 0..n \subseteq T
    BY <1>0, <1>7, <1>8, IntervalInduction
  <1>10. n \in T
    BY <1>0, <1>9
  <1>11. Rising(FlattenSeq(First(rr, n)), m, m + o(n))
    BY <1>10 DEF T
  <1>12. Rising(FlattenSeq(rr), m, m + o(n))
    BY <1>6, <1>11
  <1> QED BY <1>12 DEF rr, o, n

-----------------------------------------------------------------------------
(* arrangeChannels.                                                        *)

(* The channels: those of the box, and the groups.                         *)
LEMMA ChannelsFacts ==
    ASSUME NEW local \in Seq(Channel), NEW public \in Seq(Channel)
    PROVE  LET P == FlattenSeq(Groups(public))
               c == Channels(local, public)
           IN  /\ P \in Seq(Channel) /\ c = local \o P /\ c \in Seq(Channel)
               /\ Len(c) = Len(local) + Len(P) /\ Len(local) \in Nat /\ Len(P) \in Nat
               /\ \A i \in 1..Len(local) : c[i] = local[i]
               /\ \A p \in 1..Len(P) : c[Len(local) + p] = P[p]
  <1> DEFINE P == FlattenSeq(Groups(public))
             c == Channels(local, public)
             m == Len(local)
  <1>1. c = local \o P
    BY DEF Channels, Groups
  <1>2. P \in Seq(Channel)
    BY GroupsFacts, Zenon
  <1> HIDE DEF P, c
  <1>3. c \in Seq(Channel) /\ Len(c) = m + Len(P) /\ m \in Nat /\ Len(P) \in Nat
    BY <1>1, <1>2
  <1>4. \A i \in 1..m : c[i] = local[i]
    BY <1>1, <1>2
  <1>5. ASSUME NEW p \in 1..Len(P)
        PROVE  c[m + p] = P[p]
    <2>1. PICK i \in (Len(local) + 1)..(Len(local) + Len(P)) : i = m + p
      BY <1>3
    <2>2. i - Len(local) = p
      BY <1>3, <2>1
    <2>3. (local \o P)[i] = P[i - Len(local)]
      BY <1>2
    <2> QED BY <1>1, <2>1, <2>2, <2>3
  <1> QED BY <1>1, <1>2, <1>3, <1>4, <1>5 DEF P, c

(* The rows: headers, and one row for each channel, in order.              *)
LEMMA ItemsFacts ==
    ASSUME NEW local \in Seq(Channel), NEW public \in Seq(Channel)
    PROVE  Rising(Items(local, public), 0, Len(Channels(local, public)))
  <1> DEFINE G == Groups(public)
             P == FlattenSeq(G)
             names == Names(public)
             n == Len(names)
             m == Len(local)
             headed == ShowHeaders(local, public)
             a == Section(LocalHeader, local # <<>>, 0, m)
             b == FlattenSeq(Sections(names, headed, m, G))
             before(i) == m + Len(FlattenSeq([j \in 1..(i - 1) |-> Group(public, names[j])]))
  <1>1. /\ n \in Nat /\ G \in Seq(Seq(Channel)) /\ Len(G) = n
        /\ \A i \in 1..n : G[i] = Group(public, names[i])
        /\ Len(P) = Offset(G, n)
    BY GroupsFacts, Zenon
  <1>2. DOMAIN names = 1..n /\ names \in Seq(ToSet(GroupOrder))
    BY NamesFacts
  <1>3. m \in Nat /\ Len(P) \in Nat /\ Len(Channels(local, public)) = m + Len(P)
    BY ChannelsFacts, Zenon
  <1> HIDE DEF G, P, names, n, m, headed
  <1>4. \A i \in 1..n : names[i] \in Titles /\ Len(G[i]) > 0
    <2> SUFFICES ASSUME NEW i \in 1..n PROVE names[i] \in Titles /\ Len(G[i]) > 0
      OBVIOUS
    <2>1. names[i] \in Titles
      BY <1>2 DEF Titles, n
    <2>2. PICK name : name = names[i]
      OBVIOUS
    <2>3. PICK k \in DOMAIN public : Category(public[k]) = name
      <3>1. \E c \in ToSet(public) : Category(c) = name
        BY <1>2, <2>2, NamesFacts DEF names
      <3> QED BY <3>1 DEF ToSet
    <2>4. \E q \in 1..Len(Group(public, name)) : Spot(public, name, q) = k
      BY <2>3, GroupFacts
    <2>5. Len(Group(public, name)) \in Nat
      BY GroupFacts
    <2> QED BY <1>1, <2>1, <2>2, <2>4, <2>5
  <1>5. LocalHeader \in Titles
    BY ListAssumption DEF Titles
  <1>6. headed \in BOOLEAN
    BY DEF headed, ShowHeaders
  <1>7. Items(local, public) = a \o b
    <2>1. Items(local, public) =
            a \o FlattenSeq([i \in DOMAIN names |->
                   Section(names[i], headed, before(i), Len(Group(public, names[i])))])
      BY DEF Items, names, headed, m
    <2>2. ASSUME NEW i \in 1..n
          PROVE  /\ before(i) = m + Offset(G, i - 1)
                 /\ Len(Group(public, names[i])) = Len(G[i])
      <3>1. \A j \in 1..(i - 1) : j \in 1..n
        BY <1>1
      <3>2. [j \in 1..(i - 1) |-> Group(public, names[j])] = [j \in 1..(i - 1) |-> G[j]]
        BY <1>1, <3>1
      <3> QED BY <1>1, <3>2 DEF Offset, First
    <2>3. [i \in DOMAIN names |-> Section(names[i], headed, before(i), Len(Group(public, names[i])))]
            = Sections(names, headed, m, G)
      <3> HIDE DEF before
      <3>1. Sections(names, headed, m, G)
              = [i \in 1..n |-> Section(names[i], headed, m + Offset(G, i - 1), Len(G[i]))]
        BY <1>1 DEF Sections
      <3> QED BY <1>2, <2>2, <3>1
    <2> QED BY <2>1, <2>3
  <1>8. Rising(a, 0, m)
    <2>3. (local # <<>>) \in BOOLEAN /\ (local # <<>> => m > 0)
      BY DEF m
    <2>1. Rising(Section(LocalHeader, local # <<>>, 0, m), 0, 0 + m)
      BY <1>3, <1>5, <2>3, RisingSection
    <2>2. 0 + m = m
      BY <1>3
    <2> QED BY <2>1, <2>2
  <1>9. Rising(b, m, m + Offset(G, n))
    BY <1>1, <1>3, <1>4, <1>6, RisingSections
  <1> HIDE DEF a, b
  <1>10. Rising(a \o b, 0, m + Offset(G, n))
    BY <1>8, <1>9, RisingJoin
  <1> QED BY <1>1, <1>3, <1>7, <1>10

(* How often a list has a channel.                                         *)
Often(s, c) == Cardinality({i \in DOMAIN s : s[i] = c})

(* A channel is listed as often as the sources have it.                    *)
LEMMA CountFact ==
    ASSUME NEW local \in Seq(Channel), NEW public \in Seq(Channel), NEW c
    PROVE  Often(Channels(local, public), c) = Often(local, c) + Often(public, c)
  <1> DEFINE P == FlattenSeq(Groups(public))
             chans == Channels(local, public)
             m == Len(local)
             N == Len(P)
             A == {i \in DOMAIN local : local[i] = c}
             B == {k \in DOMAIN public : public[k] = c}
             D == {i \in DOMAIN chans : chans[i] = c}
             E == {i \in (m + 1)..(m + N) : chans[i] = c}
  <1>1. /\ chans \in Seq(Channel)
        /\ Len(chans) = m + N /\ m \in Nat /\ N \in Nat
        /\ \A i \in 1..m : chans[i] = local[i]
        /\ \A p \in 1..N : chans[m + p] = P[p]
    BY ChannelsFacts, Zenon
  <1>2. PICK from : Sorted(public, P, from)
    BY PublicSorted
  <1> HIDE DEF P, chans, m, N
  <1>3. DOMAIN local = 1..m /\ DOMAIN chans = 1..(m + N)
    BY <1>1 DEF m
  <1>4. IsFiniteSet(A) /\ IsFiniteSet(E) /\ Cardinality(A) \in Nat /\ Cardinality(E) \in Nat
    <2>0. 1 \in Int /\ m \in Int /\ m + 1 \in Int /\ m + N \in Int
      BY <1>1
    <2>1. IsFiniteSet(1..m) /\ IsFiniteSet((m + 1)..(m + N))
      BY <2>0, FS_Interval
    <2>2. A \in SUBSET (1..m) /\ E \in SUBSET ((m + 1)..(m + N))
      BY <1>3
    <2> HIDE DEF A, E
    <2>3. IsFiniteSet(A) /\ IsFiniteSet(E)
      BY <2>1, <2>2, FS_Subset
    <2> QED BY <2>3, FS_CardinalityType
  <1>5. D = A \cup E /\ A \cap E = {}
    <2>1. \A i \in A : i \in 1..m
      BY <1>3
    <2>2. \A i \in E : i \notin 1..m
      BY <1>1
    <2>3. A \cap E = {}
      BY <2>1, <2>2
    <2>4. \A i \in 1..(m + N) : i \in 1..m \/ i \in (m + 1)..(m + N)
      BY <1>1
    <2>5. \A i \in 1..m : i \in 1..(m + N)
      BY <1>1
    <2>6. \A i \in (m + 1)..(m + N) : i \in 1..(m + N)
      BY <1>1
    <2>7. D \subseteq A \cup E
      BY <1>1, <1>3, <2>4
    <2>8. A \cup E \subseteq D
      BY <1>1, <1>3, <2>5, <2>6
    <2> QED BY <2>3, <2>7, <2>8
  <1>6. Cardinality(D) = Cardinality(A) + Cardinality(E)
    <2> HIDE DEF A, D, E
    <2>1. Cardinality(A \cup E) = Cardinality(A) + Cardinality(E) - Cardinality(A \cap E)
      BY <1>4, FS_Union
    <2>2. Cardinality(A \cap E) = 0
      BY <1>5, FS_EmptySet
    <2> QED BY <1>4, <1>5, <2>1, <2>2
  <1>7. Cardinality(B) = Cardinality(E)
    <2> DEFINE f == [i \in E |-> from[i - m]]
    <2>1. ASSUME NEW i \in E
          PROVE  i - m \in 1..N /\ m + (i - m) = i /\ P[i - m] = c
      <3>1. i \in (m + 1)..(m + N) /\ chans[i] = c
        OBVIOUS
      <3>2. i - m \in 1..N /\ m + (i - m) = i
        BY <1>1, <3>1
      <3> QED BY <1>1, <3>1, <3>2
    <2>2. /\ from \in [1..N -> DOMAIN public]
          /\ \A p \in 1..N : P[p] = public[from[p]]
          /\ \A p, r \in 1..N : p < r => from[p] # from[r]
          /\ \A k \in DOMAIN public : \E p \in 1..N : from[p] = k
      BY <1>2, Zenon DEF Sorted, N
    <2>3. f \in [E -> B]
      <3>1. ASSUME NEW i \in E PROVE from[i - m] \in B
        BY <2>1, <2>2
      <3> QED BY <3>1
    <2>4. \A i, j \in E : f[i] = f[j] => i = j
      <3> SUFFICES ASSUME NEW i \in E, NEW j \in E, f[i] = f[j] PROVE i = j
        OBVIOUS
      <3>1. PICK p \in 1..N, r \in 1..N : p = i - m /\ r = j - m /\ m + p = i /\ m + r = j
        BY <2>1
      <3>2. from[p] = from[r]
        BY <3>1
      <3>3. ~(p < r) /\ ~(r < p)
        BY <2>2, <3>2
      <3>4. p = r
        BY <1>1, <3>3
      <3> QED BY <3>1, <3>4
    <2>5. \A k \in B : \E i \in E : f[i] = k
      <3> SUFFICES ASSUME NEW k \in B PROVE \E i \in E : f[i] = k
        OBVIOUS
      <3>1. PICK p \in 1..N : from[p] = k
        BY <2>2
      <3>2. PICK i \in (m + 1)..(m + N) : i = m + p /\ i - m = p
        BY <1>1
      <3>3. chans[i] = c
        BY <1>1, <2>2, <3>1, <3>2
      <3>4. i \in E
        BY <3>3
      <3> QED BY <3>1, <3>2, <3>4
    <2> HIDE DEF f, E, B
    <2>6. f \in Bijection(E, B)
      BY <2>3, <2>4, <2>5 DEF Bijection, Injection, Surjection, IsInjective
    <2>7. ExistsBijection(E, B)
      BY <2>6 DEF ExistsBijection
    <2> QED BY <1>4, <2>7, FS_Bijection
  <1> QED BY <1>6, <1>7 DEF chans, Often

(* Within a category of the public list those at home come first, and      *)
(* otherwise the order of the list is kept.                                *)
LEMMA SortFact ==
    ASSUME NEW local \in Seq(Channel), NEW public \in Seq(Channel),
           NEW i \in (Len(local) + 1)..Len(Channels(local, public)),
           NEW j \in (Len(local) + 1)..Len(Channels(local, public)),
           i < j, Category(Channels(local, public)[i]) = Category(Channels(local, public)[j])
    PROVE  LET c == Channels(local, public)[i]
               d == Channels(local, public)[j]
           IN  \/ IsHome(c) /\ ~IsHome(d)
               \/ /\ IsHome(c) = IsHome(d)
                  /\ \E k, l \in DOMAIN public : k < l /\ public[k] = c /\ public[l] = d
  <1> DEFINE P == FlattenSeq(Groups(public))
             chans == Channels(local, public)
             m == Len(local)
             N == Len(P)
  <1>1. /\ Len(chans) = m + N /\ m \in Nat /\ N \in Nat
        /\ \A p \in 1..N : chans[m + p] = P[p]
    BY ChannelsFacts, Zenon
  <1>2. PICK from : Sorted(public, P, from)
    BY PublicSorted
  <1>3. i \in (m + 1)..Len(chans) /\ j \in (m + 1)..Len(chans)
        /\ Category(chans[i]) = Category(chans[j])
    OBVIOUS
  <1> HIDE DEF P, chans, m, N
  <1>4. PICK p \in 1..N, r \in 1..N : m + p = i /\ m + r = j /\ p < r
    <2>1. /\ i - m \in 1..N /\ j - m \in 1..N
          /\ m + (i - m) = i /\ m + (j - m) = j /\ i - m < j - m
      BY <1>1, <1>3
    <2> QED BY <2>1
  <1>5. chans[i] = P[p] /\ chans[j] = P[r]
    BY <1>1, <1>4
  <1>6. /\ from[p] \in DOMAIN public /\ from[r] \in DOMAIN public
        /\ P[p] = public[from[p]] /\ P[r] = public[from[r]]
        /\ IsHome(P[r]) => IsHome(P[p])
        /\ (IsHome(P[p]) <=> IsHome(P[r])) => from[p] < from[r]
    <2>1. /\ from \in [1..N -> DOMAIN public]
          /\ \A q \in 1..N : P[q] = public[from[q]]
          /\ \A q, s \in 1..N : q < s /\ Category(P[q]) = Category(P[s]) =>
               /\ IsHome(P[s]) => IsHome(P[q])
               /\ (IsHome(P[q]) <=> IsHome(P[s])) => from[q] < from[s]
      BY <1>2, Zenon DEF Sorted, N
    <2>2. Category(P[p]) = Category(P[r])
      BY <1>3, <1>5
    <2> QED BY <1>4, <2>1, <2>2
  <1>7. IsHome(P[p]) \in BOOLEAN /\ IsHome(P[r]) \in BOOLEAN
    BY DEF IsHome
  <1>8. \/ IsHome(P[p]) /\ ~IsHome(P[r])
        \/ /\ IsHome(P[p]) = IsHome(P[r])
           /\ \E k, l \in DOMAIN public : k < l /\ public[k] = P[p] /\ public[l] = P[r]
    <2>1. CASE IsHome(P[p]) <=> IsHome(P[r])
      BY <1>6, <1>7, <2>1
    <2>2. CASE ~(IsHome(P[p]) <=> IsHome(P[r]))
      BY <1>6, <1>7, <2>2
    <2> QED BY <2>1, <2>2, Zenon
  <1> QED BY <1>5, <1>8 DEF chans

-----------------------------------------------------------------------------
(* applyFilter.                                                            *)

(* Rows of n channels.                                                     *)
RowsOf(n) == [header : {""}, chan : 1..n] \cup [header : Titles, chan : {0}]

(* A title is not "".                                                      *)
LEMMA TitlesNamed ==
    /\ "" \notin Titles
    /\ Titles = {LocalHeader, Undefined} \cup ToSet(Categories)
  <1>1. LocalHeader # ""
    BY ListAssumption
  <1>2. <<>> \in Seq(Channel)
    OBVIOUS
  <1>3. /\ ToSet(GroupOrder) = {Undefined} \cup ToSet(Categories)
        /\ ToSet(GroupOrder) \subseteq STRING \ {""}
    BY <1>2, NamesFacts, Zenon
  <1> QED BY <1>1, <1>3 DEF Titles

(* All rows.                                                               *)
LEMMA RisingRows ==
    ASSUME NEW v, NEW n, Rising(v, 0, n)
    PROVE  /\ v \in Seq(RowsOf(n))
           /\ v # <<>> => Selectable(v) # {}
  <1>0. v \in Seq(AnyRow) /\ n \in Nat
    BY DEF Rising
  <1>1. /\ \A i \in 1..Len(v) : \/ v[i].header = "" /\ v[i].chan \in 1..n
                                \/ v[i].header \in Titles /\ v[i].chan = 0
        /\ \A c \in 1..n : \E i \in 1..Len(v) : v[i].chan = c
        /\ Len(v) > 0 => n > 0
    <2>1. 0 + 1 = 1
      OBVIOUS
    <2>2. /\ \A i \in 1..Len(v) : \/ v[i].header = "" /\ v[i].chan \in (0 + 1)..n
                                  \/ v[i].header \in Titles /\ v[i].chan = 0
          /\ \A c \in (0 + 1)..n : \E i \in 1..Len(v) : v[i].chan = c
          /\ Len(v) > 0 => 0 < n
      BY Zenon DEF Rising
    <2>3. Len(v) > 0 => n > 0
      BY <1>0, <2>2
    <2> QED BY <2>1, <2>2, <2>3, Zenon
  <1>2. ASSUME NEW i \in 1..Len(v)
        PROVE  v[i] \in RowsOf(n)
    <2>1. PICK r \in AnyRow : r = v[i]
      BY <1>0
    <2>2. r = [header |-> r.header, chan |-> r.chan]
      BY <2>1 DEF AnyRow
    <2>3. \/ r.header = "" /\ r.chan \in 1..n
          \/ r.header \in Titles /\ r.chan = 0
      BY <1>1, <2>1
    <2> QED BY <2>1, <2>2, <2>3 DEF RowsOf
  <1>3. v \in Seq(RowsOf(n))
    <2>1. Len(v) \in Nat /\ v = [i \in 1..Len(v) |-> v[i]]
      BY <1>0
    <2>2. PICK R : R = RowsOf(n)
      OBVIOUS
    <2>3. v \in [1..Len(v) -> R]
      BY <1>2, <2>1, <2>2
    <2> QED BY <2>1, <2>2, <2>3
  <1>4. ASSUME v # <<>> PROVE Selectable(v) # {}
    <2>1. Len(v) \in Nat /\ Len(v) > 0
      BY <1>0, <1>4
    <2>2. PICK i \in 1..Len(v) : v[i].chan = 1
      <3>2. n > 0
        BY <1>1, <2>1, Zenon
      <3>1. 1 \in 1..n
        BY <1>0, <3>2
      <3> QED BY <1>1, <3>1
    <2>3. v[i].header = ""
      <3>1. v[i].header = "" \/ v[i].chan = 0
        BY <1>1, Zenon
      <3>3. 1 # 0
        OBVIOUS
      <3>4. v[i].chan # 0
        BY <2>2, <3>3, Zenon
      <3> QED BY <3>1, <3>4, Zenon
    <2>4. i - 1 \in 0..(Len(v) - 1) /\ (i - 1) + 1 = i
      BY <2>1
    <2> QED BY <2>3, <2>4 DEF Selectable
  <1> QED BY <1>3, <1>4

(* The rows under a search: the matching channels.                         *)
LEMMA MatchRows ==
    ASSUME NEW chans \in Seq(Channel), NEW all, NEW f, f # <<>>
    PROVE  LET v == View(chans, all, f)
           IN  v \in Seq(RowsOf(Len(chans))) /\ (v # <<>> => Selectable(v) # {})
  <1> DEFINE n == Len(chans)
             I == {i \in DOMAIN chans : f \in SubSeqs(chans[i].name)}
             hits == Ascending(I)
             v == [k \in DOMAIN hits |-> ChannelRow(hits[k])]
  <1>1. n \in Nat /\ I \subseteq 1..n /\ IsFiniteSet(I) /\ I \subseteq Nat
    <2>1. n \in Nat /\ DOMAIN chans = 1..n
      OBVIOUS
    <2>2. I \in SUBSET (1..n) /\ I \subseteq Nat
      BY <2>1
    <2> HIDE DEF I, n
    <2>3. IsFiniteSet(1..n)
      BY <2>1, FS_Interval
    <2> QED BY <2>1, <2>2, <2>3, FS_Subset
  <1>2. View(chans, all, f) = v
    BY DEF View, Matches
  <1> HIDE DEF I, n
  <1>3. hits \in Seq(I) /\ Len(hits) = Cardinality(I) /\ DOMAIN hits = 1..Cardinality(I)
    BY <1>1, AscendingFacts
  <1> HIDE DEF hits
  <1>4. PICK l \in Nat : Len(hits) = l /\ DOMAIN hits = 1..l
    BY <1>3
  <1>5. ASSUME NEW k \in 1..l
        PROVE  ChannelRow(hits[k]) \in RowsOf(n)
    <2>0. hits[k] \in I
      BY <1>3, <1>4
    <2>1. hits[k] \in 1..n
      BY <1>1, <2>0
    <2> QED BY <2>1 DEF ChannelRow, RowsOf
  <1>6. v \in Seq(RowsOf(n)) /\ Len(v) = l
    <2>1. PICK R : R = RowsOf(n)
      OBVIOUS
    <2>2. v \in [1..l -> R] 
      BY <1>4, <1>5, <2>1
    <2> QED BY <2>1, <2>2
  <1>7. ASSUME v # <<>> PROVE Selectable(v) # {}
    <2>1. l > 0
      BY <1>6, <1>7
    <2>2. 0 \in 0..(Len(v) - 1) /\ 0 + 1 \in 1..l
      BY <1>6, <2>1
    <2>3. v[0 + 1].header = ""
      BY <1>4, <2>2 DEF ChannelRow
    <2> QED BY <2>2, <2>3 DEF Selectable
  <1> QED BY <1>2, <1>6, <1>7 DEF n

(* Whatever is searched for, a row that is shown is a header or has a      *)
(* channel, and some row has one.                                          *)
LEMMA RowsSound ==
    ASSUME NEW local \in Seq(Channel), NEW public \in Seq(Channel), NEW f
    PROVE  LET v == View(Channels(local, public), Items(local, public), f)
           IN  v \in Seq(RowsOf(Len(Channels(local, public)))) /\ (v # <<>> => Selectable(v) # {})
  <1>1. PICK chans \in Seq(Channel) : chans = Channels(local, public)
    BY ChannelsFacts
  <1>2. PICK all : all = Items(local, public)
    OBVIOUS
  <1>3. CASE f = <<>>
    <2>1. View(chans, all, f) = all
      BY <1>3 DEF View
    <2>2. Rising(all, 0, Len(chans))
      BY <1>1, <1>2, ItemsFacts
    <2> QED BY <1>1, <1>2, <2>1, <2>2, RisingRows
  <1>4. CASE f # <<>>
    BY <1>1, <1>2, <1>4, MatchRows
  <1> QED BY <1>3, <1>4

-----------------------------------------------------------------------------
(* The overlay.                                                            *)

(* What the handlers keep up to date by hand is what the sources and the   *)
(* search give.                                                            *)
Current ==
    /\ channels = Channels(localChans, publicChans)
    /\ items = Items(localChans, publicChans)
    /\ view = View(channels, items, filter)
    /\ loadErr = (publicChans = <<>>)

Shown ==
    /\ visible => overlay = Frame(channels, view, loadErr)
    /\ ~visible /\ ~sliding => overlay = <<>>

(* Everything but a refresh and a search leaves the rows alone.            *)
LEMMA CurrentStep == Current /\ [PanelNext]_allVars => Current'
  <1> SUFFICES ASSUME Current, [PanelNext]_allVars PROVE Current'
    OBVIOUS
  <1>1. CASE Tunes
    BY <1>1 DEF Tunes, Enter, Step, Started, sources, rows, Current
  <1>2. CASE Retry
    BY <1>2 DEF Retry, Started, sources, rows, Current
  <1>3. CASE Refused \/ Plays \/ \E wanted, renew \in BOOLEAN : Tick(wanted, renew)
    BY <1>3 DEF Refused, Plays, Tick, vars, sources, rows, Current
  <1>4. CASE Fails
    BY <1>4 DEF Fails, GiveUp, sources, rows, Current
  <1>5. CASE Searches
    BY <1>5 DEF Searches, Type, Backspace, Escape, ApplyFilter, sources, rows, Current
  <1>6. CASE Moves
    BY <1>6 DEF Moves, Move, sources, rows, Current
  <1>7. CASE ShowsHides
    BY <1>7 DEF ShowsHides, Toggle, Escape, sources, rows, Current
  <1>8. CASE Refreshes
    BY <1>8 DEF Refreshes, LoadErr, Refresh, Rebuild, ApplyFilter, sources, rows, Current
  <1>9. CASE UNCHANGED allVars
    BY <1>9 DEF allVars, panelVars, vars, sources, rows, Current
  <1> QED
    BY <1>1, <1>2, <1>3, <1>4, <1>5, <1>6, <1>7, <1>8, <1>9 DEF PanelNext

(* What is not touched is shown as it was.                                 *)
LEMMA SameFrame ==
    ASSUME Shown, UNCHANGED <<vars, loadErr, status, sliding, gliding, overlay>>
    PROVE  Shown'
  <1>1. /\ channels' = channels /\ view' = view /\ scroll' = scroll /\ sel' = sel
        /\ filter' = filter /\ current' = current /\ visible' = visible
        /\ status' = status /\ sliding' = sliding /\ gliding' = gliding /\ overlay' = overlay
        /\ loadErr' = loadErr
    BY DEF vars, rows
  <1>2. (gliding \/ view = <<>>) <=> (gliding' \/ view' = <<>>)
    BY <1>1
  <1>3. Frame(channels, view, loadErr)' = Frame(channels, view, loadErr)
    BY <1>1, <1>2 DEF Frame, Header
  <1>4. /\ visible' => overlay' = Frame(channels, view, loadErr)
        /\ ~visible' /\ ~sliding' => overlay' = <<>>
    BY <1>1 DEF Shown
  <1> QED
    BY <1>3, <1>4, Zenon DEF Shown

(* Each handler that changes what a frame shows has it drawn again, if     *)
(* only by tick while the panel slides.                                    *)
LEMMA ShownStep == Shown /\ [PanelNext]_allVars => Shown'
  <1> SUFFICES ASSUME Shown, [PanelNext]_allVars PROVE Shown'
    OBVIOUS
  <1>0. ASSUME Render PROVE Shown'
    BY <1>0 DEF Render, Drawn, Shown
  <1>1. CASE Tunes \/ Retry \/ Refused \/ Plays \/ Fails \/ Searches \/ Moves \/ ShowsHides
    BY <1>0, <1>1 DEF Tunes, Started, Retry, Refused, Plays, Fails, Searches, Moves, ShowsHides
  <1>2. CASE Refreshes
    <2>1. visible' = visible /\ sliding' = sliding /\ (~visible => overlay' = overlay)
      BY <1>2 DEF Refreshes, Refresh
    <2>2. visible => Render
      BY <1>2 DEF Refreshes
    <2> QED BY <2>1, <2>2, <1>0 DEF Shown
  <1>3. CASE \E wanted, renew \in BOOLEAN : Tick(wanted, renew)
    <2>1. sliding \/ gliding => Render
      BY <1>3 DEF Tick
    <2>2. ~(sliding \/ gliding) => UNCHANGED <<vars, loadErr, status, sliding, gliding, overlay>>
      BY <1>3 DEF Tick
    <2>3. UNCHANGED <<vars, loadErr, status, sliding, gliding, overlay>> => Shown'
      BY SameFrame
    <2> QED BY <2>1, <2>2, <2>3, <1>0
  <1>4. CASE UNCHANGED allVars
    BY <1>4, SameFrame DEF allVars, panelVars
  <1> QED
    BY <1>1, <1>2, <1>3, <1>4 DEF PanelNext

(* For any lists, searches and panel, an open panel shows what there is    *)
(* and a closed one is gone: no handler forgets to draw.                   *)
THEOREM OverlayIsFresh == PanelSpec => []OverlayFresh
  <1>1. PanelInit => Current /\ Shown
    BY DEF PanelInit, Init, Current, Shown, Drawn, View
  <1>2. Current /\ Shown => OverlayFresh
    BY DEF Current, Shown, OverlayFresh
  <1> QED
    BY <1>1, <1>2, CurrentStep, ShownStep, PTL DEF PanelSpec

-----------------------------------------------------------------------------
(* The marker and the bar.                                                 *)

(* A set of numbers has a least one, which Min gives.                      *)
LEMMA MinFact ==
    \A S : S \subseteq Nat /\ S # {} => Min(S) \in S /\ \A k \in S : Min(S) <= k
  <1> SUFFICES ASSUME NEW S, S \subseteq Nat, S # {}
               PROVE  Min(S) \in S /\ \A k \in S : Min(S) <= k
    OBVIOUS
  <1>1. \E x \in S : \A y \in S : x <= y
    BY LeastElement
  <1> QED
    BY <1>1 DEF Min

(* The first channel with a URL, 0 if there is none.                       *)
IndexOf(chans, u) ==
    LET I == {i \in 1..Len(chans) : chans[i].url = u}
    IN IF I # {} THEN Min(I) ELSE 0

(* rebuild finds a channel with the URL, and none if there is none.        *)
LEMMA Found ==
    \A chans, u, S :
        chans \in Seq(S) =>
            /\ IndexOf(chans, u) # 0 => /\ IndexOf(chans, u) \in 1..Len(chans)
                                       /\ chans[IndexOf(chans, u)].url = u
            /\ IndexOf(chans, u) = 0 => \A i \in 1..Len(chans) : chans[i].url # u
  <1> SUFFICES ASSUME NEW chans, NEW u, NEW S, chans \in Seq(S)
               PROVE  /\ IndexOf(chans, u) # 0 => /\ IndexOf(chans, u) \in 1..Len(chans)
                                                 /\ chans[IndexOf(chans, u)].url = u
                      /\ IndexOf(chans, u) = 0 => \A i \in 1..Len(chans) : chans[i].url # u
    OBVIOUS
  <1> DEFINE I == {i \in 1..Len(chans) : chans[i].url = u}
  <1>1. IndexOf(chans, u) = IF I # {} THEN Min(I) ELSE 0
    BY DEF IndexOf
  <1>2. I \subseteq Nat /\ 0 \notin I
    OBVIOUS
  <1>3. I # {} => Min(I) \in I
    BY <1>2, MinFact
  <1> QED
    BY <1>1, <1>2, <1>3

(* The lists are lists of channels.                                        *)
LEMMA KnownLists ==
    /\ <<>> \in Locals
    /\ \A local \in Locals : local \in Seq(Channel)
    /\ \A public \in Publics : public \in Seq(Channel)
  BY ListAssumption

(* A panel has at least two rows.                                          *)
LEMMA PanelSize == MaxRows \in Nat /\ MaxRows >= 2
  BY ListAssumption, Zenon

(* A refresh moves the marker with the URL.                                *)
LEMMA RefreshFinds ==
    ASSUME NEW local \in Locals, NEW public \in Publics, Refresh(local, public)
    PROVE  /\ channels' \in Seq(Channel)
           /\ current = 0 => current' = 0
           /\ current # 0 =>
                /\ current' # 0 => /\ current' \in 1..Len(channels')
                                   /\ channels'[current'].url = channels[current].url
                /\ current' = 0 =>
                     \A i \in 1..Len(channels') : channels'[i].url # channels[current].url
  <1>1. channels' = Channels(local, public) /\ current' = Resolve(Channels(local, public))
    BY DEF Refresh, Rebuild
  <1>2. Channels(local, public) \in Seq(Channel)
    BY KnownLists, ChannelsFacts
  <1>3. PICK chans : chans = Channels(local, public)
    OBVIOUS
  <1>4. PICK u : u = channels[current].url
    OBVIOUS
  <1>6. chans \in Seq(Channel)
    BY <1>2, <1>3
  <1>7. Resolve(chans) = IF current = 0 THEN 0 ELSE IndexOf(chans, u)
    BY <1>4 DEF Resolve, SelectInSeq, IndexOf
  <1> QED
    BY <1>1, <1>2, <1>3, <1>4, <1>6, <1>7, Found

(* Only a tuning and the tick change the text of the bar, and both take    *)
(* the channel that plays; a refresh takes the marker to its URL.          *)
LEMMA BarStep == BarTrue /\ [PanelNext]_allVars => BarTrue'
  <1> SUFFICES ASSUME BarTrue, [PanelNext]_allVars PROVE BarTrue'
    OBVIOUS
  <1>1. CASE Tunes \/ Retry
    <2>1. channels' = channels /\ bar' = channels[current'].url
      BY <1>1 DEF Tunes, Enter, Step, Retry, Started, rows
    <2> QED BY <2>1 DEF BarTrue
  <1>2. CASE Refused \/ Plays \/ Searches \/ Moves \/ ShowsHides \/ UNCHANGED allVars
    <2>1. channels' = channels /\ current' = current /\ bar' = bar /\ barShown' = barShown
      BY <1>2 DEF Refused, Plays, Searches, Type, Backspace, Escape, Moves, Move, ShowsHides,
                  Toggle, barVars, allVars, panelVars, vars, rows
    <2> QED BY <2>1, Zenon DEF BarTrue
  <1>3. CASE Fails
    BY <1>3 DEF Fails, GiveUp, BarTrue
  <1>4. CASE Refreshes
    <2>1. PICK local \in Locals, public \in Publics : Refresh(local, public)
      BY <1>4 DEF Refreshes
    <2>2. bar' = bar /\ barShown' = barShown
      BY <1>4 DEF Refreshes, barVars
    <2>3. barShown' => barShown
      BY <2>2, Zenon
    <2> QED BY <2>1, <2>2, <2>3, RefreshFinds DEF BarTrue
  <1>5. CASE \E wanted, renew \in BOOLEAN : Tick(wanted, renew)
    <2>1. PICK wanted \in BOOLEAN, renew \in BOOLEAN : Tick(wanted, renew)
      BY <1>5
    <2>2. channels' = channels /\ current' = current
      BY <2>1 DEF Tick, vars, rows
    <2>3. barShown' => \/ bar' = channels[current].url
                       \/ barShown /\ bar' = bar
      BY <2>1, Zenon DEF Tick, TickInfoBar
    <2> QED BY <2>2, <2>3 DEF BarTrue
  <1> QED
    BY <1>1, <1>2, <1>3, <1>4, <1>5 DEF PanelNext

(* For any lists and any order of zaps, refreshes and ticks, the bar on    *)
(* the screen names the channel that plays.                                *)
THEOREM BarNamesPlaying == PanelSpec => []BarTrue
  <1>1. PanelInit => BarTrue
    BY DEF PanelInit, BarTrue
  <1>2. BarTrue /\ [PanelNext]_allVars => BarTrue'
    BY BarStep
  <1> QED
    BY <1>1, <1>2, PTL DEF PanelSpec

(* For any lists, a refresh leaves the marker on the channel that plays,   *)
(* or takes it away with the channel.                                      *)
THEOREM MarkerStays == PanelSpec => MarkerFollows
  <1> DEFINE Follows ==
        <<localChans, publicChans>>' # sources /\ current # 0
           => IF \E c \in ToSet(channels') : c.url = channels[current].url
              THEN current' # 0 /\ channels'[current'].url = channels[current].url
              ELSE current' = 0
  <1>1. [PanelNext]_allVars => [Follows]_vars
    <2> SUFFICES ASSUME [PanelNext]_allVars PROVE Follows
      OBVIOUS
    <2>1. CASE Refreshes
      <3>1. PICK local \in Locals, public \in Publics : Refresh(local, public)
        BY <2>1 DEF Refreshes
      <3>2. PICK S : channels' \in Seq(S)
        BY <3>1, RefreshFinds
      <3>3. ToSet(channels') = {channels'[i] : i \in 1..Len(channels')}
        BY <3>2 DEF ToSet
      <3> QED BY <3>1, <3>3, RefreshFinds
    <2>2. CASE ~Refreshes
      <3>1. <<localChans, publicChans>>' = sources
        BY <2>2 DEF PanelNext, Tunes, Enter, Step, Retry, Refused, Plays, Fails, GiveUp, Searches,
                    Type, Backspace, Escape, Moves, Move, ShowsHides, Toggle, Tick, allVars, vars, sources
      <3> QED BY <3>1
    <2> QED BY <2>1, <2>2
  <1> QED
    BY <1>1, PTL DEF PanelSpec, MarkerFollows

-----------------------------------------------------------------------------
(* The selection and the panel.                                            *)

(* Rows of some channels, one of which has a channel.                      *)
Sound(v) == (\E n : v \in Seq(RowsOf(n))) /\ (v # <<>> => Selectable(v) # {})

(* SelOnPanel of rows v, a selection s and a scroll position top.          *)
OnPanel(v, s, top) ==
    v # <<>> => /\ s \in Selectable(v)
                /\ top <= IF IsHeader(v, s - 1) THEN s - 1 ELSE s
                /\ s < top + MaxRows
                /\ top = 0 \/ top + MaxRows <= Len(v)

(* Rows are counted from 0.                                                *)
LEMMA SelectableRows ==
    ASSUME NEW v, Len(v) \in Nat
    PROVE  \A i \in Selectable(v) : i \in Nat /\ i < Len(v)
  <1>1. Selectable(v) \subseteq 0..(Len(v) - 1)
    BY Zenon DEF Selectable
  <1> HIDE DEF Selectable
  <1>2. \A i \in 0..(Len(v) - 1) : i \in Nat /\ i < Len(v)
    OBVIOUS
  <1> QED BY <1>1, <1>2

(* Among some rows one is the nearest.                                     *)
LEMMA NearestFact ==
    ASSUME NEW S, S \subseteq Nat, S # {}, NEW i \in Nat
    PROVE  Nearest(S, i) \in S
  <1> DEFINE d(j) == (j - i) * (j - i)
             Q == {d(j) : j \in S}
  <1>1. \A j \in S : d(j) \in Nat
    <2> SUFFICES ASSUME NEW j \in S PROVE d(j) \in Nat
      OBVIOUS
    <2>1. PICK e \in Int : e = j - i
      OBVIOUS
    <2>2. e * e >= 0 /\ e * e \in Int
      BY Z3
    <2> QED BY <2>1, <2>2
  <1>2. Q \subseteq Nat /\ Q # {}
    BY <1>1
  <1>3. Min(Q) \in Q /\ \A q \in Q : Min(Q) <= q
    <2> HIDE DEF Q
    <2> QED BY <1>2, MinFact
  <1>4. PICK j \in S : d(j) = Min(Q)
    BY <1>3
  <1>5. \A k \in S : d(j) <= d(k)
    <2> SUFFICES ASSUME NEW k \in S PROVE d(j) <= d(k)
      OBVIOUS
    <2>1. d(k) \in Q
      OBVIOUS
    <2> HIDE DEF d, Q
    <2> QED BY <2>1, <1>3, <1>4
  <1> QED
    BY <1>5, Zenon DEF Nearest

(* snapSelectable ends on a channel row if there is one.                   *)
LEMMA SnapFact ==
    ASSUME NEW v, Sound(v), NEW i \in Int, NEW dir \in Int
    PROVE  Snap(v, i, dir) \in Nat /\ (v # <<>> => Snap(v, i, dir) \in Selectable(v))
  <1>1. CASE v = <<>>
    BY <1>1 DEF Snap
  <1>2. CASE v # <<>>
    <2> DEFINE at     == Clamp(i, 0, Len(v) - 1)
               ahead  == {j \in Selectable(v) : (j - at) * dir >= 0}
               behind == Selectable(v) \ ahead
    <2>1. Len(v) \in Nat /\ Len(v) > 0
      BY <1>2 DEF Sound
    <2>2. at \in Nat
      BY <2>1 DEF Clamp
    <2>3. Selectable(v) # {} /\ Selectable(v) \subseteq Nat
      BY <1>2, <2>1, SelectableRows DEF Sound
    <2>4. ahead \subseteq Selectable(v) /\ behind \subseteq Selectable(v) /\ (ahead = {} => behind # {})
      BY <2>3
    <2>5. Snap(v, i, dir) = IF ahead # {} THEN Nearest(ahead, at)
                            ELSE IF behind # {} THEN Nearest(behind, at) ELSE at
      BY <1>2 DEF Snap
    <2> HIDE DEF at, ahead, behind
    <2>6. CASE ahead # {}
      BY <2>2, <2>3, <2>4, <2>5, <2>6, NearestFact
    <2>7. CASE ahead = {}
      BY <2>2, <2>3, <2>4, <2>5, <2>7, NearestFact
    <2> QED BY <2>6, <2>7
  <1> QED BY <1>1, <1>2

(* clampScroll puts it on the panel.                                       *)
LEMMA ScrollFact ==
    ASSUME NEW v, Sound(v), NEW s \in Nat, v # <<>> => s \in Selectable(v), v = <<>> => s = 0,
           NEW top \in Nat
    PROVE  ClampScroll(v, s, top) \in Nat /\ OnPanel(v, s, ClampScroll(v, s, top))
  <1> DEFINE inside   == Clamp(top, s - MaxRows + 1, s)
             revealed == IF inside = s /\ s > 0 /\ IsHeader(v, s - 1) THEN s - 1 ELSE inside
             most     == IF Len(v) > MaxRows THEN Len(v) - MaxRows ELSE 0
  <1>1. Len(v) \in Nat /\ MaxRows \in Nat /\ MaxRows >= 2
    <2>1. Len(v) \in Nat
      BY DEF Sound
    <2> QED BY <2>1, PanelSize
  <1>2. inside \in Int /\ (s - MaxRows) + 1 <= inside /\ inside <= s
    BY <1>1 DEF Clamp
  <1>3. /\ revealed \in Int /\ (s - MaxRows) + 1 <= revealed /\ revealed <= s
        /\ s > 0 /\ IsHeader(v, s - 1) => revealed <= s - 1
    BY <1>1, <1>2
  <1>4. most \in Nat /\ (most = 0 \/ most + MaxRows = Len(v)) /\ Len(v) <= most + MaxRows
    BY <1>1
  <1>5. ClampScroll(v, s, top) = Clamp(revealed, 0, most)
    BY DEF ClampScroll
  <1> HIDE DEF inside, revealed, most
  <1>6. PICK c : c = Clamp(revealed, 0, most)
    OBVIOUS
  <1>7. c \in Nat /\ c <= most /\ (c = most \/ c >= revealed) /\ (c = 0 \/ c <= revealed)
    BY <1>3, <1>4, <1>6 DEF Clamp
  <1>8. ASSUME v # <<>>
        PROVE  /\ c <= IF IsHeader(v, s - 1) THEN s - 1 ELSE s
               /\ s < c + MaxRows
               /\ c = 0 \/ c + MaxRows <= Len(v)
    <2>1. s < Len(v)
      BY <1>1, <1>8, SelectableRows
    <2>2. IsHeader(v, s - 1) => s > 0
      <3>1. IsHeader(v, s - 1) => s - 1 \in 0..(Len(v) - 1)
        BY Zenon DEF IsHeader
      <3> QED BY <1>1, <3>1
    <2>3. c <= IF IsHeader(v, s - 1) THEN s - 1 ELSE s
      BY <1>3, <1>7, <2>2
    <2>4. s < c + MaxRows
      BY <1>1, <1>3, <1>4, <1>7, <2>1
    <2>5. c = 0 \/ c + MaxRows <= Len(v)
      BY <1>1, <1>4, <1>7
    <2> QED BY <2>3, <2>4, <2>5
  <1> QED
    BY <1>5, <1>6, <1>7, <1>8 DEF OnPanel

(* The selection is in range, and the sources are lists of channels.       *)
SelInv ==
    /\ localChans \in Locals /\ publicChans \in Publics
    /\ sel \in Nat /\ scroll \in Nat
    /\ SelOnPanel

(* A move or a new set of rows leaves the selection on the panel.          *)
LEMMA Snapped ==
    ASSUME NEW v, Sound(v), NEW i \in Int, NEW dir \in Int, NEW top \in Nat,
           view' = v, sel' = Snap(v, i, dir), scroll' = ClampScroll(v, sel', top)
    PROVE  sel' \in Nat /\ scroll' \in Nat /\ SelOnPanel'
  <1>1. PICK s : s = Snap(v, i, dir)
    OBVIOUS
  <1>2. PICK c : c = ClampScroll(v, s, top)
    OBVIOUS
  <1>3. sel' = s /\ scroll' = c
    BY <1>1, <1>2
  <1>4. s \in Nat /\ (v # <<>> => s \in Selectable(v)) /\ (v = <<>> => s = 0)
    BY <1>1, SnapFact DEF Snap
  <1>5. c \in Nat /\ OnPanel(v, s, c)
    BY <1>2, <1>4, ScrollFact
  <1> QED
    BY <1>3, <1>4, <1>5 DEF SelOnPanel, OnPanel

(* applyFilter.                                                            *)
LEMMA Filtered ==
    ASSUME NEW chans, NEW all, NEW f, NEW s \in Nat, NEW top \in Nat,
           Sound(View(chans, all, f)), ApplyFilter(chans, all, f, s, top)
    PROVE  filter' = f /\ sel' \in Nat /\ scroll' \in Nat /\ SelOnPanel'
  <1> DEFINE v  == View(chans, all, f)
             at == Clamp(s, 0, IF v = <<>> THEN 0 ELSE Len(v) - 1)
  <1>1. /\ filter' = f /\ view' = v /\ sel' = Snap(v, at, 1)
        /\ scroll' = ClampScroll(v, Snap(v, at, 1), top)
    BY DEF ApplyFilter
  <1>2. scroll' = ClampScroll(v, sel', top)
    BY <1>1
  <1>3. at \in Int
    BY DEF Clamp, Sound
  <1> HIDE DEF v, at
  <1>4. Sound(v)
    BY DEF v
  <1> QED
    BY <1>1, <1>2, <1>3, <1>4, Snapped

(* Rows of known sources are sound under every search.                     *)
LEMMA SoundRows ==
    ASSUME NEW local \in Locals, NEW public \in Publics, NEW f
    PROVE  Sound(View(Channels(local, public), Items(local, public), f))
  <1>1. PICK l \in Seq(Channel), p \in Seq(Channel) : l = local /\ p = public
    BY KnownLists
  <1>2. Sound(View(Channels(l, p), Items(l, p), f))
    BY RowsSound, Zenon DEF Sound
  <1> QED BY <1>1, <1>2

(* Only moves, searches and refreshes touch the rows or the selection.     *)
LEMMA SelStep == Current /\ SelInv /\ [PanelNext]_allVars => SelInv'
  <1> SUFFICES ASSUME Current, SelInv, [PanelNext]_allVars PROVE SelInv'
    OBVIOUS
  <1> DEFINE Same == UNCHANGED <<localChans, publicChans, filter, view, sel, scroll>>
  <1>0. Same => SelInv'
    BY DEF SelInv, SelOnPanel
  <1> USE DEF sources, rows
  <1>1. CASE Tunes \/ Retry
    <2>1. Same
      BY <1>1 DEF Tunes, Enter, Step, Retry
    <2> QED BY <1>0, <2>1
  <1>2. CASE Refused \/ Plays \/ Fails \/ ShowsHides \/ UNCHANGED allVars
               \/ \E wanted, renew \in BOOLEAN : Tick(wanted, renew)
    <2>1. Same
      BY <1>2 DEF Refused, Plays, Fails, GiveUp, ShowsHides, Toggle, Escape, Tick, allVars, vars
    <2> QED BY <1>0, <2>1
  <1>3. CASE Searches
    <2>1. UNCHANGED sources
      BY <1>3 DEF Searches, Type, Backspace, Escape
    <2>2. \E f : \E s \in Nat, top \in Nat : ApplyFilter(channels, items, f, s, top)
      <3>1. CASE \E letter \in Letters : Type(letter)
        <4>1. PICK letter \in Letters : Type(letter)
          BY <3>1
        <4> QED BY <4>1 DEF Type, SelInv
      <3>2. CASE Backspace
        BY <3>2 DEF Backspace, SelInv
      <3>3. CASE filter # <<>> /\ Escape
        BY <3>3 DEF Escape, SelInv
      <3> QED BY <1>3, <3>1, <3>2, <3>3 DEF Searches
    <2>9. PICK f : \E s \in Nat, top \in Nat : ApplyFilter(channels, items, f, s, top)
      BY <2>2
    <2>3. PICK s \in Nat, top \in Nat : ApplyFilter(channels, items, f, s, top)
      BY <2>9
    <2>4. PICK chans, all : chans = channels /\ all = items
      OBVIOUS
    <2>5. PICK local \in Locals, public \in Publics : local = localChans /\ public = publicChans
      BY DEF SelInv
    <2>6. Sound(View(chans, all, f))
      BY <2>4, <2>5, SoundRows DEF Current
    <2>7. ApplyFilter(chans, all, f, s, top)
      BY <2>3, <2>4
    <2>8. filter' = f /\ sel' \in Nat /\ scroll' \in Nat /\ SelOnPanel'
      BY <2>6, <2>7, Filtered
    <2> QED BY <2>1, <2>8 DEF SelInv
  <1>4. CASE Moves
    <2>1. PICK delta \in Deltas : Move(delta)
      BY <1>4 DEF Moves
    <2>2. delta \in Int
      BY PanelSize DEF Deltas
    <2>3. PICK v : v = view
      OBVIOUS
    <2>4. PICK local \in Locals, public \in Publics : local = localChans /\ public = publicChans
      BY DEF SelInv
    <2>9. PICK f : f = filter
      OBVIOUS
    <2>5. Sound(v)
      BY <2>3, <2>4, <2>9, SoundRows DEF Current
    <2>6. PICK i \in Int, top \in Nat : i = sel + delta /\ top = scroll
      BY <2>2 DEF SelInv
    <2>7. /\ view' = v /\ sel' = Snap(v, i, Dir(delta)) /\ scroll' = ClampScroll(v, sel', top)
          /\ UNCHANGED <<localChans, publicChans, filter>>
      BY <2>1, <2>3, <2>6 DEF Move
    <2>8. sel' \in Nat /\ scroll' \in Nat /\ SelOnPanel'
      BY <2>5, <2>7, Snapped DEF Dir
    <2> QED BY <2>7, <2>8 DEF SelInv
  <1>5. CASE Refreshes
    <2>1. PICK local \in Locals, public \in Publics : Refresh(local, public)
      BY <1>5 DEF Refreshes
    <2>6. PICK f : f = filter
      OBVIOUS
    <2>2. PICK s \in Nat, top \in Nat : f = filter /\ s = sel /\ top = scroll
      BY <2>6 DEF SelInv
    <2>3. ApplyFilter(Channels(local, public), Items(local, public), f, s, top)
      BY <2>1, <2>2 DEF Refresh, Rebuild
    <2>4. filter' = f /\ sel' \in Nat /\ scroll' \in Nat /\ SelOnPanel'
      BY <2>3, SoundRows, Filtered
    <2>5. localChans' = local /\ publicChans' = public
      BY <2>1 DEF Refresh
    <2> QED BY <2>4, <2>5 DEF SelInv
  <1> QED
    BY <1>1, <1>2, <1>3, <1>4, <1>5 DEF PanelNext

(* newUI selects the first channel.                                        *)
LEMMA SelInit == PanelInit => SelInv
  <1> SUFFICES ASSUME PanelInit PROVE SelInv
    OBVIOUS
  <1>1. /\ localChans = <<>> /\ publicChans \in Publics /\ filter = <<>>
        /\ view = Items(<<>>, publicChans)
        /\ sel = Snap(view, 0, 1) /\ scroll = ClampScroll(view, sel, 0)
    BY DEF PanelInit, Init
  <1>2. <<>> \in Locals
    BY ListAssumption
  <1>3. view = View(Channels(<<>>, publicChans), Items(<<>>, publicChans), <<>>)
    BY <1>1 DEF View
  <1>4. Sound(view)
    BY <1>1, <1>2, <1>3, SoundRows
  <1>5. sel \in Nat /\ (view # <<>> => sel \in Selectable(view)) /\ (view = <<>> => sel = 0)
    <2>1. PICK v : v = view
      OBVIOUS
    <2>2. Snap(v, 0, 1) \in Nat /\ (v # <<>> => Snap(v, 0, 1) \in Selectable(v))
      BY <1>4, <2>1, SnapFact
    <2>3. v = <<>> => Snap(v, 0, 1) = 0
      BY DEF Snap
    <2> QED BY <1>1, <2>1, <2>2, <2>3
  <1>6. scroll \in Nat /\ OnPanel(view, sel, scroll)
    BY <1>1, <1>4, <1>5, ScrollFact
  <1> QED
    BY <1>1, <1>2, <1>5, <1>6 DEF SelInv, SelOnPanel, OnPanel

(* For any lists, searches and size of the panel, no move, search or       *)
(* refresh takes the selection off the channels or off the panel.          *)
THEOREM SelectionStays == PanelSpec => []SelOnPanel
  <1>1. PanelInit => Current /\ SelInv
    BY SelInit DEF PanelInit, Init, Current, View
  <1>2. Current /\ SelInv /\ [PanelNext]_allVars => Current' /\ SelInv'
    BY CurrentStep, SelStep
  <1>3. SelInv => SelOnPanel
    BY DEF SelInv
  <1> QED
    BY <1>1, <1>2, <1>3, PTL DEF PanelSpec

(* For any two lists, and any order of refreshes and keys, every channel   *)
(* of both sources has its rows, in the order of ui.channels, and within a *)
(* category those at home are first and the order of the playlist is kept. *)
THEOREM RowsArranged == PanelSpec => []Arranged
  <1>1. PanelInit => Current /\ SelInv
    BY SelInit DEF PanelInit, Init, Current, View
  <1>2. Current /\ SelInv /\ [PanelNext]_allVars => Current' /\ SelInv'
    BY CurrentStep, SelStep
  <1>3. Current /\ SelInv => Arranged
    <2> SUFFICES ASSUME Current, SelInv PROVE Arranged
      OBVIOUS
    <2>1. PICK local \in Seq(Channel), public \in Seq(Channel) :
             local = localChans /\ public = publicChans
      BY KnownLists DEF SelInv
    <2>2. PICK chans, all : chans = channels /\ all = items
      OBVIOUS
    <2>3. chans = Channels(local, public) /\ all = Items(local, public)
      BY <2>1, <2>2 DEF Current
    <2>4. chans \in Seq(Channel) /\ Rising(all, 0, Len(chans))
      BY <2>3, ChannelsFacts, ItemsFacts
    <2>5. DOMAIN chans = 1..Len(chans) /\ DOMAIN all = 1..Len(all)
      <3>1. all \in Seq(AnyRow)
        BY <2>4 DEF Rising
      <3>2. DOMAIN all = 1..Len(all)
        BY <3>1
      <3>3. DOMAIN chans = 1..Len(chans)
        BY <2>4
      <3> QED BY <3>2, <3>3
    <2>6. /\ \A i \in 1..Len(all) : all[i].chan \in 1..Len(chans) \/ all[i].chan = 0
          /\ \A i, j \in 1..Len(all) :
               i < j /\ all[i].chan # 0 /\ all[j].chan # 0 => all[i].chan < all[j].chan
          /\ \A c \in 1..Len(chans) : \E i \in 1..Len(all) : all[i].chan = c
      <3>1. 0 + 1 = 1
        OBVIOUS
      <3>2. /\ \A i \in 1..Len(all) : all[i].chan \in (0 + 1)..Len(chans) \/ all[i].chan = 0
            /\ \A i, j \in 1..Len(all) :
                 i < j /\ all[i].chan # 0 /\ all[j].chan # 0 => all[i].chan < all[j].chan
            /\ \A c \in (0 + 1)..Len(chans) : \E i \in 1..Len(all) : all[i].chan = c
        BY <2>4, Zenon DEF Rising
      <3> QED BY <3>1, <3>2, Zenon
    <2>7. {all[i].chan : i \in DOMAIN all} \ {0} = DOMAIN chans
      <3>1. 0 \notin 1..Len(chans)
        BY <2>4
      <3> QED BY <2>5, <2>6, <3>1
    <2>8. \A c : Often(chans, c) = Often(local, c) + Often(public, c)
      BY <2>3, CountFact
    <2>9. ASSUME NEW i \in (Len(local) + 1)..Len(chans), NEW j \in (Len(local) + 1)..Len(chans),
                 i < j, Category(chans[i]) = Category(chans[j])
          PROVE  \/ IsHome(chans[i]) /\ ~IsHome(chans[j])
                 \/ /\ IsHome(chans[i]) = IsHome(chans[j])
                    /\ \E k, l \in DOMAIN public :
                         k < l /\ public[k] = chans[i] /\ public[l] = chans[j]
      BY <2>3, <2>9, SortFact
    <2>10. \A i, j \in DOMAIN items :
             i < j /\ items[i].chan # 0 /\ items[j].chan # 0 => items[i].chan < items[j].chan
      BY <2>2, <2>5, <2>6, Zenon
    <2>11. \A i, j \in (Len(localChans) + 1)..Len(channels) :
             LET c == channels[i] d == channels[j]
             IN i < j /\ Category(c) = Category(d) /\ c # d =>
                \/ IsHome(c) /\ ~IsHome(d)
                \/ /\ IsHome(c) = IsHome(d)
                   /\ \E k, l \in DOMAIN publicChans :
                        k < l /\ publicChans[k] = c /\ publicChans[l] = d
      <3>1. \A i, j \in (Len(local) + 1)..Len(chans) :
               LET c == chans[i] d == chans[j]
               IN i < j /\ Category(c) = Category(d) /\ c # d =>
                  \/ IsHome(c) /\ ~IsHome(d)
                  \/ /\ IsHome(c) = IsHome(d)
                     /\ \E k, l \in DOMAIN public :
                          k < l /\ public[k] = c /\ public[l] = d
        BY <2>9, Zenon
      <3> QED BY <2>1, <2>2, <3>1
    <2>12. {items[i].chan : i \in DOMAIN items} \ {0} = DOMAIN channels
      BY <2>2, <2>7, Zenon
    <2>13. \A c : Often(channels, c) = Often(localChans, c) + Often(publicChans, c)
      BY <2>1, <2>2, <2>8
    <2> QED BY <2>10, <2>11, <2>12, <2>13 DEF Arranged, Often
  <1> QED
    BY <1>1, <1>2, <1>3, PTL DEF PanelSpec

-----------------------------------------------------------------------------
(* The types.                                                              *)

Playable == visible \in BOOLEAN /\ current \in 0..Len(channels)

(* The rows are of the channels there are.                                 *)
LEMMA RowsKnown ==
    Current /\ SelInv => LET R == RowsOf(Len(channels))
                         IN  channels \in Seq(Channel) /\ items \in Seq(R) /\ view \in Seq(R)
  <1> SUFFICES ASSUME Current, SelInv
               PROVE  LET R == RowsOf(Len(channels))
                      IN  channels \in Seq(Channel) /\ items \in Seq(R) /\ view \in Seq(R)
    OBVIOUS
  <1>1. PICK local \in Seq(Channel), public \in Seq(Channel) :
           local = localChans /\ public = publicChans
    BY KnownLists DEF SelInv
  <1>2. PICK chans, all, f : chans = channels /\ all = items /\ f = filter
    OBVIOUS
  <1>3. chans = Channels(local, public) /\ all = Items(local, public) /\ view = View(chans, all, f)
    BY <1>1, <1>2 DEF Current
  <1>4. chans \in Seq(Channel)
    BY <1>3, ChannelsFacts
  <1>5. all \in Seq(RowsOf(Len(chans)))
    BY <1>3, ItemsFacts, RisingRows
  <1>6. View(chans, all, f) \in Seq(RowsOf(Len(chans)))
    BY <1>3, RowsSound
  <1> QED BY <1>2, <1>3, <1>4, <1>5, <1>6

(* Enter plays a channel there is.                                         *)
LEMMA EnterPlays == Current /\ SelInv /\ Enter => current' \in 1..Len(channels)
  <1> SUFFICES ASSUME Current, SelInv, Enter PROVE current' \in 1..Len(channels)
    OBVIOUS
  <1>1. PICK n : n = Len(channels)
    OBVIOUS
  <1>2. PICK v \in Seq(RowsOf(n)) : v = view
    BY <1>1, RowsKnown
  <1>3. PICK s \in Nat : s = sel
    BY DEF SelInv
  <1>4. s < Len(v) /\ ~IsHeader(v, s) /\ current' = v[s + 1].chan
    BY <1>2, <1>3 DEF Enter
  <1>5. s \in 0..(Len(v) - 1) /\ s + 1 \in 1..Len(v)
    BY <1>4
  <1>6. v[s + 1].header = ""
    BY <1>4, <1>5 DEF IsHeader
  <1>7. PICK r \in RowsOf(n) : r = v[s + 1]
    BY <1>5
  <1>8. r.header \in Titles \/ r.chan \in 1..n
    BY <1>7 DEF RowsOf
  <1> QED BY <1>1, <1>4, <1>6, <1>7, <1>8, TitlesNamed

(* No zap, refresh or failure takes the marker off the list.               *)
LEMMA PlayableStep == Current /\ SelInv /\ Playable /\ [PanelNext]_allVars => Playable'
  <1> SUFFICES ASSUME Current, SelInv, Playable, [PanelNext]_allVars PROVE Playable'
    OBVIOUS
  <1> USE DEF sources, rows
  <1>0. PICK n \in Nat : n = Len(channels)
    BY RowsKnown
  <1>1. CASE Enter
    <2>1. current' \in 1..n
      BY <1>0, <1>1, EnterPlays
    <2>2. visible' = FALSE /\ channels' = channels
      BY <1>1 DEF Enter
    <2>3. current' \in 0..n
      BY <1>0, <2>1
    <2>4. visible' \in BOOLEAN
      BY <2>2
    <2> QED BY <1>0, <2>2, <2>3, <2>4, Zenon DEF Playable
  <1>2. CASE \E delta \in {-1, 1} : Step(delta)
    <2>1. PICK delta \in {-1, 1} : Step(delta)
      BY <1>2
    <2>2. PICK c \in 0..n : c = current
      BY <1>0 DEF Playable
    <2>3. current' = IF c + delta < 1 THEN n ELSE IF c + delta > n THEN 1 ELSE c + delta
      BY <1>0, <2>1, <2>2 DEF Step, Stepped
    <2>4. n > 0
      BY <1>0, <2>1, RowsKnown DEF Step
    <2>5. current' \in 0..n
      BY <2>3, <2>4
    <2>6. visible' = visible /\ channels' = channels
      BY <2>1 DEF Step
    <2> QED BY <1>0, <2>5, <2>6 DEF Playable
  <1>3. CASE Refreshes
    <2>1. PICK local \in Locals, public \in Publics : Refresh(local, public)
      BY <1>3 DEF Refreshes
    <2>2. channels' \in Seq(Channel) /\ current' \in 0..Len(channels')
      <3>1. /\ channels' \in Seq(Channel)
            /\ current' = 0 \/ current' \in 1..Len(channels')
        BY <2>1, RefreshFinds
      <3>2. Len(channels') \in Nat
        BY <3>1
      <3> QED BY <3>1, <3>2
    <2>3. visible' = visible
      BY <2>1 DEF Refresh
    <2> QED BY <2>2, <2>3 DEF Playable
  <1>4. CASE Retry \/ Refused \/ Plays \/ Searches \/ Moves \/ ShowsHides \/ UNCHANGED allVars
               \/ \E wanted, renew \in BOOLEAN : Tick(wanted, renew)
    <2>1. channels' = channels /\ current' = current
      BY <1>4 DEF Retry, Refused, Plays, Searches, Type, Backspace, Escape, Moves, Move, ShowsHides,
                  Toggle, Tick, allVars, vars
    <2>2. visible' = visible \/ visible' = ~visible \/ visible' = FALSE
      BY <1>4 DEF Retry, Refused, Plays, Searches, Type, Backspace, Escape, Moves, Move, ShowsHides,
                  Toggle, Tick, allVars, vars
    <2>3. visible' \in BOOLEAN
      BY <2>2 DEF Playable
    <2> QED BY <2>1, <2>3 DEF Playable
  <1>5. CASE Fails
    <2>1. current' = 0 /\ visible' = TRUE /\ channels' = channels
      BY <1>5 DEF Fails, GiveUp
    <2> QED BY <1>0, <2>1 DEF Playable
  <1> QED
    BY <1>1, <1>2, <1>3, <1>4, <1>5 DEF PanelNext, Tunes

(* For any lists and any order of events, every row shown is a header or   *)
(* names a channel that exists, and so does the marker: neither Enter nor  *)
(* a zap right after a refresh indexes past ui.channels.                   *)
THEOREM RowsTyped == PanelSpec => []TypeOK
  <1>1. PanelInit => Current /\ SelInv /\ Playable
    <2> SUFFICES ASSUME PanelInit PROVE Current /\ SelInv /\ Playable
      OBVIOUS
    <2>1. Current /\ SelInv
      BY SelInit DEF PanelInit, Init, Current, View
    <2>2. Len(channels) \in Nat
      BY <2>1, RowsKnown
    <2>3. visible = TRUE /\ current = 0
      BY DEF PanelInit, Init
    <2> QED BY <2>1, <2>2, <2>3 DEF Playable
  <1>2. Current /\ SelInv /\ Playable /\ [PanelNext]_allVars => Current' /\ SelInv' /\ Playable'
    BY CurrentStep, SelStep, PlayableStep
  <1>3. Current /\ SelInv /\ Playable => TypeOK
    <2> SUFFICES ASSUME Current, SelInv, Playable PROVE TypeOK
      OBVIOUS
    <2>1. Rows = RowsOf(Len(channels))
      BY TitlesNamed, Zenon DEF Rows, RowsOf
    <2>2. items \in Seq(Rows) /\ view \in Seq(Rows)
      BY <2>1, RowsKnown
    <2> QED BY <2>2, Zenon DEF TypeOK, SelInv, Playable
  <1> QED
    BY <1>1, <1>2, <1>3, PTL DEF PanelSpec
=============================================================================
