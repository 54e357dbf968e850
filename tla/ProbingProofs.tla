--------------------------- MODULE ProbingProofs ----------------------------
(***************************************************************************)
(* Proofs about the probing of channels for their pids: what one probe     *)
(* reads (PidProbe), for every mux, URL, cut of the packets and pattern of *)
(* losses; and how the background users share the tuners and the caches    *)
(* (TunerBudget), for every number of channels and goroutines.             *)
(***************************************************************************)
EXTENDS TunerBudget, PidProbe, SubsequenceFacts, TLAPS

(* The probe.  The properties are not inductive: a section is whole        *)
(* because its buffer begins as the section does and the broadcaster goes  *)
(* on where the buffer ends, and that holds of the table that is looked    *)
(* for only.                                                               *)

(* The probe reads the PAT, and then the table it found there.             *)
Read(t) == t \in {PAT, pmtPID} /\ (t = PAT => pmtPID = -1)

CellsOf(t) == ({t} \X (1..Length(t))) \cup {Stuffing}

(* A buffer begins as a section does.                                      *)
Begins(t, f) == \A i \in DOMAIN f : i <= Length(t) => f[i] = <<t, i>>

(* What has been collected of a table is as far as the table is sent.      *)
InStep(t) == /\ Begins(t, buf[t])
             /\ Len(buf[t]) < Length(t) => sent[t] = Len(buf[t])

TableInv(t) == /\ buf[t] \in Seq(CellsOf(t))
               /\ t \notin {PAT, pmtPID} => buf[t] = <<>>
               /\ intact[t] => buf[t] # <<>>
               /\ intact[t] /\ Read(t) => InStep(t)

ProbeInv == /\ ProbeTypes
            /\ \A t \in Forwarded : TableInv(t)
            /\ SectionWhole
            /\ ExpandedCovers
            /\ Collected

-----------------------------------------------------------------------------
(* A table is a header and its entries.                                    *)
LEMMA TableFacts ==
    ASSUME NEW t \in Forwarded
    PROVE  /\ t \in Nat /\ t \in Tables
           /\ Entries(t) \in Seq(Nat) /\ Len(Entries(t)) \in Nat
           /\ Length(t) \in Nat \ {0} /\ Header \in 1..Length(t)
           /\ Length(t) = Header + Len(Entries(t))
  <1>1. \A p \in Range(Programs) : p \in Nat \ {PAT} /\ Streams[p] \in Seq(Nat)
    BY ProbeAssumption DEF Range
  <1>2. t = PAT \/ t \in Range(Programs)
    BY DEF Forwarded
  <1>3. t \in Nat /\ t \in Tables
    BY <1>1, <1>2 DEF PAT, Tables
  <1>4. Entries(t) \in Seq(Nat)
    <2>1. CASE t = PAT
      <3>1. Programs \in Seq(Nat)
        BY ProbeAssumption
      <3> QED BY <2>1, <3>1 DEF Entries
    <2>2. CASE t # PAT
      BY <1>1, <1>2, <2>2 DEF Entries
    <2> QED BY <2>1, <2>2
  <1>5. Len(Entries(t)) \in Nat
    BY <1>4
  <1> QED BY <1>3, <1>4, <1>5, ProbeAssumption DEF Length

(* The position in a section of what comes i cells after its start.        *)
LEMMA ModFacts ==
    ASSUME NEW m \in Nat \ {0}
    PROVE  /\ \A a \in Nat : a % m \in 0..(m - 1)
           /\ \A a \in 0..(m - 1) : a % m = a
           /\ \A a \in Nat, i \in 0..(m - 1) : a % m = 0 => (a + i) % m = i
  <1>1. \A a \in Nat : a % m \in 0..(m - 1)
    OBVIOUS
  <1>2. \A a \in 0..(m - 1) : a % m = a
    BY Z3
  <1>3. ASSUME NEW a \in Nat, NEW i \in 0..(m - 1), a % m = 0
        PROVE  (a + i) % m = i
    <2> DEFINE k == a \div m
    <2>1. k \in Nat /\ a = m * k
      BY <1>3, Z3
    <2> HIDE DEF k
    <2>2. (m * k + i) % m = i
      BY <2>1, Z3
    <2> QED BY <2>1, <2>2
  <1> QED BY <1>1, <1>2, <1>3

(* The next cells of a table.                                              *)
LEMMA BodyFacts ==
    ASSUME ProbeTypes, NEW t \in Forwarded, NEW room \in 0..Room
    PROVE  /\ Body(t, room) \in Seq(CellsOf(t)) /\ Len(Body(t, room)) = room
           /\ DOMAIN Body(t, room) = 1..room
           /\ \A i \in 1..room : sent[t] + i <= Length(t) => Body(t, room)[i] = <<t, sent[t] + i>>
           /\ \A i \in 1..room : Body(t, room)[i][2] = 1 =>
                /\ (sent[t] + i - 1) % Length(t) = 0
                /\ ~packs => sent[t] + i <= Length(t)
  <1> DEFINE m == Length(t)
             a == sent[t]
             b == Body(t, room)
             cell(i) == IF a + i > m /\ ~packs THEN Stuffing ELSE Cell(t, a + i - 1)
  <1>1. m \in Nat \ {0} /\ a \in 0..(m - 1) /\ room \in Nat /\ packs \in BOOLEAN
    BY TableFacts, ProbeAssumption DEF ProbeTypes
  <1>2. b = [i \in 1..room |-> cell(i)]
    BY DEF Body
  <1>3. ASSUME NEW i \in 1..room
        PROVE  /\ cell(i) \in CellsOf(t)
               /\ a + i <= m => cell(i) = <<t, a + i>>
               /\ cell(i)[2] = 1 => (a + i - 1) % m = 0 /\ (~packs => a + i <= m)
    <2> HIDE DEF m, a
    <2>1. a + i - 1 \in Nat /\ (a + i - 1) % m \in 0..(m - 1)
      BY <1>1, ModFacts
    <2>2. a + i <= m => (a + i - 1) % m = a + i - 1
      <3>1. \A x \in 0..(m - 1) : x % m = x
        BY <1>1, ModFacts
      <3>2. a + i <= m => a + i - 1 \in 0..(m - 1)
        BY <1>1
      <3> QED BY <3>1, <3>2
    <2>3. Cell(t, a + i - 1) = <<t, ((a + i - 1) % m) + 1>>
      BY DEF Cell, m
    <2>4. ((a + i - 1) % m) + 1 \in 1..m
      BY <1>1, <2>1
    <2>5. Cell(t, a + i - 1) \in {t} \X (1..m)
      BY <2>3, <2>4
    <2>6. CellsOf(t) = ({t} \X (1..m)) \cup {Stuffing}
      BY DEF CellsOf, m
    <2>7. cell(i) \in CellsOf(t)
      BY <2>5, <2>6
    <2>8. a + i <= m => cell(i) = <<t, a + i>>
      BY <1>1, <2>2, <2>3
    <2>9. ASSUME cell(i)[2] = 1
          PROVE  (a + i - 1) % m = 0 /\ (~packs => a + i <= m)
      <3>1. cell(i) # Stuffing
        BY <2>9 DEF Stuffing
      <3>2. cell(i) = Cell(t, a + i - 1) /\ (~packs => ~(a + i > m))
        BY <3>1
      <3>3. ((a + i - 1) % m) + 1 = 1
        BY <2>3, <2>9, <3>2
      <3> QED BY <1>1, <2>1, <3>2, <3>3
    <2> QED BY <2>7, <2>8, <2>9
  <1> HIDE DEF cell, m, a
  <1>4. b \in Seq(CellsOf(t)) /\ Len(b) = room /\ DOMAIN b = 1..room
        /\ \A i \in 1..room : b[i] = cell(i)
    BY <1>1, <1>2, <1>3
  <1> QED BY <1>3, <1>4 DEF m, a

(* The pointer leads to the first start.                                   *)
LEMMA PointerFacts ==
    ASSUME NEW b, NEW k \in Nat, DOMAIN b = 1..k, Starts(b) # {}
    PROVE  /\ Pointer(b) + 1 \in 1..k
           /\ b[Pointer(b) + 1][2] = 1
           /\ \A j \in Starts(b) : Pointer(b) + 1 <= j
  <1> DEFINE first == CHOOSE i \in Starts(b) : \A j \in Starts(b) : i <= j
  <1>1. Starts(b) \subseteq 1..k /\ Starts(b) \subseteq Nat
    BY DEF Starts
  <1>2. first \in Starts(b) /\ \A j \in Starts(b) : first <= j
    BY <1>1, LeastElement
  <1>3. Pointer(b) = first - 1
    BY DEF Pointer
  <1> HIDE DEF first
  <1>4. Pointer(b) + 1 = first
    BY <1>1, <1>2, <1>3
  <1> QED BY <1>1, <1>2, <1>4 DEF Starts

(* Where a table is sent to after a packet.                                *)
After(t, room) == IF sent[t] + room >= Length(t) /\ ~packs
                  THEN 0 ELSE (sent[t] + room) % Length(t)

(* A buffer that was started over begins as the section does, and is as    *)
(* far as the table is sent.                                               *)
LEMMA FedAnew ==
    ASSUME ProbeTypes, NEW t \in Forwarded, NEW room \in 0..Room,
           Starts(Body(t, room)) # {}
    PROVE  LET f == Fed(t, Body(t, room))
           IN  /\ f \in Seq(CellsOf(t)) /\ f # <<>>
               /\ Begins(t, f)
               /\ Len(f) < Length(t) => After(t, room) = Len(f)
               /\ ~packs => f = Body(t, room) /\ sent[t] = 0
  <1> DEFINE b == Body(t, room)
             m == Length(t)
             a == sent[t]
             p == Pointer(b) + 1
             f == Fed(t, b)
  <1>1. m \in Nat \ {0} /\ a \in 0..(m - 1) /\ room \in Nat /\ packs \in BOOLEAN
    BY TableFacts, ProbeAssumption DEF ProbeTypes
  <1>2. /\ b \in Seq(CellsOf(t)) /\ Len(b) = room /\ DOMAIN b = 1..room
        /\ \A i \in 1..room : a + i <= m => b[i] = <<t, a + i>>
        /\ \A i \in 1..room : b[i][2] = 1 =>
             (a + i - 1) % m = 0 /\ (~packs => a + i <= m)
    BY BodyFacts
  <1>3. p \in 1..room /\ b[p][2] = 1
    BY <1>1, <1>2, PointerFacts
  <1>4. (a + p - 1) % m = 0 /\ (~packs => a + p <= m)
    BY <1>2, <1>3
  <1>5. f = SubSeq(b, p, room)
    BY <1>2 DEF Fed
  <1>6. \A i \in 1..room : b[i] = IF a + i > m /\ ~packs THEN Stuffing ELSE Cell(t, a + i - 1)
    BY DEF Body
  <1> HIDE DEF b, m, a, p, f
  <1>7. f \in Seq(CellsOf(t)) /\ Len(f) = room - p + 1 /\ DOMAIN f = 1..(room - p + 1)
        /\ \A i \in 1..(room - p + 1) : f[i] = b[p + i - 1]
    BY <1>1, <1>2, <1>3, <1>5
  <1>8. \A x \in 0..(m - 1) : (a + p - 1 + x) % m = x
    <2>1. a + p - 1 \in Nat
      BY <1>1, <1>3
    <2> QED BY <1>1, <1>4, <2>1, ModFacts
  <1>9. ~packs => a = 0 /\ p = 1
    <2>1. ~packs => a + p - 1 \in 0..(m - 1)
      BY <1>1, <1>3, <1>4
    <2>2. ~packs => (a + p - 1) % m = a + p - 1
      BY <1>1, <2>1, ModFacts
    <2> QED BY <1>1, <1>3, <1>4, <2>2
  <1>10. ASSUME NEW i \in 1..(room - p + 1), i <= m
         PROVE  f[i] = <<t, i>>
    <2>1. p + i - 1 \in 1..room /\ a + (p + i - 1) - 1 = a + p - 1 + (i - 1) /\ i - 1 \in 0..(m - 1)
      BY <1>1, <1>3, <1>10
    <2>2. CASE packs
      <3>1. f[i] = Cell(t, a + p - 1 + (i - 1))
        BY <1>6, <1>7, <2>1, <2>2
      <3>2. (a + p - 1 + (i - 1)) % m = i - 1
        BY <1>8, <2>1
      <3>3. f[i] = <<t, i - 1 + 1>>
        BY <3>1, <3>2 DEF Cell, m
      <3> QED BY <1>1, <3>3
    <2>3. CASE ~packs
      <3>1. a = 0 /\ p = 1
        BY <1>9, <2>3
      <3>2. f[i] = b[i] /\ b[i] = <<t, a + i>>
        BY <1>1, <1>2, <1>7, <1>10, <3>1
      <3> QED BY <3>1, <3>2
    <2> QED BY <2>2, <2>3
  <1>11. Len(f) < m => After(t, room) = Len(f)
    <2>1. a + room = a + p - 1 + (room - p + 1)
      BY <1>1, <1>3
    <2>2. room - p + 1 < m => room - p + 1 \in 0..(m - 1)
      BY <1>1, <1>3
    <2>3. room - p + 1 < m => (a + room) % m = room - p + 1
      BY <1>8, <2>1, <2>2
    <2>4. ~packs => a + room = room /\ room - p + 1 = room
      BY <1>1, <1>3, <1>9
    <2>5. room - p + 1 < m => ~(a + room >= m /\ ~packs)
      BY <1>1, <2>4
    <2> QED BY <1>7, <2>3, <2>5 DEF After, a, m
  <1>12. ~packs => f = b /\ a = 0
    BY <1>1, <1>2, <1>5, <1>9
  <1>13. Begins(t, f) /\ f # <<>>
    <2>1. Begins(t, f)
      BY <1>7, <1>10 DEF Begins, m
    <2>2. Len(f) # 0
      BY <1>1, <1>3, <1>7
    <2> QED BY <2>1, <2>2
  <1> QED BY <1>7, <1>11, <1>12, <1>13 DEF b, m, f, a

(* A buffer that goes on stays a front of the section, and as far as the   *)
(* table is sent.                                                          *)
LEMMA FedOn ==
    ASSUME ProbeTypes, NEW t \in Forwarded, NEW room \in 0..Room, TableInv(t),
           Starts(Body(t, room)) = {}
    PROVE  LET f == Fed(t, Body(t, room))
           IN  /\ f \in Seq(CellsOf(t))
               /\ intact[t] /\ Read(t) =>
                    /\ f = buf[t] \o Body(t, room) /\ f # <<>>
                    /\ Begins(t, f)
                    /\ Len(f) < Length(t) => After(t, room) = Len(f)
  <1> DEFINE b == Body(t, room)
             m == Length(t)
             a == sent[t]
             f == Fed(t, b)
             g == buf[t]
  <1>1. m \in Nat \ {0} /\ a \in 0..(m - 1) /\ room \in Nat /\ packs \in BOOLEAN
    BY TableFacts, ProbeAssumption DEF ProbeTypes
  <1>2. /\ b \in Seq(CellsOf(t)) /\ Len(b) = room /\ DOMAIN b = 1..room
        /\ \A i \in 1..room : a + i <= m => b[i] = <<t, a + i>>
    BY BodyFacts
  <1>3. g \in Seq(CellsOf(t)) /\ (started[t] <=> g # <<>>)
    BY DEF TableInv, ProbeTypes
  <1>4. f = IF started[t] THEN g \o b ELSE <<>>
    BY DEF Fed
  <1>5. f \in Seq(CellsOf(t))
    BY <1>2, <1>3, <1>4
  <1>6. ASSUME intact[t], Read(t)
        PROVE  /\ f = g \o b /\ f # <<>>
               /\ Begins(t, f)
               /\ Len(f) < m => After(t, room) = Len(f)
    <2>1. g # <<>> /\ Begins(t, g) /\ (Len(g) < m => a = Len(g))
      BY <1>6 DEF TableInv, InStep
    <2>2. f = g \o b
      BY <1>3, <1>4, <2>1
    <2> HIDE DEF b, m, a, f, g
    <2>3. Len(g) \in Nat \ {0} /\ Len(f) = Len(g) + room /\ DOMAIN f = 1..(Len(g) + room)
          /\ DOMAIN g = 1..Len(g)
      <3>1. Len(g) \in Nat \ {0} /\ DOMAIN g = 1..Len(g)
        BY <1>3, <2>1
      <3>2. Len(f) = Len(g) + room
        <4>1. g \in Seq(CellsOf(t)) /\ b \in Seq(CellsOf(t)) /\ Len(b) = room
          BY <1>2, <1>3
        <4>2. Len(g \o b) = Len(g) + Len(b)
          BY <4>1
        <4> QED BY <2>2, <4>1, <4>2
      <3>3. DOMAIN f = 1..Len(f)
        BY <1>5
      <3> QED BY <3>1, <3>2, <3>3
    <2>9. Len(g) < m => a = Len(g)
      BY <2>1
    <2>4. ASSUME NEW i \in 1..(Len(g) + room), i <= m
          PROVE  f[i] = <<t, i>>
      <3>1. CASE i <= Len(g)
        <4>1. f[i] = g[i] /\ i \in DOMAIN g
          BY <1>2, <1>3, <2>2, <2>3, <3>1
        <4> QED BY <2>1, <2>4, <4>1 DEF Begins, m
      <3>2. CASE i > Len(g)
        <4>0. i \in Nat /\ Len(g) \in Nat /\ Len(g) < i /\ i <= Len(g) + room /\ i <= m
          BY <1>1, <2>3, <2>4, <3>2
        <4>1. i - Len(g) \in 1..room /\ a = Len(g) /\ a + (i - Len(g)) = i
          BY <1>1, <2>9, <4>0
        <4>2. f[i] = b[i - Len(g)]
          BY <1>2, <1>3, <2>2, <2>3, <3>2
        <4>3. b[i - Len(g)] = <<t, a + (i - Len(g))>>
          BY <1>2, <2>4, <4>1
        <4> QED BY <4>1, <4>2, <4>3
      <3> QED BY <2>3, <3>1, <3>2
    <2>5. Begins(t, f)
      BY <2>3, <2>4 DEF Begins, m
    <2>6. Len(f) < m => After(t, room) = Len(f)
      <3>0. Len(g) \in Nat /\ Len(f) = Len(g) + room
        BY <2>3
      <3>1. Len(f) < m => a = Len(g) /\ a + room = Len(f) /\ a + room \in 0..(m - 1)
        BY <1>1, <2>9, <3>0
      <3>2. Len(f) < m => (a + room) % m = a + room /\ ~(a + room >= m)
        <4>1. \A x \in 0..(m - 1) : x % m = x
          BY <1>1, ModFacts
        <4> QED BY <1>1, <3>1, <4>1
      <3> QED BY <3>1, <3>2 DEF After, a, m
    <2>7. f # <<>>
      BY <1>1, <2>3
    <2> QED BY <2>2, <2>5, <2>6, <2>7
  <1> QED BY <1>5, <1>6 DEF b, m, f, g

(* The length read from a header that arrived is that of its section.      *)
LEMMA LengthRead ==
    ASSUME NEW t \in Forwarded, NEW f \in Seq(CellsOf(t)), Len(f) >= Header
    PROVE  /\ SectionLengths(f) \subseteq Nat
           /\ Begins(t, f) => SectionLengths(f) = {Length(t)}
  <1>1. /\ Header \in Nat \ {0} /\ Header \in 1..Length(t) /\ Length(t) \in Nat
        /\ Lengths \subseteq Nat
    BY TableFacts, ProbeAssumption DEF Lengths
  <1>2. Header \in DOMAIN f /\ f[Header] \in CellsOf(t)
    BY <1>1
  <1>3. f[Header][2] = Header => f[Header][1] = t
    BY <1>1, <1>2 DEF CellsOf, Stuffing
  <1>4. Begins(t, f) => f[Header] = <<t, Header>>
    BY <1>1, <1>2 DEF Begins
  <1>5. Begins(t, f) => f[Header][1] = t /\ f[Header][2] = Header
    BY <1>4
  <1>6. SectionLengths(f) = IF f[Header][2] = Header THEN {Length(f[Header][1])} ELSE Lengths
    BY DEF SectionLengths
  <1> QED BY <1>1, <1>3, <1>5, <1>6, Zenon

(* The lengths that the assembler may go by.                               *)
LengthsOf(f) == IF Len(f) < Header THEN {0} ELSE SectionLengths(f)

(* A buffer that begins as the section does gives the section once it has  *)
(* all of it, and nothing before; any other gives cells of its own table.  *)
LEMMA CompleteFacts ==
    ASSUME NEW t \in Forwarded, NEW f \in Seq(CellsOf(t)), NEW len \in LengthsOf(f)
    PROVE  /\ Complete(f, len) \in Seq(CellsOf(t))
           /\ Begins(t, f) /\ Len(f) < Length(t) => Complete(f, len) = <<>>
           /\ Begins(t, f) /\ Len(f) >= Length(t) =>
                Complete(f, len) = [i \in 1..Length(t) |-> <<t, i>>]
  <1>1. /\ Header \in Nat \ {0} /\ Header \in 1..Length(t) /\ Length(t) \in Nat \ {0}
        /\ Len(f) \in Nat
    BY TableFacts, ProbeAssumption
  <1>2. len \in Nat
    BY <1>1, LengthRead DEF LengthsOf
  <1>3. Begins(t, f) /\ Len(f) >= Header => len = Length(t)
    BY <1>1, LengthRead DEF LengthsOf
  <1>4. Complete(f, len) = IF Len(f) >= Header /\ Len(f) >= len THEN SubSeq(f, 1, len) ELSE <<>>
    BY DEF Complete
  <1>5. Complete(f, len) \in Seq(CellsOf(t))
    BY <1>2, <1>4
  <1>6. Begins(t, f) /\ Len(f) < Length(t) => Complete(f, len) = <<>>
    BY <1>1, <1>3, <1>4
  <1>7. ASSUME Begins(t, f), Len(f) >= Length(t)
        PROVE  Complete(f, len) = [i \in 1..Length(t) |-> <<t, i>>]
    <2>1. Len(f) >= Header /\ len = Length(t) /\ Complete(f, len) = SubSeq(f, 1, Length(t))
      BY <1>1, <1>3, <1>4, <1>7
    <2>2. SubSeq(f, 1, Length(t)) = [i \in 1..Length(t) |-> f[i]]
      BY <1>1, <1>7
    <2>3. \A i \in 1..Length(t) : f[i] = <<t, i>>
      BY <1>1, <1>7 DEF Begins
    <2> QED BY <2>1, <2>2, <2>3
  <1> QED BY <1>5, <1>6, <1>7

-----------------------------------------------------------------------------
(* What is read from a section, and what the URL becomes.                  *)

(* A sequence has finitely many elements.                                  *)
LEMMA RangeFinite ==
    ASSUME NEW S, NEW s \in Seq(S)
    PROVE  IsFiniteSet(Range(s)) /\ Range(s) \subseteq S
  <1>1. DOMAIN s = 1..Len(s) /\ Len(s) \in Nat /\ s \in [1..Len(s) -> S]
    OBVIOUS
  <1>2. IsFiniteSet(1..Len(s))
    BY <1>1, FS_Interval
  <1>3. s \in Surjection(1..Len(s), Range(s))
    BY <1>1 DEF Surjection, Range
  <1>4. Range(s) \subseteq S
    BY <1>1 DEF Range
  <1> QED BY <1>2, <1>3, <1>4, FS_Surjection

(* What is read of a section are pids, none of nothing, and of a whole     *)
(* section the entries of its table.                                       *)
LEMMA ReadingFacts ==
    ASSUME NEW t \in Forwarded, NEW sec, NEW read \in Readings(t, sec)
    PROVE  /\ read \in Seq(Nat)
           /\ sec = <<>> => read = <<>>
           /\ sec = Whole(t) => read = Entries(t)
  <1>1. Entries(t) \in Seq(Nat) /\ Length(t) \in Nat \ {0}
    BY TableFacts
  <1>2. Whole(t) # <<>>
    <2>1. DOMAIN Whole(t) = 1..Length(t) /\ 1 \in 1..Length(t)
      BY <1>1 DEF Whole
    <2>2. DOMAIN <<>> = {}
      OBVIOUS
    <2> QED BY <2>1, <2>2, Zenon
  <1>3. CASE sec = <<>>
    <2>1. Readings(t, sec) = {<<>>}
      BY <1>2, <1>3, Zenon DEF Readings
    <2>2. <<>> \in Seq(Nat)
      OBVIOUS
    <2> QED BY <1>2, <1>3, <2>1, <2>2, Zenon
  <1>4. CASE sec = Whole(t)
    <2>1. Readings(t, sec) = {Entries(t)}
      BY <1>2, <1>4, Zenon DEF Readings
    <2> QED BY <1>1, <1>2, <1>4, <2>1, Zenon
  <1>5. CASE sec # <<>> /\ sec # Whole(t)
    <2>1. Readings(t, sec) = UNION {[1..n -> Misread] : n \in {0} \cup 1..(Len(sec) - Header)}
      BY <1>5, Zenon DEF Readings
    <2>2. PICK n \in {0} \cup 1..(Len(sec) - Header) : read \in [1..n -> Misread]
      BY <2>1, Zenon
    <2>3. n \in Nat /\ Misread \subseteq Nat
      BY <2>2, ProbeAssumption
    <2>4. read \in [1..n -> Nat]
      BY <2>2, <2>3
    <2>5. read \in Seq(Nat)
      BY <2>3, <2>4
    <2> QED BY <1>5, <2>5
  <1> QED BY <1>3, <1>4, <1>5

(* The table that is chosen is one that the URL asks for.                  *)
LEMMA ChooseFacts ==
    ASSUME NEW programs \in Seq(Nat)
    PROVE  ChoosePMT(programs) \in {-1} \cup Range(Requested)
  <1> DEFINE asked == {i \in DOMAIN programs : programs[i] \in Range(Requested)}
  <1>1. ChoosePMT(programs) = IF asked = {} THEN -1 ELSE programs[Min(asked)]
    BY DEF ChoosePMT
  <1>2. asked \subseteq Nat /\ asked \subseteq DOMAIN programs
    OBVIOUS
  <1>3. asked # {} => Min(asked) \in asked
    BY <1>2, LeastElement DEF Min
  <1>4. \A i \in asked : programs[i] \in Range(Requested)
    OBVIOUS
  <1> HIDE DEF asked
  <1> QED BY <1>1, <1>3, <1>4

(* The pids of the merged URL are those of both, in order.                 *)
LEMMA MergeFacts ==
    ASSUME NEW pids \in Seq(Nat)
    PROVE  /\ MergePIDs(pids) \in Seq(Nat)
           /\ Range(MergePIDs(pids)) = Range(Requested) \cup Range(pids)
           /\ \A i, j \in DOMAIN MergePIDs(pids) : i < j => MergePIDs(pids)[i] < MergePIDs(pids)[j]
  <1> DEFINE S == Range(Requested) \cup Range(pids)
  <1>1. S \subseteq Nat /\ IsFiniteSet(S)
    BY RangeFinite, FS_Union, ProbeAssumption
  <1>2. MergePIDs(pids) = Ascending(S)
    BY DEF MergePIDs
  <1> HIDE DEF S
  <1>3. /\ Ascending(S) \in Seq(S)
        /\ {Ascending(S)[i] : i \in DOMAIN Ascending(S)} = S
        /\ \A i, j \in DOMAIN Ascending(S) : i < j => Ascending(S)[i] < Ascending(S)[j]
    BY <1>1, AscendingFacts
  <1>4. Ascending(S) \in Seq(Nat)
    <2> SUFFICES ASSUME NEW q \in Seq(S) PROVE q \in Seq(Nat)
      BY <1>3, Zenon
    <2>1. Len(q) \in Nat /\ DOMAIN q = 1..Len(q) /\ q = [i \in 1..Len(q) |-> q[i]]
      OBVIOUS
    <2>2. \A i \in 1..Len(q) : q[i] \in S
      OBVIOUS
    <2>3. \A i \in 1..Len(q) : q[i] \in Nat
      BY <1>1, <2>2, Zenon
    <2> QED BY <2>1, <2>3
  <1> QED BY <1>2, <1>3, <1>4 DEF Range, S

-----------------------------------------------------------------------------
(* The steps of the probe.                                                 *)

(* A packet moves its table on, and no other.                              *)
LEMMA SendFacts ==
    ASSUME ProbeTypes, NEW t \in Forwarded, NEW room \in 0..Room, SendOn(t, room)
    PROVE  /\ sent' \in [Forwarded -> Nat] /\ \A u \in Forwarded : sent'[u] < Length(u)
           /\ sent'[t] = After(t, room)
           /\ \A u \in Forwarded : u # t => sent'[u] = sent[u]
           /\ room = 0 => sent' = sent
  <1>1. /\ sent \in [Forwarded -> Nat] /\ \A u \in Forwarded : sent[u] < Length(u) /\ Length(u) \in Nat \ {0}
        /\ room \in Nat /\ packs \in BOOLEAN
    BY TableFacts, ProbeAssumption DEF ProbeTypes
  <1>2. sent' = [sent EXCEPT ![t] = After(t, room)]
    BY DEF SendOn, After
  <1> DEFINE m == Length(t)
             a == sent[t]
  <1>3. m \in Nat \ {0} /\ a \in 0..(m - 1) /\ a + room \in Nat
    BY <1>1
  <1>4. After(t, room) = IF a + room >= m /\ ~packs THEN 0 ELSE (a + room) % m
    BY DEF After
  <1> HIDE DEF m, a
  <1>5. (a + room) % m \in 0..(m - 1)
    BY <1>3, ModFacts
  <1>6. After(t, room) \in Nat /\ After(t, room) < m
    BY <1>3, <1>4, <1>5
  <1>7. room = 0 => After(t, room) = a
    <2>1. \A x \in 0..(m - 1) : x % m = x
      BY <1>3, ModFacts
    <2>2. a % m = a
      BY <1>3, <2>1
    <2>3. room = 0 => a + room = a /\ ~(a + room >= m)
      BY <1>3
    <2> QED BY <1>4, <2>2, <2>3
  <1> QED BY <1>1, <1>2, <1>6, <1>7 DEF a, m

(* A packet that is read: what the buffer and the section are after it.    *)
LEMMA PacketRead ==
    ASSUME ProbeInv, NEW t \in Forwarded, NEW room \in 0..Room, Packet(t, room),
           Body(t, room) # <<>>, Read(t)
    PROVE  LET b == Body(t, room)
               f == Fed(t, b)
           IN  /\ buf' = [buf EXCEPT ![t] = f] /\ f \in Seq(CellsOf(t))
               /\ started' = [started EXCEPT ![t] = @ \/ Starts(b) # {}]
               /\ intact' = [intact EXCEPT ![t] = @ \/ Starts(b) # {}]
               /\ over' = EndsHere(t, b)
               /\ \E read \in Readings(t, section') :
                    /\ pmtPID' = IF t = PAT THEN ChoosePMT(read) ELSE pmtPID
                    /\ merged' = IF t # PAT /\ read # <<>> THEN MergePIDs(read) ELSE <<>>
               /\ section' \in Seq(CellsOf(t))
               /\ Starts(b) # {} => f # <<>>
               /\ intact'[t] => /\ f # <<>> /\ Begins(t, f)
                                /\ Len(f) < Length(t) => sent'[t] = Len(f) /\ section' = <<>>
                                /\ Len(f) >= Length(t) =>
                                     section' = [i \in 1..Length(t) |-> <<t, i>>]
  <1> DEFINE b == Body(t, room)
             f == Fed(t, b)
  <1>1. ProbeTypes /\ TableInv(t) /\ ~(b = <<>> \/ (t = PAT /\ pmtPID # -1) \/ t \notin {PAT, pmtPID})
    BY DEF ProbeInv, Read
  <1>2. /\ buf' = [buf EXCEPT ![t] = f]
        /\ started' = [started EXCEPT ![t] = @ \/ Starts(b) # {}]
        /\ intact' = [intact EXCEPT ![t] = @ \/ Starts(b) # {}]
        /\ over' = EndsHere(t, b)
        /\ \E len \in LengthsOf(f) : section' = Complete(f, len)
        /\ \E read \in Readings(t, section') :
             /\ pmtPID' = IF t = PAT THEN ChoosePMT(read) ELSE pmtPID
             /\ merged' = IF t # PAT /\ read # <<>> THEN MergePIDs(read) ELSE <<>>
    BY <1>1, Zenon DEF Packet, LengthsOf
  <1>3. SendOn(t, room)
    BY DEF Packet
  <1>4. sent'[t] = After(t, room)
    BY <1>1, <1>3, SendFacts
  <1>5. f \in Seq(CellsOf(t))
    BY <1>1, FedAnew, FedOn
  <1>6. Starts(b) # {} => f # <<>>
    BY <1>1, FedAnew
  <1>7. intact'[t] => f # <<>> /\ Begins(t, f) /\ (Len(f) < Length(t) => After(t, room) = Len(f))
    <2>1. CASE Starts(b) # {}
      BY <1>1, <2>1, FedAnew
    <2>2. CASE Starts(b) = {}
      <3>1. intact'[t] => intact[t]
        BY <1>1, <1>2, <2>2, Zenon DEF ProbeTypes
      <3> QED BY <1>1, <2>2, <3>1, FedOn
    <2> QED BY <2>1, <2>2
  <1> HIDE DEF f
  <1>8. PICK len \in LengthsOf(f) : section' = Complete(f, len)
    BY <1>2
  <1>9. /\ section' \in Seq(CellsOf(t))
        /\ Begins(t, f) /\ Len(f) < Length(t) => section' = <<>>
        /\ Begins(t, f) /\ Len(f) >= Length(t) => section' = [i \in 1..Length(t) |-> <<t, i>>]
    BY <1>5, <1>8, CompleteFacts
  <1> QED BY <1>2, <1>4, <1>5, <1>6, <1>7, <1>9, Zenon DEF f

(* Any other packet is passed over.                                        *)
LEMMA PacketPassed ==
    ASSUME NEW t \in Forwarded, NEW room \in 0..Room, Packet(t, room),
           ~(Body(t, room) # <<>> /\ Read(t))
    PROVE  /\ section' = <<>> /\ over' = FALSE
           /\ UNCHANGED <<buf, started, intact, pmtPID, merged>>
  BY Zenon DEF Packet, Read

(* A packet that is read keeps the types.                                  *)
LEMMA ReadTypes ==
    ASSUME ProbeInv, NEW t \in Forwarded, NEW room \in 0..Room, Packet(t, room),
           Body(t, room) # <<>>, Read(t)
    PROVE  /\ ProbeTypes'
           /\ pmtPID' \in {-1} \cup Range(Requested)
           /\ t # PAT => pmtPID' = t /\ pmtPID = t
  <1> DEFINE b == Body(t, room)
             f == Fed(t, b)
  <1>1. ProbeTypes /\ SendOn(t, room) /\ UNCHANGED <<packs, lost>>
    BY DEF ProbeInv, Packet
  <1>2. /\ buf' = [buf EXCEPT ![t] = f] /\ f \in Seq(CellsOf(t))
        /\ started' = [started EXCEPT ![t] = @ \/ Starts(b) # {}]
        /\ intact' = [intact EXCEPT ![t] = @ \/ Starts(b) # {}]
        /\ over' = EndsHere(t, b)
        /\ \E read \in Readings(t, section') :
             /\ pmtPID' = IF t = PAT THEN ChoosePMT(read) ELSE pmtPID
             /\ merged' = IF t # PAT /\ read # <<>> THEN MergePIDs(read) ELSE <<>>
        /\ section' \in Seq(CellsOf(t))
        /\ Starts(b) # {} => f # <<>>
    BY PacketRead
  <1>3. CellsOf(t) \subseteq Cells
    <2>1. t \in Tables
      BY TableFacts
    <2>2. {t} \X (1..Length(t)) \in {{u} \X (1..Length(u)) : u \in Tables}
      BY <2>1
    <2>3. {t} \X (1..Length(t)) \subseteq UNION {{u} \X (1..Length(u)) : u \in Tables}
      BY <2>2, Zenon
    <2> QED BY <2>3, Zenon DEF CellsOf, Cells
  <1>4. \A q \in Seq(CellsOf(t)) : q \in Seq(Cells)
    BY <1>3
  <1>5. sent' \in [Forwarded -> Nat] /\ \A u \in Forwarded : sent'[u] < Length(u)
    BY <1>1, SendFacts
  <1>6. buf' \in [Forwarded -> Seq(Cells)]
    BY <1>1, <1>2, <1>4 DEF ProbeTypes
  <1>7. started' = [u \in Forwarded |-> buf'[u] # <<>>]
    <2>1. started = [u \in Forwarded |-> buf[u] # <<>>] /\ buf \in [Forwarded -> Seq(Cells)]
      BY <1>1 DEF ProbeTypes
    <2>2. Starts(b) = {} => f = IF started[t] THEN buf[t] \o b ELSE <<>>
      BY DEF Fed
    <2>3. buf[t] # <<>> => buf[t] \o b # <<>>
      <3>1. b \in Seq(CellsOf(t)) /\ buf[t] \in Seq(Cells)
        BY <1>1, <2>1, BodyFacts
      <3>2. Len(buf[t] \o b) = Len(buf[t]) + Len(b)
        BY <3>1
      <3> QED BY <3>1, <3>2
    <2>4. (started[t] \/ Starts(b) # {}) <=> f # <<>>
      BY <1>2, <2>1, <2>2, <2>3
    <2> HIDE DEF b, f
    <2> QED BY <1>2, <2>1, <2>4
  <1>8. intact' \in [Forwarded -> BOOLEAN]
    BY <1>1, <1>2 DEF ProbeTypes
  <1>9. over' \in BOOLEAN
    BY <1>2 DEF EndsHere
  <1>10. section' \in Seq(Cells)
    BY <1>2, <1>4
  <1>14. PICK read \in Readings(t, section') :
              /\ pmtPID' = IF t = PAT THEN ChoosePMT(read) ELSE pmtPID
              /\ merged' = IF t # PAT /\ read # <<>> THEN MergePIDs(read) ELSE <<>>
    BY <1>2
  <1>15. read \in Seq(Nat)
    BY ReadingFacts
  <1>11. /\ pmtPID' \in {-1} \cup Range(Requested)
         /\ t # PAT => pmtPID' = t /\ pmtPID = t
    <2>1. CASE t = PAT
      BY <1>14, <1>15, <2>1, ChooseFacts
    <2>2. CASE t # PAT
      <3>1. pmtPID' = pmtPID /\ pmtPID = t
        BY <1>14, <2>2 DEF Read
      <3> QED BY <1>1, <2>2, <3>1 DEF ProbeTypes
    <2> QED BY <2>1, <2>2
  <1>12. merged' \in Seq(Nat)
    <2>1. MergePIDs(read) \in Seq(Nat)
      BY <1>15, MergeFacts
    <2> QED BY <1>14, <2>1
  <1>13. packs' \in BOOLEAN /\ lost' \in 0..Losses
    BY <1>1 DEF ProbeTypes
  <1> QED BY <1>5, <1>6, <1>7, <1>8, <1>9, <1>10, <1>11, <1>12, <1>13 DEF ProbeTypes

(* The tables after a packet that is read: its own is in step, and the     *)
(* others are as they were; a PMT that is now looked for has not been fed. *)
LEMMA ReadTables ==
    ASSUME ProbeInv, NEW t \in Forwarded, NEW room \in 0..Room, Packet(t, room),
           Body(t, room) # <<>>, Read(t), NEW u \in Forwarded
    PROVE  TableInv(u)'
  <1> DEFINE b == Body(t, room)
             f == Fed(t, b)
  <1>1. ProbeTypes /\ TableInv(u) /\ SendOn(t, room)
    BY DEF ProbeInv, Packet
  <1>2. /\ buf' = [buf EXCEPT ![t] = f] /\ f \in Seq(CellsOf(t))
        /\ intact' = [intact EXCEPT ![t] = @ \/ Starts(b) # {}]
        /\ intact'[t] => /\ f # <<>> /\ Begins(t, f)
                         /\ Len(f) < Length(t) => sent'[t] = Len(f)
    BY PacketRead
  <1>3. t # PAT => pmtPID' = t /\ pmtPID = t
    BY ReadTypes
  <1>4. t = PAT => pmtPID = -1
    BY DEF Read
  <1>5. buf \in [Forwarded -> Seq(Cells)] /\ intact \in [Forwarded -> BOOLEAN]
    BY <1>1 DEF ProbeTypes
  <1>6. u \in Nat
    BY TableFacts
  <1> HIDE DEF b, f
  <1>7. CASE u = t
    <2>1. buf'[u] = f
      BY <1>2, <1>5, <1>7
    <2>2. u \notin {PAT, pmtPID'} => FALSE
      BY <1>3, <1>7
    <2>3. intact'[u] => f # <<>> /\ Begins(u, f) /\ (Len(f) < Length(u) => sent'[u] = Len(f))
      BY <1>2, <1>7
    <2>4. (CellsOf(u))' = CellsOf(u) /\ (Length(u))' = Length(u)
      BY DEF CellsOf, Length, Entries, Stuffing, PAT
    <2> QED BY <1>2, <1>7, <2>1, <2>2, <2>3, <2>4 DEF TableInv, InStep, Begins
  <1>8. CASE u # t
    <2>1. buf'[u] = buf[u] /\ intact'[u] = intact[u] /\ sent'[u] = sent[u]
      BY <1>1, <1>2, <1>5, <1>8, SendFacts
    <2>2. u \notin {PAT, pmtPID'} => u \notin {PAT, pmtPID}
      BY <1>3, <1>4, <1>6, <1>8 DEF PAT
    <2>3. Read(u)' => Read(u) \/ u \notin {PAT, pmtPID}
      BY <1>3, <1>4, <1>6, <1>8 DEF Read, PAT
    <2> QED BY <1>1, <2>1, <2>2, <2>3 DEF TableInv, InStep, Begins
  <1> QED BY <1>7, <1>8

(* SectionWhole after a packet that is read.                               *)
LEMMA ReadWhole ==
    ASSUME ProbeInv, NEW t \in Forwarded, NEW room \in 0..Room, Packet(t, room),
           Body(t, room) # <<>>, Read(t)
    PROVE  SectionWhole'
  <1> DEFINE f == Fed(t, Body(t, room))
  <1>1. /\ f \in Seq(CellsOf(t)) /\ section' \in Seq(CellsOf(t))
        /\ intact'[t] => /\ Begins(t, f)
                         /\ Len(f) < Length(t) => section' = <<>>
                         /\ Len(f) >= Length(t) => section' = [i \in 1..Length(t) |-> <<t, i>>]
    BY PacketRead
  <1> HIDE DEF f
  <1> SUFFICES ASSUME NEW u \in Forwarded, section' # <<>>, section'[1][1] = u, intact'[u]
               PROVE  section' = [i \in 1..Length(u) |-> <<u, i>>]
    BY DEF SectionWhole, Whole, Length, Entries, PAT
  <1>2. u = t
    <2>1. section'[1] \in CellsOf(t) /\ u \in Nat
      BY <1>1, TableFacts
    <2> QED BY <2>1 DEF CellsOf, Stuffing
  <1>3. Length(t) \in Nat /\ Len(f) \in Nat
    BY <1>1, TableFacts
  <1> QED BY <1>1, <1>2, <1>3

(* ExpandedCovers after a packet that is read.                             *)
LEMMA ReadCovers ==
    ASSUME ProbeInv, NEW t \in Forwarded, NEW room \in 0..Room, Packet(t, room),
           Body(t, room) # <<>>, Read(t)
    PROVE  ExpandedCovers'
  <1> DEFINE f == Fed(t, Body(t, room))
  <1>1. /\ f \in Seq(CellsOf(t)) /\ section' \in Seq(CellsOf(t))
        /\ \E read \in Readings(t, section') :
             merged' = IF t # PAT /\ read # <<>> THEN MergePIDs(read) ELSE <<>>
        /\ intact'[t] => /\ Begins(t, f)
                         /\ Len(f) < Length(t) => section' = <<>>
                         /\ Len(f) >= Length(t) => section' = [i \in 1..Length(t) |-> <<t, i>>]
    BY PacketRead
  <1>2. /\ pmtPID' \in {-1} \cup Range(Requested)
        /\ t # PAT => pmtPID' = t
    BY ReadTypes
  <1>3. Length(t) \in Nat /\ Len(f) \in Nat /\ t \in Nat /\ Entries(t) \in Seq(Nat)
    BY <1>1, TableFacts
  <1>8. PICK e \in Readings(t, section') :
             merged' = IF t # PAT /\ e # <<>> THEN MergePIDs(e) ELSE <<>>
    BY <1>1
  <1>4. /\ e \in Seq(Nat)
        /\ section' = <<>> => e = <<>>
        /\ section' = [i \in 1..Length(t) |-> <<t, i>>] => e = Entries(t)
    BY ReadingFacts DEF Whole
  <1>6. /\ Range(MergePIDs(e)) = Range(Requested) \cup Range(e)
        /\ \A i, j \in DOMAIN MergePIDs(e) : i < j => MergePIDs(e)[i] < MergePIDs(e)[j]
    BY <1>4, MergeFacts
  <1> HIDE DEF f
  <1>7. ASSUME merged' # <<>>
        PROVE  /\ pmtPID' # -1
               /\ Range(Requested) \subseteq Range(merged')
               /\ intact'[pmtPID'] => Range(merged') = Range(Requested) \cup Range(Streams[pmtPID'])
               /\ \A i, j \in DOMAIN merged' : i < j => merged'[i] < merged'[j]
    <2>1. t # PAT /\ e # <<>> /\ merged' = MergePIDs(e) /\ pmtPID' = t
      BY <1>2, <1>7, <1>8
    <2>2. pmtPID' # -1
      BY <1>3, <2>1
    <2>3. intact'[t] => Range(e) = Range(Entries(t))
      BY <1>1, <1>3, <1>4, <2>1
    <2>4. Entries(t) = Streams[t]
      BY <2>1 DEF Entries
    <2> QED BY <1>6, <2>1, <2>2, <2>3, <2>4
  <1> QED BY <1>2, <1>7 DEF ExpandedCovers

(* Collected after a packet that is read.                                  *)
LEMMA ReadCollects ==
    ASSUME ProbeInv, NEW t \in Forwarded, NEW room \in 0..Room, Packet(t, room),
           Body(t, room) # <<>>, Read(t)
    PROVE  Collected'
  <1> DEFINE b == Body(t, room)
             f == Fed(t, b)
             m == Length(t)
             a == sent[t]
             g == buf[t]
  <1>1. /\ ProbeTypes /\ TableInv(t) /\ packs' = packs
    BY DEF ProbeInv, Packet
  <1>2. /\ f \in Seq(CellsOf(t)) /\ over' = EndsHere(t, b)
        /\ intact' = [intact EXCEPT ![t] = @ \/ Starts(b) # {}]
        /\ intact'[t] /\ Len(f) >= m => section' = [i \in 1..m |-> <<t, i>>]
    BY PacketRead
  <1>3. m \in Nat \ {0} /\ a \in 0..(m - 1) /\ room \in Nat
    BY <1>1, TableFacts, ProbeAssumption DEF ProbeTypes
  <1>4. /\ DOMAIN b = 1..room /\ Len(b) = room /\ b \in Seq(CellsOf(t))
        /\ \A i \in 1..room : a + i <= m => b[i] = <<t, a + i>>
    BY <1>1, BodyFacts
  <1>5. \A i \in 1..room : ~packs /\ b[i][2] = m => a + i = m
    <2> SUFFICES ASSUME NEW i \in 1..room, ~packs, b[i][2] = m PROVE a + i = m
      OBVIOUS
    <2>1. b[i] = IF a + i > m /\ ~packs THEN Stuffing ELSE Cell(t, a + i - 1)
      BY DEF Body
    <2>2. b[i] # Stuffing
      BY <1>3 DEF Stuffing
    <2> HIDE DEF a, b, m
    <2>3. a + i <= m
      BY <1>3, <2>1, <2>2
    <2>4. b[i][2] = a + i
      BY <1>4, <2>3
    <2> QED BY <2>4
  <1> SUFFICES ASSUME over', ~packs PROVE section' # <<>>
    BY <1>1 DEF Collected
  <1>6. PICK i \in 1..room : /\ b[i][2] = m
                             /\ (started[t] /\ intact[t]) \/ Starts(b) # {}
    BY <1>2, <1>4 DEF EndsHere
  <1>7. a + i = m
    BY <1>5, <1>6
  <1>8. intact'[t] /\ Len(f) >= m
    <2>1. CASE Starts(b) # {}
      <3>1. f = b
        BY <1>1, <2>1, FedAnew
      <3>2. sent[t] = 0
        BY <1>1, <2>1, FedAnew
      <3>3. intact'[t]
        BY <1>1, <1>2, <2>1 DEF ProbeTypes
      <3>4. Len(f) = room /\ i = m /\ i <= room
        BY <1>3, <1>4, <1>7, <3>1, <3>2
      <3> QED BY <1>3, <3>3, <3>4
    <2>2. CASE Starts(b) = {}
      <3>1. f = g \o b /\ InStep(t)
        BY <1>1, <1>6, <2>2, FedOn DEF TableInv
      <3>2. g \in Seq(CellsOf(t)) /\ (Len(g) < m => a = Len(g))
        BY <1>1, <3>1 DEF TableInv, InStep
      <3>3. intact'[t]
        BY <1>1, <1>2, <1>6, <2>2 DEF ProbeTypes
      <3> HIDE DEF a, b, f, m, g
      <3>4. Len(g \o b) = Len(g) + room /\ Len(g) \in Nat
        BY <1>4, <3>2
      <3>5. Len(f) >= m
        BY <1>3, <1>7, <3>1, <3>2, <3>4
      <3> QED BY <3>3, <3>5
    <2> QED BY <2>1, <2>2
  <1>9. section' = [j \in 1..m |-> <<t, j>>]
    BY <1>2, <1>8
  <1>10. DOMAIN section' = 1..m
    BY <1>9
  <1> HIDE DEF m
  <1>11. 1 \in DOMAIN section'
    BY <1>3, <1>10
  <1> QED BY <1>11

(* The invariant holds before the first packet.                            *)
LEMMA ProbeInitInv == ProbeInit => ProbeInv
  <1> SUFFICES ASSUME ProbeInit PROVE ProbeInv
    OBVIOUS
  <1>1. /\ packs \in BOOLEAN /\ lost = 0 /\ section = <<>> /\ over = FALSE
        /\ pmtPID = -1 /\ merged = <<>>
        /\ buf = [t \in Forwarded |-> <<>>]
        /\ started = [t \in Forwarded |-> FALSE] /\ intact = [t \in Forwarded |-> FALSE]
    BY DEF ProbeInit
  <1>2. sent \in [Forwarded -> Nat] /\ \A t \in Forwarded : sent[t] < Length(t)
    BY ProbeAssumption DEF ProbeInit
  <1>3. lost \in 0..Losses
    BY <1>1, ProbeAssumption
  <1>4. started = [t \in Forwarded |-> buf[t] # <<>>]
    BY <1>1
  <1>5. ProbeTypes
    <2>1. buf \in [Forwarded -> Seq(Cells)] /\ intact \in [Forwarded -> BOOLEAN]
      BY <1>1
    <2>2. section \in Seq(Cells) /\ merged \in Seq(Nat) /\ over \in BOOLEAN
          /\ pmtPID \in {-1} \cup Range(Programs)
      <3>1. <<>> \in Seq(Cells) /\ <<>> \in Seq(Nat)
        OBVIOUS
      <3> QED BY <1>1, <3>1, Zenon
    <2> QED BY <1>1, <1>2, <1>3, <1>4, <2>1, <2>2, Zenon DEF ProbeTypes
  <1>6. \A t \in Forwarded : TableInv(t)
    BY <1>1 DEF TableInv
  <1>7. SectionWhole /\ ExpandedCovers /\ Collected
    BY <1>1 DEF SectionWhole, ExpandedCovers, Collected
  <1> QED BY <1>1, <1>5, <1>6, <1>7 DEF ProbeInv

(* What a step that completes no section leaves alone of the properties.   *)
LEMMA NoSection ==
    ASSUME ProbeInv, section' = <<>>, over' = FALSE, UNCHANGED <<pmtPID, merged>>,
           merged = <<>>
    PROVE  SectionWhole' /\ ExpandedCovers' /\ Collected'
  BY DEF ProbeInv, SectionWhole, ExpandedCovers, Collected

(* A packet that is passed over or lost: what is read of the table is no  *)
(* longer in step, unless the packet was empty.                            *)
LEMMA PassedTables ==
    ASSUME ProbeInv, NEW t \in Forwarded, NEW room \in 0..Room, SendOn(t, room),
           UNCHANGED <<buf, pmtPID>>, intact' \in [Forwarded -> BOOLEAN],
           \A u \in Forwarded : intact'[u] => intact[u],
           room = 0 \/ ~Read(t) \/ ~intact'[t],
           NEW u \in Forwarded
    PROVE  TableInv(u)'
  <1>1. ProbeTypes /\ TableInv(u)
    BY DEF ProbeInv
  <1>2. u # t \/ room = 0 => sent'[u] = sent[u]
    BY <1>1, SendFacts
  <1>3. buf' = buf /\ pmtPID' = pmtPID /\ (Read(u)' <=> Read(u))
    BY DEF Read
  <1>4. intact'[u] /\ Read(u)' => InStep(u) /\ sent'[u] = sent[u]
    BY <1>1, <1>2, <1>3 DEF TableInv
  <1>5. InStep(u) /\ sent'[u] = sent[u] => InStep(u)'
    BY <1>3 DEF InStep, Begins, Length, Entries, PAT
  <1>6. (CellsOf(u))' = CellsOf(u)
    BY DEF CellsOf, Length, Entries, Stuffing, PAT
  <1> QED BY <1>1, <1>3, <1>4, <1>5, <1>6 DEF TableInv

(* So do the types.                                                        *)
LEMMA QuietTypes ==
    ASSUME ProbeInv, NEW t \in Forwarded, NEW room \in 0..Room, SendOn(t, room),
           section' = <<>>, over' = FALSE, UNCHANGED <<packs, buf, started, pmtPID, merged>>,
           intact' \in [Forwarded -> BOOLEAN], lost' \in 0..Losses
    PROVE  ProbeTypes'
  <1>1. ProbeTypes
    BY DEF ProbeInv
  <1>2. sent' \in [Forwarded -> Nat] /\ \A u \in Forwarded : sent'[u] < Length(u)
    BY <1>1, SendFacts
  <1>3. /\ Forwarded' = Forwarded /\ Cells' = Cells /\ \A u \in Forwarded : Length(u)' = Length(u)
    BY DEF Forwarded, Cells, Tables, Length, Entries, Stuffing, PAT
  <1>4. /\ packs' \in BOOLEAN /\ buf' \in [Forwarded -> Seq(Cells)]
        /\ started' = [u \in Forwarded |-> buf'[u] # <<>>]
        /\ pmtPID' \in {-1} \cup Range(Requested) /\ merged' \in Seq(Nat)
    BY <1>1 DEF ProbeTypes
  <1>5. section' \in Seq(Cells) /\ over' \in BOOLEAN
    <2>1. <<>> \in Seq(Cells)
      OBVIOUS
    <2> QED BY <2>1, Zenon
  <1> QED BY <1>2, <1>3, <1>4, <1>5 DEF ProbeTypes

(* Every packet, received or lost, preserves the invariant.                *)
LEMMA ProbeNextInv == ProbeInv /\ [ProbeNext]_probeVars => ProbeInv'
  <1> SUFFICES ASSUME ProbeInv, [ProbeNext]_probeVars PROVE ProbeInv'
    OBVIOUS
  <1>1. ASSUME NEW t \in Forwarded, NEW room \in 0..Room, Packet(t, room)
        PROVE  ProbeInv'
    <2>1. CASE Body(t, room) # <<>> /\ Read(t)
      <3>1. ProbeTypes'
        BY <1>1, <2>1, ReadTypes
      <3>2. \A u \in Forwarded : TableInv(u)'
        BY <1>1, <2>1, ReadTables
      <3>3. SectionWhole' /\ ExpandedCovers' /\ Collected'
        BY <1>1, <2>1, ReadWhole, ReadCovers, ReadCollects
      <3>4. Forwarded' = Forwarded
        BY DEF Forwarded, PAT
      <3> QED BY <3>1, <3>2, <3>3, <3>4 DEF ProbeInv
    <2>2. CASE ~(Body(t, room) # <<>> /\ Read(t))
      <3>1. /\ section' = <<>> /\ over' = FALSE
            /\ UNCHANGED <<buf, started, intact, pmtPID, merged>>
        BY <1>1, <2>2, PacketPassed
      <3>2. SendOn(t, room) /\ UNCHANGED <<packs, lost>> /\ merged = <<>> /\ ProbeTypes
        BY <1>1 DEF Packet, ProbeInv
      <3>3. Body(t, room) = <<>> => room = 0
        <4>1. Len(Body(t, room)) = room
          BY <3>2, BodyFacts
        <4> QED BY <4>1
      <3>4. \A u \in Forwarded : TableInv(u)'
        BY <2>2, <3>1, <3>2, <3>3, PassedTables DEF ProbeTypes
      <3>5. ProbeTypes'
        BY <3>1, <3>2, QuietTypes DEF ProbeTypes
      <3>6. SectionWhole' /\ ExpandedCovers' /\ Collected'
        BY <3>1, <3>2, NoSection
      <3> QED BY <3>1, <3>4, <3>5, <3>6 DEF ProbeInv
    <2> QED BY <2>1, <2>2
  <1>2. ASSUME NEW t \in Forwarded, NEW room \in 0..Room, Lose(t, room)
        PROVE  ProbeInv'
    <2>1. /\ SendOn(t, room) /\ merged = <<>> /\ section' = <<>> /\ over' = FALSE
          /\ intact' = [intact EXCEPT ![t] = FALSE]
          /\ lost' = lost + 1 /\ lost < Losses
          /\ UNCHANGED <<packs, buf, started, pmtPID, merged>>
      BY <1>2 DEF Lose
    <2>2. ProbeTypes
      BY DEF ProbeInv
    <2>3. intact' \in [Forwarded -> BOOLEAN] /\ ~intact'[t]
          /\ \A u \in Forwarded : intact'[u] => intact[u]
      BY <2>1, <2>2 DEF ProbeTypes
    <2>4. \A u \in Forwarded : TableInv(u)'
      BY <2>1, <2>3, PassedTables
    <2>5. ProbeTypes'
      <3>1. lost' \in 0..Losses
        BY <2>1, <2>2, ProbeAssumption DEF ProbeTypes
      <3> QED BY <2>1, <2>3, <3>1, QuietTypes
    <2>6. SectionWhole' /\ ExpandedCovers' /\ Collected'
      BY <2>1, NoSection
    <2> QED BY <2>1, <2>4, <2>5, <2>6 DEF ProbeInv
  <1>3. CASE UNCHANGED probeVars
    BY <1>3 DEF probeVars, ProbeInv, ProbeTypes, TableInv, InStep, Begins, Read, SectionWhole,
                ExpandedCovers, Collected
  <1> QED BY <1>1, <1>2, <1>3 DEF ProbeNext

(* sectionAssembler (pmt.go:21) returns sections as they were sent, for    *)
(* every header, packet and table size, cut of the packets and pattern of  *)
(* losses.                                                                 *)
THEOREM SectionsWhole == ProbeSpec => [](ProbeTypes /\ SectionWhole)
  <1>1. ProbeInv => ProbeTypes /\ SectionWhole
    BY DEF ProbeInv
  <1> QED BY <1>1, ProbeInitInv, ProbeNextInv, PTL DEF ProbeSpec

(* It misses none that arrived, if every section starts a packet.          *)
THEOREM SectionsCollected == ProbeSpec => []Collected
  <1>1. ProbeInv => Collected
    BY DEF ProbeInv
  <1> QED BY <1>1, ProbeInitInv, ProbeNextInv, PTL DEF ProbeSpec

(* probeProgramPIDs (pmt.go:312) waits for a PMT that the URL asks for,    *)
(* and mergePIDsIntoURL adds to the URL all the pids of that program and   *)
(* no other, for every mux and every URL.                                  *)
THEOREM ProbeCovers == ProbeSpec => []ExpandedCovers
  <1>1. ProbeInv => ExpandedCovers
    BY DEF ProbeInv
  <1> QED BY <1>1, ProbeInitInv, ProbeNextInv, PTL DEF ProbeSpec

-----------------------------------------------------------------------------
(* The background users of the tuners.                                     *)

Lined   == {line[i] : i \in 1..Len(line)}
InLine  == {"line", "probe", "store", "save", "write", "sweep"}
Working == {"probe", "store", "save", "write", "sweep"}

Shape ==
    /\ line \in Seq(Workers)
    /\ pc \in [Workers -> Locs]
    /\ todo = [w \in Workers |-> todo[w]]

(* A goroutine is in the line once, exactly while it waits for the         *)
(* semaphore or holds it, and only the first works.                        *)
LineOk ==
    /\ \A i, j \in 1..Len(line) : line[i] = line[j] => i = j
    /\ \A w \in Workers : w \in Lined <=> pc[w] \in InLine
    /\ \A w \in Workers : pc[w] \in Working => line # <<>> /\ line[1] = w

(* What a prefetching goroutine knows of the channel it probes.            *)
ProbeOk ==
    \A w \in Prefetchers :
        /\ pc[w] = "probe" => Head(todo[w]) \notin expanded
        /\ pc[w] = "store" => Head(todo[w]) \in service

(* What a prefetching goroutine writes are the caches as they are, and     *)
(* what a restart would read is part of them at every moment.              *)
FileOk ==
    /\ entries = [w \in Prefetchers |-> entries[w]]
    /\ \A w \in Prefetchers : pc[w] = "write" => entries[w] = Cached
    /\ Loaded.keys \subseteq expanded /\ Loaded.ids = Loaded.keys \cap service
    /\ PidsKept

IInv == Shape /\ LineOk /\ ProbeOk /\ KickKept /\ FileOk

-----------------------------------------------------------------------------
(* A goroutine that is not in the line joins it at the end.                *)
LEMMA EnqueueFacts ==
    ASSUME line \in Seq(Workers), LineOk, NEW w \in Workers, w \notin Lined, Enqueue(w)
    PROVE  /\ line' \in Seq(Workers) /\ line' # <<>>
           /\ \A i, j \in 1..Len(line') : line'[i] = line'[j] => i = j
           /\ Lined' = Lined \cup {w}
           /\ line # <<>> => line'[1] = line[1]
  <1>1. line' = Append(line, w)
    BY DEF Enqueue
  <1>2. /\ line' \in Seq(Workers) /\ Len(line') = Len(line) + 1 /\ Len(line) \in Nat
        /\ line'[Len(line) + 1] = w
        /\ \A i \in 1..Len(line) : line'[i] = line[i]
    BY <1>1
  <1>3. \A i \in 1..Len(line) : line[i] # w
    BY DEF Lined
  <1>4. \A i, j \in 1..Len(line') : line'[i] = line'[j] => i = j
    <2> SUFFICES ASSUME NEW i \in 1..Len(line'), NEW j \in 1..Len(line'), line'[i] = line'[j]
                 PROVE  i = j
      OBVIOUS
    <2>1. CASE i \in 1..Len(line) /\ j \in 1..Len(line)
      BY <2>1, <1>2 DEF LineOk
    <2>2. CASE i = Len(line) + 1 \/ j = Len(line) + 1
      BY <2>2, <1>2, <1>3
    <2> QED BY <2>1, <2>2, <1>2
  <1>5. Lined' = Lined \cup {w}
    <2>1. ASSUME NEW v \in Lined PROVE v \in Lined'
      <3>1. PICK i \in 1..Len(line) : line[i] = v
        BY DEF Lined
      <3>2. i \in 1..Len(line') /\ line'[i] = v
        BY <3>1, <1>2
      <3> QED BY <3>2 DEF Lined
    <2>2. w \in Lined'
      <3>1. Len(line) + 1 \in 1..Len(line')
        BY <1>2
      <3> QED BY <3>1, <1>2 DEF Lined
    <2>3. ASSUME NEW v \in Lined' PROVE v \in Lined \cup {w}
      <3>1. PICK i \in 1..Len(line') : line'[i] = v
        BY DEF Lined
      <3>2. i \in 1..Len(line) \/ i = Len(line) + 1
        BY <1>2
      <3> QED BY <3>1, <3>2, <1>2 DEF Lined
    <2> QED BY <2>1, <2>2, <2>3
  <1>6. line # <<>> => 1 \in 1..Len(line)
    OBVIOUS
  <1>7. line' # <<>>
    BY <1>2
  <1> QED BY <1>2, <1>4, <1>5, <1>6, <1>7

(* The holder leaves the line; nobody else does.                           *)
LEMMA ReleaseFacts ==
    ASSUME line \in Seq(Workers), LineOk, line # <<>>, Release
    PROVE  /\ line' \in Seq(Workers)
           /\ \A i, j \in 1..Len(line') : line'[i] = line'[j] => i = j
           /\ Lined' = Lined \ {line[1]}
  <1>1. line' = Tail(line)
    BY DEF Release
  <1>2. /\ line' \in Seq(Workers) /\ Len(line) \in Nat /\ Len(line) >= 1
        /\ Len(line') = Len(line) - 1
        /\ \A i \in 1..Len(line') : line'[i] = line[i + 1]
    BY <1>1
  <1>3. \A i, j \in 1..Len(line') : line'[i] = line'[j] => i = j
    <2> SUFFICES ASSUME NEW i \in 1..Len(line'), NEW j \in 1..Len(line'), line'[i] = line'[j]
                 PROVE  i = j
      OBVIOUS
    <2>1. i + 1 \in 1..Len(line) /\ j + 1 \in 1..Len(line) /\ line[i + 1] = line[j + 1]
      BY <1>2
    <2>2. i + 1 = j + 1
      BY <2>1 DEF LineOk
    <2> QED BY <2>2
  <1>4. ASSUME NEW v \in Lined' PROVE v \in Lined \ {line[1]}
    <2>1. PICK i \in 1..Len(line') : line'[i] = v
      BY DEF Lined
    <2>2. i + 1 \in 1..Len(line) /\ line[i + 1] = v /\ 1 \in 1..Len(line) /\ i + 1 # 1
      BY <2>1, <1>2
    <2>3. line[1] # v
      BY <2>2 DEF LineOk
    <2> QED BY <2>2, <2>3 DEF Lined
  <1>5. ASSUME NEW v \in Lined \ {line[1]} PROVE v \in Lined'
    <2>1. PICK i \in 1..Len(line) : line[i] = v
      BY DEF Lined
    <2>2. i # 1
      BY <2>1
    <2>3. i - 1 \in 1..Len(line') /\ line'[i - 1] = v
      BY <2>1, <2>2, <1>2
    <2> QED BY <2>3 DEF Lined
  <1> QED BY <1>2, <1>3, <1>4, <1>5

(* Holding the semaphore is being first in the line.                       *)
LEMMA HolderIsFirst ==
    ASSUME line \in Seq(Workers), NEW w, Holds(w)
    PROVE  line # <<>> /\ line[1] = w
  BY DEF Holds, Capacity

-----------------------------------------------------------------------------
(* A step of one goroutine that joins the line keeps it in order.          *)
LEMMA JoinLine ==
    ASSUME Shape, LineOk, NEW w \in Workers, pc[w] \notin InLine,
           Enqueue(w), Goto(w, "line")
    PROVE  line' \in Seq(Workers) /\ pc' \in [Workers -> Locs] /\ LineOk'
  <1>1. w \notin Lined
    BY DEF LineOk
  <1>2. /\ line' \in Seq(Workers) /\ line' # <<>>
        /\ \A i, j \in 1..Len(line') : line'[i] = line'[j] => i = j
        /\ Lined' = Lined \cup {w}
        /\ line # <<>> => line'[1] = line[1]
    BY <1>1, EnqueueFacts DEF Shape
  <1>3. /\ pc' \in [Workers -> Locs] /\ pc'[w] = "line"
        /\ \A v \in Workers \ {w} : pc'[v] = pc[v]
    BY DEF Shape, Goto, Locs
  <1>4. \A v \in Workers : v \in Lined' <=> pc'[v] \in InLine
    BY <1>2, <1>3 DEF LineOk, InLine
  <1>5. \A v \in Workers : pc'[v] \in Working => line' # <<>> /\ line'[1] = v
    BY <1>2, <1>3 DEF LineOk, Working
  <1> QED BY <1>2, <1>3, <1>4, <1>5 DEF LineOk

(* So does a step with which the holder leaves it,                         *)
LEMMA LeaveLine ==
    ASSUME Shape, LineOk, NEW w \in Workers, line # <<>>, line[1] = w,
           NEW at \in Locs \ InLine, Release, Goto(w, at)
    PROVE  line' \in Seq(Workers) /\ pc' \in [Workers -> Locs] /\ LineOk'
  <1>1. /\ line' \in Seq(Workers)
        /\ \A i, j \in 1..Len(line') : line'[i] = line'[j] => i = j
        /\ Lined' = Lined \ {w}
    BY ReleaseFacts DEF Shape
  <1>2. /\ pc' \in [Workers -> Locs] /\ pc'[w] = at
        /\ \A v \in Workers \ {w} : pc'[v] = pc[v]
    BY DEF Shape, Goto
  <1>3. \A v \in Workers : v \in Lined' <=> pc'[v] \in InLine
    BY <1>1, <1>2 DEF LineOk
  <1>4. \A v \in Workers : pc'[v] \notin Working
    BY <1>2 DEF LineOk, InLine, Working
  <1> QED BY <1>1, <1>2, <1>3, <1>4 DEF LineOk

(* a step of the holder with which it begins or goes on to work,           *)
LEMMA HolderWorks ==
    ASSUME Shape, LineOk, NEW w \in Workers, line # <<>>, line[1] = w,
           NEW at \in Working, pc[w] \in InLine, UNCHANGED line, Goto(w, at)
    PROVE  line' \in Seq(Workers) /\ pc' \in [Workers -> Locs] /\ LineOk'
  <1>1. /\ pc' \in [Workers -> Locs] /\ pc'[w] = at
        /\ \A v \in Workers \ {w} : pc'[v] = pc[v]
    BY DEF Shape, Goto, Working, Locs
  <1>2. Lined' = Lined
    BY DEF Lined
  <1> QED BY <1>1, <1>2 DEF LineOk, Shape, InLine, Working

(* and a step of a goroutine that stays outside.                           *)
LEMMA StaysOutside ==
    ASSUME Shape, LineOk, NEW w \in Workers, pc[w] \notin InLine,
           NEW at \in Locs \ InLine, UNCHANGED line, Goto(w, at)
    PROVE  line' \in Seq(Workers) /\ pc' \in [Workers -> Locs] /\ LineOk'
  <1>1. /\ pc' \in [Workers -> Locs] /\ pc'[w] = at
        /\ \A v \in Workers \ {w} : pc'[v] = pc[v]
    BY DEF Shape, Goto
  <1>2. Lined' = Lined
    BY DEF Lined
  <1> QED BY <1>1, <1>2 DEF LineOk, Shape, InLine, Working

-----------------------------------------------------------------------------
(* The program starts in a state that satisfies the invariant.             *)
LEMMA InitInv == Init => IInv
  <1> SUFFICES ASSUME Init PROVE IInv
    OBVIOUS
  <1>1. line = <<>> /\ Len(line) = 0
    BY DEF Init
  <1>2. line \in Seq(Workers)
    BY <1>1
  <1>3. Lined = {}
    BY <1>1 DEF Lined
  <1>4. Shape
    BY <1>2 DEF Init, Shape, Locs
  <1>5. LineOk
    BY <1>1, <1>3 DEF Init, LineOk, InLine, Working
  <1>6. ProbeOk /\ KickKept
    BY DEF Init, ProbeOk, KickKept, Workers
  <1>7. FileOk
    <2>1. /\ entries = [w \in Prefetchers |-> NoEntries]
          /\ expanded = Loaded.keys /\ service = Loaded.ids
      BY DEF Init
    <2>4. NoEntries \in CacheFiles
      BY DEF CacheFiles, NoEntries
    <2>5. Loaded \in CacheFiles
      <3>1. file \in Files \cup {NoEntries} /\ Files \subseteq CacheFiles
        BY BudgetAssumption DEF Init
      <3> QED BY <2>4, <3>1 DEF Loaded
    <2>6. Loaded.ids \subseteq Loaded.keys /\ Loaded = [keys |-> Loaded.keys, ids |-> Loaded.ids]
      BY <2>5 DEF CacheFiles
    <2>7. Loaded.ids = Loaded.keys \cap service /\ Loaded = Cached
      BY <2>1, <2>6 DEF Cached
    <2>2. entries = [w \in Prefetchers |-> entries[w]]
      BY <2>1
    <2>3. \A w \in Prefetchers : pc[w] = "new"
      BY DEF Init, Workers
    <2> QED BY <2>1, <2>2, <2>3, <2>7 DEF FileOk, PidsKept
  <1> QED BY <1>4, <1>5, <1>6, <1>7 DEF IInv

(* The kick is kept by every step: only the sweeper takes it, and it turns *)
(* to the snapshot with it.                                                *)
LEMMA KickStep == Shape /\ KickKept /\ [Next]_vars => KickKept'
  <1> SUFFICES ASSUME Shape, KickKept, [Next]_vars PROVE KickKept'
    OBVIOUS
  <1>0. "sweeper" \in Workers /\ "sweeper" \notin Prefetchers \cup Tuned
    BY BudgetAssumption DEF Workers
  <1> USE DEF KickKept, Goto, Shape
  <1>1. ASSUME NEW new \in Lists, Rebuild(new) PROVE KickKept'
    BY <1>1, <1>0 DEF Rebuild
  <1>2. CASE Kick
    BY <1>2 DEF Kick
  <1>3. CASE SweepMuxNow
    BY <1>3, <1>0 DEF SweepMuxNow, mainVars
  <1>4. CASE Wake
    BY <1>4, <1>0 DEF Wake, mainVars
  <1>5. CASE Snapshot
    BY <1>5 DEF Snapshot, mainVars
  <1>6. CASE SweepNext
    BY <1>6, <1>0 DEF SweepNext, mainVars
  <1>7. ASSUME NEW w \in Workers, Step(w) PROVE KickKept'
    <2>1. UNCHANGED <<urls, swept, main, kick>>
      BY <1>7 DEF Step, PrefetchNext, Expand, Probe, Store, Save, Written, SaveFails, SweepBegins, SweepEnds, mainVars
    <2>2. pc["sweeper"] = "snapshot" => pc'["sweeper"] = "snapshot"
      BY <1>7, <1>0 DEF Step, PrefetchNext, Expand, Probe, Store, Save, Written, SaveFails, SweepBegins, SweepEnds
    <2> QED BY <2>1, <2>2
  <1>8. CASE UNCHANGED vars
    BY <1>8 DEF vars, mainVars, workVars
  <1> QED BY <1>1, <1>2, <1>3, <1>4, <1>5, <1>6, <1>7, <1>8 DEF Next, Sweeper

(* The file stays as it is when no goroutine stores, and so does what      *)
(* would be written: a service is found for a channel not expanded yet.    *)
LEMMA FileKept ==
    ASSUME FileOk, UNCHANGED <<expanded, entries, file, whole, failed>>,
           expanded \cap service' = expanded \cap service,
           \A w \in Prefetchers : /\ pc[w] \in {"save", "write"} => pc'[w] \in {"save", "write"}
                                  /\ pc'[w] = "write" => pc[w] = "write"
    PROVE  FileOk'
  <1>1. entries' = [w \in Prefetchers |-> entries'[w]] /\ Loaded' = Loaded /\ Cached' = Cached
    BY DEF FileOk, Loaded, Cached
  <1>2. \A w \in Prefetchers : pc'[w] = "write" => entries'[w] = Cached'
    BY <1>1 DEF FileOk
  <1>3. Loaded.keys \subseteq expanded /\ Loaded.ids = Loaded.keys \cap service
    BY DEF FileOk
  <1>4. Loaded.keys \cap service' = Loaded.keys \cap service
    BY <1>3
  <1>5. PidsKept'
    BY <1>1, <1>3, <1>4 DEF FileOk, PidsKept
  <1> QED BY <1>1, <1>2, <1>3, <1>4, <1>5 DEF FileOk

(* Only the holder of the semaphore stores, and it leaves the file as the  *)
(* caches are, or with less of them if the write fails.                    *)
LEMMA FileStep == Shape /\ LineOk /\ ProbeOk /\ FileOk /\ [Next]_vars => FileOk'
  <1> SUFFICES ASSUME Shape, LineOk, ProbeOk, FileOk, [Next]_vars PROVE FileOk'
    OBVIOUS
  <1>0. /\ "sweeper" \in Workers /\ "sweeper" \notin Prefetchers \cup Tuned
        /\ Prefetchers \cap Tuned = {}
        /\ Prefetchers \subseteq Workers /\ Tuned \subseteq Workers
    BY BudgetAssumption DEF Workers
  <1> USE DEF fileVars, cacheVars
  <1>1. ASSUME NEW new \in Lists, Rebuild(new) PROVE FileOk'
    BY <1>1, <1>0, FileKept DEF Rebuild, Shape, Goto
  <1>2. CASE Kick
    BY <1>2, <1>0, FileKept DEF Kick, Shape
  <1>3. CASE SweepMuxNow
    BY <1>3, <1>0, FileKept DEF SweepMuxNow, Shape, Goto
  <1>4. CASE Sweeper
    BY <1>4, <1>0, FileKept DEF Sweeper, Wake, Snapshot, SweepNext, Shape, Goto
  <1>5. ASSUME NEW w \in Workers \ Prefetchers, SweepBegins(w) \/ SweepEnds(w) PROVE FileOk'
    BY <1>5, <1>0, FileKept DEF SweepBegins, SweepEnds, Shape, Goto
  <1>6. ASSUME NEW w \in Prefetchers, PrefetchNext(w) \/ Expand(w) \/ Probe(w) PROVE FileOk'
    <2>1. /\ UNCHANGED <<expanded, entries, file, whole, failed>>
          /\ pc[w] \notin {"save", "write"} /\ pc'[w] # "write"
          /\ \A v \in Prefetchers \ {w} : pc'[v] = pc[v]
      BY <1>6, <1>0 DEF PrefetchNext, Expand, Probe, Shape, Goto
    <2>2. service' = service \/ (pc[w] = "probe" /\ service' = service \cup {Head(todo[w])})
      BY <1>6 DEF PrefetchNext, Expand, Probe
    <2>3. expanded \cap service' = expanded \cap service
      BY <2>2 DEF ProbeOk
    <2> QED BY <2>1, <2>3, FileKept
  <1>7. ASSUME NEW w \in Prefetchers, pc[w] \in Working
        PROVE  \A v \in Prefetchers \ {w} : pc[v] \notin Working
    BY <1>7, <1>0 DEF LineOk
  <1>8. ASSUME NEW w \in Prefetchers, Store(w) PROVE FileOk'
    <2>1. /\ pc'[w] = "save" /\ \A v \in Prefetchers \ {w} : pc'[v] = pc[v]
          /\ pc[w] = "store" /\ UNCHANGED <<entries, file, whole, service>>
          /\ expanded \subseteq expanded'
      BY <1>8, <1>0 DEF Store, Shape, Goto
    <2>2. \A v \in Prefetchers \ {w} : pc[v] # "write"
      BY <2>1, <1>7 DEF Working
    <2>3. Loaded' = Loaded
      BY <2>1 DEF Loaded
    <2> QED BY <2>1, <2>2, <2>3 DEF FileOk, PidsKept
  <1>9. ASSUME NEW w \in Prefetchers, Save(w) PROVE FileOk'
    <2>1. /\ pc'[w] = "write" /\ \A v \in Prefetchers \ {w} : pc'[v] = pc[v]
          /\ pc[w] = "save" /\ UNCHANGED <<expanded, service>>
          /\ entries' = [entries EXCEPT ![w] = Cached] /\ ~whole'
      BY <1>9, <1>0 DEF Save, Shape, Goto
    <2>2. \A v \in Prefetchers \ {w} : pc[v] # "write"
      BY <2>1, <1>7 DEF Working
    <2>3. Cached' = Cached /\ Loaded' = NoEntries
      BY <2>1 DEF Cached, Loaded
    <2>4. entries' = [v \in Prefetchers |-> entries'[v]] /\ entries'[w] = Cached'
      BY <2>1, <2>3 DEF FileOk
    <2>5. NoEntries.keys = {} /\ NoEntries.ids = {}
      BY DEF NoEntries
    <2> QED BY <2>1, <2>2, <2>3, <2>4, <2>5 DEF FileOk, PidsKept
  <1>10. ASSUME NEW w \in Prefetchers, Written(w) \/ SaveFails(w) PROVE FileOk'
    <2>1. /\ pc'[w] = "next" /\ \A v \in Prefetchers \ {w} : pc'[v] = pc[v]
          /\ pc[w] \in {"save", "write"} /\ UNCHANGED <<expanded, service>>
          /\ entries' = [entries EXCEPT ![w] = NoEntries]
      BY <1>10, <1>0 DEF Written, SaveFails, Shape, Goto
    <2>2. \A v \in Prefetchers \ {w} : pc'[v] # "write"
      BY <2>1, <1>7 DEF Working
    <2>3. entries' = [v \in Prefetchers |-> entries'[v]] /\ Cached' = Cached
      BY <2>1 DEF FileOk, Cached
    <2>4. CASE Written(w)
      <3>1. Loaded' = Cached
        BY <2>4 DEF Written, Loaded, FileOk
      <3>2. Cached.keys = expanded /\ Cached.ids = expanded \cap service
        BY DEF Cached
      <3> QED BY <2>1, <2>2, <2>3, <3>1, <3>2 DEF FileOk, PidsKept
    <2>5. CASE SaveFails(w)
      <3>1. Loaded' = Loaded /\ failed'
        BY <2>5 DEF SaveFails, Loaded
      <3> QED BY <2>1, <2>2, <2>3, <3>1 DEF FileOk, PidsKept
    <2> QED BY <1>10, <2>4, <2>5
  <1>11. CASE UNCHANGED vars
    BY <1>11, FileKept DEF vars, workVars
  <1> QED
    BY <1>1, <1>2, <1>3, <1>4, <1>5, <1>6, <1>8, <1>9, <1>10, <1>11 DEF Next, Step

(* What a prefetching goroutine knows stays true as long as it stays where *)
(* it is and no other goroutine stores a channel.                          *)
LEMMA ProbeKept ==
    ASSUME ProbeOk, NEW w, UNCHANGED <<expanded, service>>,
           \A v \in Prefetchers \ {w} : pc'[v] = pc[v] /\ todo'[v] = todo[v],
           w \in Prefetchers => pc'[w] \notin {"probe", "store"}
    PROVE  ProbeOk'
  BY DEF ProbeOk

(* Every step of the main thread, the sweeper or a sweep, and every step   *)
(* of a prefetching goroutine, preserves the invariant.                    *)
LEMMA NextInv == IInv /\ [Next]_vars => IInv'
  <1> SUFFICES ASSUME IInv, [Next]_vars PROVE Shape' /\ LineOk' /\ ProbeOk'
    BY KickStep, FileStep DEF IInv
  <1> USE DEF IInv
  <1>0. /\ "sweeper" \in Workers /\ "sweeper" \notin Prefetchers \cup Tuned
        /\ Prefetchers \cap Tuned = {}
        /\ Prefetchers \subseteq Workers /\ Tuned \subseteq Workers
    BY BudgetAssumption DEF Workers
  <1>1. ASSUME NEW new \in Lists, Rebuild(new)
        PROVE  Shape' /\ LineOk' /\ ProbeOk'
    <2>0. UNCHANGED <<line, expanded, service>>
      BY <1>1 DEF Rebuild, cacheVars
    <2>1. CASE new = <<>>
      BY <1>1, <2>0, <2>1 DEF Rebuild, Shape, LineOk, Lined, ProbeOk
    <2>2. CASE new # <<>>
      <3>1. PICK w \in Prefetchers :
              /\ pc[w] = "new" /\ Goto(w, "next")
              /\ todo' = [todo EXCEPT ![w] = new]
        BY <1>1, <2>2 DEF Rebuild
      <3>2. w \in Workers /\ "next" \in Locs \ InLine /\ pc[w] \notin InLine
        BY <1>0, <3>1 DEF Locs, InLine
      <3>3. line' \in Seq(Workers) /\ pc' \in [Workers -> Locs] /\ LineOk'
        BY <3>1, <3>2, <2>0, StaysOutside
      <3>4. Shape'
        BY <3>1, <3>3 DEF Shape
      <3>5. /\ \A v \in Prefetchers \ {w} : pc'[v] = pc[v] /\ todo'[v] = todo[v]
            /\ pc'[w] = "next"
        BY <3>1, <1>0 DEF Shape, Goto
      <3> QED BY <3>3, <3>4, <3>5, <2>0, ProbeKept
    <2> QED BY <2>1, <2>2
  <1>2. CASE Kick
    <2>1. UNCHANGED <<line, todo, expanded, service>>
      BY <1>2 DEF Kick, cacheVars
    <2>2. /\ pc' \in [Workers -> Locs]
          /\ \A v \in Workers \ {"sweeper"} : pc'[v] = pc[v]
          /\ pc'["sweeper"] = IF pc["sweeper"] = "new" THEN "wait" ELSE pc["sweeper"]
      BY <1>2, <1>0 DEF Kick, Shape, Locs
    <2>3. LineOk'
      <3>1. \A v \in Workers : /\ pc'[v] \in InLine <=> pc[v] \in InLine
                               /\ pc'[v] \in Working <=> pc[v] \in Working
        BY <2>2 DEF InLine, Working
      <3>2. Lined' = Lined
        BY <2>1 DEF Lined
      <3> QED BY <2>1, <3>1, <3>2 DEF LineOk
    <2>4. ProbeOk'
      BY <2>1, <2>2, <1>0 DEF ProbeOk
    <2> QED BY <2>1, <2>2, <2>3, <2>4 DEF Shape
  <1>3. CASE SweepMuxNow
    <2>1. PICK w \in Tuned : /\ pc[w] = "new" /\ Goto(w, "line") /\ Enqueue(w)
      BY <1>3 DEF SweepMuxNow
    <2>2. w \in Workers /\ w \notin Prefetchers /\ pc[w] \notin InLine
      BY <1>0, <2>1 DEF InLine
    <2>3. line' \in Seq(Workers) /\ pc' \in [Workers -> Locs] /\ LineOk'
      BY <2>1, <2>2, JoinLine
    <2>4. UNCHANGED <<todo, expanded, service>>
      BY <1>3 DEF SweepMuxNow, cacheVars
    <2>5. \A v \in Prefetchers \ {w} : pc'[v] = pc[v] /\ todo'[v] = todo[v]
      BY <2>1, <2>4, <1>0 DEF Shape, Goto
    <2> QED BY <2>1, <2>2, <2>3, <2>4, <2>5, ProbeKept DEF Shape
  <1>4. CASE Wake \/ Snapshot
    <2>1. PICK at \in {"snapshot", "next"} :
            /\ Goto("sweeper", at) /\ pc["sweeper"] \in {"wait", "snapshot"}
            /\ UNCHANGED <<line, expanded, service>>
            /\ todo' = [todo EXCEPT !["sweeper"] = todo'["sweeper"]]
      BY <1>4, <1>0 DEF Wake, Snapshot, cacheVars, Shape
    <2>2. at \in Locs \ InLine /\ pc["sweeper"] \notin InLine
      BY <2>1 DEF Locs, InLine
    <2>3. line' \in Seq(Workers) /\ pc' \in [Workers -> Locs] /\ LineOk'
      BY <2>1, <2>2, <1>0, StaysOutside
    <2>4. \A v \in Prefetchers \ {"sweeper"} : pc'[v] = pc[v] /\ todo'[v] = todo[v]
      BY <2>1, <1>0 DEF Shape, Goto
    <2>5. Shape'
      BY <2>1, <2>3 DEF Shape
    <2> QED BY <2>1, <2>3, <2>4, <2>5, <1>0, ProbeKept
  <1>5. CASE SweepNext
    <2>1. UNCHANGED <<todo, expanded, service>> /\ pc["sweeper"] \notin InLine
      BY <1>5 DEF SweepNext, cacheVars, InLine
    <2>2. line' \in Seq(Workers) /\ pc' \in [Workers -> Locs] /\ LineOk'
      <3>1. CASE Goto("sweeper", "wait") /\ UNCHANGED line
        <4>1. "wait" \in Locs \ InLine
          BY DEF Locs, InLine
        <4> QED BY <3>1, <4>1, <2>1, <1>0, StaysOutside
      <3>2. CASE Goto("sweeper", "line") /\ Enqueue("sweeper")
        BY <3>2, <2>1, <1>0, JoinLine
      <3> QED BY <3>1, <3>2, <1>5 DEF SweepNext
    <2>3. \A v \in Prefetchers \ {"sweeper"} : pc'[v] = pc[v] /\ todo'[v] = todo[v]
      BY <1>5, <2>1, <1>0 DEF SweepNext, Shape, Goto
    <2> QED BY <2>1, <2>2, <2>3, <1>0, ProbeKept DEF Shape
  <1>6. ASSUME NEW w \in Prefetchers,
               PrefetchNext(w) \/ Expand(w) \/ Probe(w) \/ Store(w) \/ Save(w) \/ Written(w) \/ SaveFails(w)
        PROVE  Shape' /\ LineOk' /\ ProbeOk'
    <2>0. w \in Workers
      BY <1>0
    <2>1. /\ \A v \in Prefetchers \ {w} : pc'[v] = pc[v] /\ todo'[v] = todo[v]
          /\ todo' = [v \in Workers |-> todo'[v]]
      BY <1>6, <1>0 DEF PrefetchNext, Expand, Probe, Store, Save, Written, SaveFails, Goto, Drop, Shape
    <2>2. CASE PrefetchNext(w)
      <3>1. pc[w] \notin InLine /\ UNCHANGED <<expanded, service>>
        BY <2>2 DEF PrefetchNext, InLine, cacheVars
      <3>2. CASE Goto(w, "done") /\ UNCHANGED line
        <4>1. "done" \in Locs \ InLine /\ pc'[w] = "done"
          BY <3>2, <2>0 DEF Locs, InLine, Goto, Shape
        <4>2. line' \in Seq(Workers) /\ pc' \in [Workers -> Locs] /\ LineOk'
          BY <4>1, <3>1, <3>2, <2>0, StaysOutside
        <4> QED BY <4>1, <4>2, <3>1, <2>1, ProbeKept DEF Shape
      <3>3. CASE Goto(w, "line") /\ Enqueue(w)
        <4>1. pc'[w] = "line"
          BY <3>3, <2>0 DEF Goto, Shape
        <4>2. line' \in Seq(Workers) /\ pc' \in [Workers -> Locs] /\ LineOk'
          BY <3>1, <3>3, <2>0, JoinLine
        <4> QED BY <4>1, <4>2, <3>1, <2>1, ProbeKept DEF Shape
      <3>4. CASE UNCHANGED <<line, pc>>
        <4>1. pc'[w] = "next"
          BY <3>4, <2>2 DEF PrefetchNext
        <4>2. LineOk'
          BY <3>4 DEF LineOk, Lined
        <4> QED BY <3>4, <4>1, <4>2, <3>1, <2>1, ProbeKept DEF Shape
      <3> QED BY <2>2, <3>2, <3>3, <3>4 DEF PrefetchNext
    <2>3. ASSUME line # <<>>, line[1] = w, Release, Goto(w, "next"),
                 UNCHANGED <<expanded, service>>
          PROVE  Shape' /\ LineOk' /\ ProbeOk'
      <3>1. "next" \in Locs \ InLine /\ pc'[w] = "next"
        BY <2>3, <2>0 DEF Locs, InLine, Goto, Shape
      <3>2. line' \in Seq(Workers) /\ pc' \in [Workers -> Locs] /\ LineOk'
        BY <3>1, <2>3, <2>0, LeaveLine
      <3> QED BY <3>1, <3>2, <2>3, <2>1, ProbeKept DEF Shape
    <2>4. CASE Expand(w)
      <3>1. line # <<>> /\ line[1] = w /\ pc[w] \in InLine
            /\ UNCHANGED <<expanded, service>>
        BY <2>4, HolderIsFirst DEF Expand, InLine, cacheVars, Shape
      <3>2. CASE Goto(w, "next") /\ Release
        BY <3>1, <3>2, <2>3
      <3>3. CASE Head(todo[w]) \notin NoPids \cup expanded /\ Goto(w, "probe") /\ UNCHANGED <<line, todo>>
        <4>1. "probe" \in Working /\ pc'[w] = "probe"
          BY <3>3, <2>0 DEF Working, Goto, Shape
        <4>2. line' \in Seq(Workers) /\ pc' \in [Workers -> Locs] /\ LineOk'
          BY <4>1, <3>1, <3>3, <2>0, HolderWorks
        <4>3. ProbeOk'
          BY <4>1, <3>1, <3>3, <2>1 DEF ProbeOk
        <4> QED BY <4>2, <4>3, <2>1 DEF Shape
      <3> QED BY <2>4, <3>2, <3>3 DEF Expand
    <2>5. CASE Probe(w)
      <3>1. line # <<>> /\ line[1] = w /\ pc[w] \in InLine /\ UNCHANGED expanded
        BY <2>5, <2>0 DEF Probe, LineOk, Working, InLine
      <3>2. CASE Goto(w, "next") /\ Release /\ UNCHANGED service
        BY <3>1, <3>2, <2>3
      <3>3. CASE /\ service' = service \cup {Head(todo[w])}
                 /\ Goto(w, "store") /\ UNCHANGED <<line, todo>>
        <4>1. "store" \in Working /\ pc'[w] = "store"
          BY <3>3, <2>0 DEF Working, Goto, Shape
        <4>2. line' \in Seq(Workers) /\ pc' \in [Workers -> Locs] /\ LineOk'
          BY <4>1, <3>1, <3>3, <2>0, HolderWorks
        <4>3. ProbeOk'
          BY <4>1, <3>1, <3>3, <2>1 DEF ProbeOk
        <4> QED BY <4>2, <4>3, <2>1 DEF Shape
      <3> QED BY <2>5, <3>2, <3>3 DEF Probe
    <2>6. CASE Store(w)
      <3>1. line # <<>> /\ line[1] = w /\ pc[w] = "store"
        BY <2>6, <2>0 DEF Store, LineOk, Working
      <3>2. /\ Goto(w, "save") /\ UNCHANGED <<line, todo, service>>
            /\ expanded' = expanded \cup {Head(todo[w])}
        BY <2>6 DEF Store
      <3>3. "save" \in Working /\ pc'[w] = "save" /\ pc[w] \in InLine
        BY <3>1, <3>2, <2>0 DEF Working, InLine, Goto, Shape
      <3>4. line' \in Seq(Workers) /\ pc' \in [Workers -> Locs] /\ LineOk'
        BY <3>1, <3>2, <3>3, <2>0, HolderWorks
      <3>6. \A v \in Prefetchers \ {w} : pc[v] \notin Working
        BY <3>1, <1>0 DEF LineOk
      <3>7. ProbeOk'
        BY <3>3, <3>6, <2>1 DEF ProbeOk, Working
      <3> QED BY <3>4, <3>7, <2>1 DEF Shape
    <2>7. CASE Save(w)
      <3>1. line # <<>> /\ line[1] = w /\ pc[w] \in InLine
        BY <2>7, <2>0 DEF Save, LineOk, Working, InLine
      <3>2. Goto(w, "write") /\ UNCHANGED <<line, todo, expanded, service>>
        BY <2>7 DEF Save, cacheVars
      <3>3. "write" \in Working /\ pc'[w] = "write"
        BY <3>2, <2>0 DEF Working, Goto, Shape
      <3>4. line' \in Seq(Workers) /\ pc' \in [Workers -> Locs] /\ LineOk'
        BY <3>1, <3>2, <3>3, <2>0, HolderWorks
      <3> QED BY <3>2, <3>3, <3>4, <2>1, ProbeKept DEF Shape
    <2>8. CASE Written(w) \/ SaveFails(w)
      <3>1. line # <<>> /\ line[1] = w
        BY <2>8, <2>0 DEF Written, SaveFails, LineOk, Working
      <3>2. Release /\ Goto(w, "next") /\ UNCHANGED <<expanded, service>>
        BY <2>8 DEF Written, SaveFails, cacheVars
      <3> QED BY <3>1, <3>2, <2>3
    <2> QED BY <1>6, <2>2, <2>4, <2>5, <2>6, <2>7, <2>8
  <1>7. ASSUME NEW w \in Workers \ Prefetchers, SweepBegins(w) \/ SweepEnds(w)
        PROVE  Shape' /\ LineOk' /\ ProbeOk'
    <2>1. /\ UNCHANGED <<expanded, service>>
          /\ todo' = [v \in Workers |-> todo'[v]]
          /\ \A v \in Prefetchers \ {w} : pc'[v] = pc[v] /\ todo'[v] = todo[v]
      BY <1>7, <1>0 DEF SweepBegins, SweepEnds, Shape, Goto, Drop, cacheVars
    <2>2. line' \in Seq(Workers) /\ pc' \in [Workers -> Locs] /\ LineOk'
      <3>1. CASE SweepBegins(w)
        <4>1. /\ line # <<>> /\ line[1] = w /\ pc[w] \in InLine
              /\ Goto(w, "sweep") /\ UNCHANGED line
          BY <3>1, HolderIsFirst DEF SweepBegins, InLine, Shape
        <4>2. "sweep" \in Working
          BY DEF Working
        <4> QED BY <4>1, <4>2, HolderWorks
      <3>2. CASE SweepEnds(w)
        <4>1. line # <<>> /\ line[1] = w
          BY <3>2 DEF SweepEnds, LineOk, Working
        <4>2. AfterSweep(w) \in Locs \ InLine
          BY DEF AfterSweep, Locs, InLine
        <4> QED BY <4>1, <4>2, <3>2, LeaveLine DEF SweepEnds
      <3> QED BY <1>7, <3>1, <3>2
    <2> QED BY <2>1, <2>2, ProbeKept DEF Shape
  <1>8. CASE UNCHANGED vars
    <2>1. UNCHANGED <<line, pc, todo, expanded, service>>
      BY <1>8 DEF vars, workVars, cacheVars
    <2>2. Shape' /\ ProbeOk'
      BY <2>1 DEF Shape, ProbeOk
    <2>3. LineOk'
      BY <2>1 DEF LineOk, Lined
    <2> QED BY <2>2, <2>3
  <1> QED
    BY <1>1, <1>2, <1>3, <1>4, <1>5, <1>6, <1>7, <1>8 DEF Next, Sweeper, Step

-----------------------------------------------------------------------------
(* However many goroutines share expandSem, one of them has a session, and *)
(* it has none for a channel whose pids are known.                         *)
THEOREM OneTuner == Spec => []OneSession
  <1>1. IInv => OneSession
    BY DEF IInv, LineOk, ProbeOk, OneSession, Busy, Working
  <1> QED BY InitInv, NextInv, <1>1, PTL DEF Spec

(* No step of any goroutine leaves a channel with an expanded URL and no   *)
(* service id that was not so already, and only the file can have made it  *)
(* so.                                                                     *)
THEOREM ServicesKnown == Spec => ServiceKnown
  <1>1. IInv /\ [Next]_vars => [expanded' \ service' \subseteq expanded \ service]_vars
    <2> SUFFICES ASSUME IInv, Next PROVE expanded' \ service' \subseteq expanded \ service
      OBVIOUS
    <2>1. ASSUME NEW w \in Prefetchers, Store(w)
          PROVE  expanded' \ service' \subseteq expanded \ service
      <3>1. Head(todo[w]) \in service
        BY <2>1 DEF Store, IInv, ProbeOk
      <3> QED BY <2>1, <3>1 DEF Store
    <2>2. ASSUME NEW w \in Prefetchers,
                 PrefetchNext(w) \/ Expand(w) \/ Probe(w) \/ Save(w) \/ Written(w) \/ SaveFails(w)
          PROVE  expanded' = expanded /\ service \subseteq service'
      BY <2>2 DEF PrefetchNext, Expand, Probe, Save, Written, SaveFails, cacheVars
    <2>3. ASSUME \/ \E new \in Lists : Rebuild(new)
                 \/ Kick \/ SweepMuxNow \/ Sweeper
                 \/ \E w \in Workers : SweepBegins(w) \/ SweepEnds(w)
          PROVE  UNCHANGED <<expanded, service>>
      BY <2>3 DEF Rebuild, Kick, SweepMuxNow, Sweeper, Wake, Snapshot, SweepNext,
                  SweepBegins, SweepEnds, cacheVars
    <2> QED BY <2>1, <2>2, <2>3 DEF Next, Step
  <1> QED BY InitInv, NextInv, <1>1, PTL DEF Spec, ServiceKnown

(* Between two stores, a restart would know the pids and services the      *)
(* program knows, or part of them after a write that failed.               *)
THEOREM PidsSurvive == Spec => []PidsKept
  <1>1. IInv => PidsKept
    BY DEF IInv, FileOk
  <1> QED BY InitInv, NextInv, <1>1, PTL DEF Spec

(* A change of the sweeper's URLs is announced until it copies them.       *)
THEOREM NoKickLost == Spec => []KickKept
  <1>1. IInv => KickKept
    BY DEF IInv
  <1> QED BY InitInv, NextInv, <1>1, PTL DEF Spec
=============================================================================
