---- MODULE SifProofs ----
(***************************************************************************)
(* Sif for every size of the fifo, every program of packets and every      *)
(* chain of tags: packets arrive in order, an interrupt of either end      *)
(* means that its packet is whole, and the ends never wait for each other. *)
(*                                                                         *)
(* What travels is one endless row of places, the same for both            *)
(* directions: the tag of a packet, its words, on SIF0 the junk that fills  *)
(* its last quadword, then the next packet's tag.  The fifo holds the      *)
(* stretch of it from the place the receiver takes next to the place the   *)
(* sender writes next.                                                     *)
(***************************************************************************)
EXTENDS Sif, SequenceTheorems, WellFoundedInduction, TLAPS

-----------------------------------------------------------------------------
(* The row of places *)

Place == [pkt : Pkt, at : Int]
Programs == [Pkt -> [words : Nat \ {0}, eeEnd : BOOLEAN, iopEnd : BOOLEAN]]

\* Words of a packet with its last quadword filled.
Full(P, p) == 4 * ((P[p].words + 3) \div 4)

\* Place a of packet p, where the one behind the last is the next packet's tag.
PlaceOf(P, p, a) == IF a = Full(P, p) + 1 THEN Word((p + 1) % Packets, -3) ELSE Word(p, a)
Succ(P, w) == PlaceOf(P, w.pkt, w.at + 1)

\* The word that is sent for a place: junk is the word a quadword before it.
Content(P, w) == IF w.at <= P[w.pkt].words THEN w ELSE Word(w.pkt, w.at - 4)

Row(P, c, n) == \A i \in 0 .. n - 1 : c[i + 1] = Succ(P, c[i])

\* The fifo holds the row from place t up to place s.
Carries(P, f, t, s) ==
    \E c \in [0 .. f.size -> Place] :
        /\ c[0] = t /\ c[f.size] = s /\ Row(P, c, f.size)
        /\ \A i \in 0 .. f.size - 1 : f.data[(f.readPos + i) % W] = Content(P, c[i])

FifoFits(f) ==
    /\ f = [data |-> f.data, readPos |-> f.readPos, writePos |-> f.writePos, size |-> f.size]
    /\ f.readPos \in 0 .. W - 1 /\ f.size \in 0 .. W
    /\ f.writePos = (f.readPos + f.size) % W

\* Behind the sender's place a in packet p, the fifo's memory still has the
\* words before it, back to the tag, as far as it reaches.
Behind(f, p, a) ==
    \A d \in 1 .. Least(a + 3, W) : f.data[(f.writePos - d) % W] = Word(p, a - d)

\* The receiver has all of packet p but the last due words.
Has(P, g, p, due) ==
    IF p = NoPkt THEN g = <<>> /\ due = 0
    ELSE /\ g \in Seq(Place) /\ due \in 0 .. Full(P, p) /\ Len(g) = Full(P, p) - due
         /\ \A k \in 1 .. Full(P, p) - due : g[k] = Content(P, Word(p, k))

NextFor(P, p, due) ==
    IF p = NoPkt THEN Word(0, -3) ELSE PlaceOf(P, p, Full(P, p) - due + 1)

\* The receiver is at that point of the row, the sender at place s.
Receiving(P, f, p, due, g, s) ==
    FifoFits(f) /\ Carries(P, f, NextFor(P, p, due), s) /\ Has(P, g, p, due)

-----------------------------------------------------------------------------
(* The inductive invariant *)

EeIs(s, b, n, q, t, p, i, u) ==
    [str |-> s, busy |-> b, end |-> n, qwc |-> q, tag |-> t, pkt |-> p, irq |-> i, queued |-> u]
IopIs(t, b, n, c, j, p, i) ==
    [tr |-> t, busy |-> b, end |-> n, counter |-> c, junk |-> j, pkt |-> p, irq |-> i]

Types ==
    /\ channel \in {"sif0", "sif1"} /\ packet \in Programs
    /\ channel = "sif1" => \A p \in Pkt : packet[p].words % 4 = 0
    /\ ee = EeIs(ee.str, ee.busy, ee.end, ee.qwc, ee.tag, ee.pkt, ee.irq, ee.queued)
    /\ {ee.str, ee.busy, ee.end, ee.irq, ee.queued} \subseteq BOOLEAN
    /\ ee.qwc \in Nat /\ ee.tag \in {"more", "end", "irq"} /\ ee.pkt \in Pkt \cup {NoPkt}
    /\ iop = IopIs(iop.tr, iop.busy, iop.end, iop.counter, iop.junk, iop.pkt, iop.irq)
    /\ {iop.tr, iop.busy, iop.end, iop.irq} \subseteq BOOLEAN
    /\ iop.counter \in Nat /\ iop.junk \in Nat /\ iop.pkt \in Pkt \cup {NoPkt}
    /\ did \in BOOLEAN /\ dmac \in BOOLEAN /\ pass \in {"rest", "junk", "iop", "ee"}

\* Where the IOP stands in the packet it sends.
IopAt == Full(packet, iop.pkt) - iop.counter - iop.junk + 1
Sent == IF Sif0 THEN PlaceOf(packet, iop.pkt, IopAt) ELSE src

Sending ==
    /\ ~Sif0 => src \in Place /\ src.at <= packet[src.pkt].words
    /\ Sif0 => /\ iop.pkt \in Pkt
               /\ iop.counter <= packet[iop.pkt].words
               /\ iop.junk \in {0, Full(packet, iop.pkt) - packet[iop.pkt].words}
               /\ iop.counter > 0 => iop.junk = Full(packet, iop.pkt) - packet[iop.pkt].words
               /\ iop.counter > 0 \/ iop.junk > 0 => Behind(fifo, iop.pkt, IopAt)

InTransit == Receiving(packet, fifo, Received, StillDue, got, Sent)

\* Only the data of a packet that is being sent is no whole number of quadwords.
Aligned ==
    /\ fifo.readPos % 4 = 0
    /\ (fifo.size + (IF Sif0 THEN iop.counter + iop.junk ELSE 0)) % 4 = 0
    /\ ~Sif0 => iop.counter % 4 = 0

\* What an end or an interrupt of the sender stands for.
SenderEnds ==
    IF Sif0
    THEN /\ iop.end => packet[iop.pkt].iopEnd
         /\ iop.busy => iop.tr
         /\ iop.irq => /\ iop.tr /\ ~iop.busy /\ iop.counter = 0 /\ iop.junk = 0
                       /\ packet[iop.pkt].iopEnd
    ELSE /\ ee.end => ee.tag # "more"
         /\ ee.queued => ee.str /\ ~ee.busy
         /\ ee.irq => /\ ee.str /\ ~ee.busy /\ ~ee.queued
                      /\ ee.qwc = 0 /\ ee.tag # "more"

\* And of the receiver.
Ends ==
    IF Sif0
    THEN /\ ee.end => ee.pkt # NoPkt /\ packet[ee.pkt].eeEnd
         /\ ee.queued => ee.str /\ ~ee.busy
         /\ ee.irq => /\ ee.str /\ ~ee.busy /\ ~ee.queued
                      /\ ee.qwc = 0 /\ ee.pkt # NoPkt /\ packet[ee.pkt].eeEnd
    ELSE /\ iop.end => iop.pkt # NoPkt /\ packet[iop.pkt].iopEnd
         /\ iop.busy => iop.tr
         /\ iop.irq => /\ iop.tr /\ ~iop.busy /\ iop.counter = 0
                       /\ iop.pkt # NoPkt /\ packet[iop.pkt].iopEnd

\* The loop only ends when neither end can move and no junk is left.
Turns ==
    /\ Rest => ~EeCanMove /\ ~IopCanMove
    /\ IF Sif0
       THEN /\ iop.counter > 0 => iop.busy
            /\ iop.counter = 0 /\ iop.junk > 0 => pass = "junk" \/ (pass = "ee" /\ did)
            /\ pass = "ee" /\ ~did => ~IopCanMove
       ELSE /\ pass = "iop" /\ ~did => ~EeCanMove
            /\ pass # "junk"

Flow == Sending /\ InTransit /\ Aligned

\* The ends need that no start overtakes a queued one; the rest holds without.
IInv ==
    /\ Types /\ Flow /\ Turns
    /\ StaleBusy = FALSE => Ends
    /\ StaleBusy = FALSE => SenderEnds

-----------------------------------------------------------------------------
(* Arithmetic of the fifo *)

\* The fifo holds at least two quadwords, and whole ones.
LEMMA SizeOfFifo == W \in Nat /\ W % 4 = 0 /\ W >= 8 /\ W > 0
BY FifoAssumption

\* Positions are never more than once round away.
LEMMA ModIs ==
    ASSUME NEW x \in Int, -W <= x, x < 2 * W
    PROVE  /\ x % W \in 0 .. W - 1
           /\ x % W = IF x < 0 THEN x + W ELSE IF x < W THEN x ELSE x - W
<1>1. W \in Nat /\ W > 0
  BY SizeOfFifo
<1> QED
  BY <1>1

\* Words of a packet, on either side of the filling up.
LEMMA FullIs ==
    ASSUME NEW P \in Programs, NEW p \in Pkt
    PROVE  /\ P[p].words \in Nat /\ P[p].words > 0
           /\ Full(P, p) \in Nat /\ Full(P, p) % 4 = 0 /\ Full(P, p) >= 4
           /\ Full(P, p) - P[p].words \in 0 .. 3
           /\ JunkNeeded(P[p].words) = Full(P, p) - P[p].words
           /\ P[p].words % 4 = 0 => Full(P, p) = P[p].words
<1>1. P[p].words \in Nat /\ P[p].words > 0
  BY DEF Programs
<1> DEFINE n == P[p].words
<1>2. n \in Nat /\ n > 0
  BY <1>1
<1> HIDE DEF n
<1>3. /\ (4 * ((n + 3) \div 4)) % 4 = 0 /\ 4 * ((n + 3) \div 4) >= 4
      /\ 4 * ((n + 3) \div 4) - n \in 0 .. 3 /\ 4 * ((n + 3) \div 4) \in Nat
  BY <1>2
<1>4. (4 - n) % 4 = 4 * ((n + 3) \div 4) - n
  BY <1>2
<1>5. n % 4 = 0 => 4 * ((n + 3) \div 4) = n
  BY <1>2
<1> QED
  BY <1>1, <1>3, <1>4, <1>5 DEF n, Full, JunkNeeded

\* Going on from a position once reduced.
LEMMA ModAdds ==
    ASSUME NEW r \in 0 .. W - 1, NEW u \in 0 .. W, NEW v \in Int, NEW t \in Int,
           t = u + v, -W <= v, v <= W, -W <= t, t <= W
    PROVE  (((r + u) % W) + v) % W = (r + t) % W
<1>1. W \in Nat /\ W > 0
  BY SizeOfFifo
<1> DEFINE x == r + u
           y == x % W
           z == y + v
           w == r + t
<1>2. -W <= x /\ x < 2 * W /\ x \in Int
  BY <1>1
<1> HIDE DEF x
<1>3. y = IF x < 0 THEN x + W ELSE IF x < W THEN x ELSE x - W
  BY <1>1, <1>2, ModIs
<1> HIDE DEF y
<1>4. -W <= z /\ z < 2 * W /\ z \in Int
  BY <1>1, <1>2, <1>3 DEF x
<1> HIDE DEF z
<1>5. z % W = IF z < 0 THEN z + W ELSE IF z < W THEN z ELSE z - W
  BY <1>1, <1>4, ModIs
<1>6. -W <= w /\ w < 2 * W /\ w \in Int
  BY <1>1
<1> HIDE DEF w
<1>7. w % W = IF w < 0 THEN w + W ELSE IF w < W THEN w ELSE w - W
  BY <1>1, <1>6, ModIs
<1>8. z % W = w % W
  BY <1>1, <1>3, <1>5, <1>7 DEF x, z, w
<1> QED
  BY <1>8 DEF x, y, z, w

\* A whole round is none.
LEMMA ModRound ==
    ASSUME NEW r \in 0 .. W - 1, NEW v \in Int, -W <= v, v <= 0
    PROVE  (r + (v + W)) % W = (r + v) % W
<1>1. W \in Nat /\ W > 0
  BY SizeOfFifo
<1>2. /\ -W <= r + v /\ r + v < 2 * W /\ r + v \in Int
      /\ -W <= r + (v + W) /\ r + (v + W) < 2 * W /\ r + (v + W) \in Int
  BY <1>1
<1>3. /\ (r + v) % W = IF r + v < 0 THEN r + v + W ELSE IF r + v < W THEN r + v ELSE r + v - W
      /\ (r + (v + W)) % W = IF r + (v + W) < 0 THEN r + (v + W) + W
                             ELSE IF r + (v + W) < W THEN r + (v + W) ELSE r + (v + W) - W
  BY <1>1, <1>2, ModIs
<1> QED
  BY <1>1, <1>3

\* The position written to is one.
LEMMA WritePosIs ==
    ASSUME NEW f, FifoFits(f)
    PROVE  /\ f.readPos \in 0 .. W - 1 /\ f.size \in 0 .. W
           /\ f.writePos = (f.readPos + f.size) % W /\ f.writePos \in 0 .. W - 1
<1>1. W \in Nat /\ W > 0
  BY SizeOfFifo
<1>2. f.readPos \in 0 .. W - 1 /\ f.size \in 0 .. W /\ f.writePos = (f.readPos + f.size) % W
  BY DEF FifoFits
<1> DEFINE x == f.readPos + f.size
<1>3. -W <= x /\ x < 2 * W /\ x \in Int
  BY <1>1, <1>2
<1> HIDE DEF x
<1>4. x % W \in 0 .. W - 1
  BY <1>3, ModIs
<1> QED
  BY <1>2, <1>4 DEF x

\* What write leaves at each place, counted from the position written to.
LEMMA WriteIs ==
    ASSUME NEW f, FifoFits(f), NEW ws, NEW n \in 0 .. Free(f), Len(ws) = n,
           NEW j \in 0 .. W - 1
    PROVE  Write(f, ws).data[(f.writePos + j) % W]
           = IF j < n THEN ws[j + 1] ELSE f.data[(f.writePos + j) % W]
<1>1. W \in Nat /\ W > 0
  BY SizeOfFifo
<1>2. f.readPos \in 0 .. W - 1 /\ f.size \in 0 .. W
  BY DEF FifoFits
<1>3. f.writePos \in 0 .. W - 1
  BY WritePosIs
<1> DEFINE wp == f.writePos
           i == (wp + j) % W
<1> HIDE DEF wp
<1>4. wp \in 0 .. W - 1
  BY <1>3 DEF wp
<1>5. i = (IF wp + j < W THEN wp + j ELSE wp + j - W) /\ i \in 0 .. W - 1
  BY <1>1, <1>4, ModIs
<1> HIDE DEF i
<1>6. (i - wp) % W = j
  <2>1. -W <= i - wp /\ i - wp < 2 * W /\ i - wp \in Int
    BY <1>1, <1>4, <1>5
  <2>2. (i - wp) % W = IF i - wp < 0 THEN i - wp + W ELSE IF i - wp < W THEN i - wp ELSE i - wp - W
    BY <1>1, <2>1, ModIs
  <2> QED
    BY <1>1, <1>4, <1>5, <2>2
<1>7. Write(f, ws).data = [m \in 0 .. W - 1 |-> LET k == ((m - wp) % W) + 1
                                                IN  IF k <= n THEN ws[k] ELSE f.data[m]]
  <2>1. f = [data |-> f.data, readPos |-> f.readPos, writePos |-> f.writePos, size |-> f.size]
    BY DEF FifoFits
  <2> QED
    BY <2>1 DEF Write, wp
<1>8. Write(f, ws).data[i] = IF j + 1 <= n THEN ws[j + 1] ELSE f.data[i]
  BY <1>5, <1>6, <1>7
<1>9. (j + 1 <= n) = (j < n)
  BY <1>1, <1>2 DEF Free
<1> QED
  BY <1>8, <1>9 DEF i, wp

\* Writing keeps the fifo's books.
LEMMA WriteFits ==
    ASSUME NEW f, FifoFits(f), NEW ws, NEW n \in 0 .. Free(f), Len(ws) = n
    PROVE  /\ FifoFits(Write(f, ws))
           /\ Write(f, ws).readPos = f.readPos /\ Write(f, ws).size = f.size + n
           /\ Write(f, ws).writePos = (f.writePos + n) % W
<1>1. W \in Nat /\ W > 0
  BY SizeOfFifo
<1>2. f.readPos \in 0 .. W - 1 /\ f.size \in 0 .. W /\ f.writePos = (f.readPos + f.size) % W
  BY DEF FifoFits
<1>3. f = [data |-> f.data, readPos |-> f.readPos, writePos |-> f.writePos, size |-> f.size]
  BY DEF FifoFits
<1> DEFINE data == [i \in 0 .. W - 1 |->
                       LET k == ((i - f.writePos) % W) + 1
                       IN  IF k <= Len(ws) THEN ws[k] ELSE f.data[i]]
<1>4. Write(f, ws) = [f EXCEPT !.data = data, !.writePos = (f.writePos + n) % W, !.size = f.size + n]
  BY DEF Write
<1> HIDE DEF data
<1>5. Write(f, ws) = [data |-> data, readPos |-> f.readPos,
                      writePos |-> (f.writePos + n) % W, size |-> f.size + n]
  BY <1>3, <1>4
<1>6. f.size + n \in 0 .. W /\ n \in 0 .. W /\ n \in Int
  BY <1>1, <1>2 DEF Free
<1> DEFINE m == f.size + n
<1>7. (f.writePos + n) % W = (f.readPos + m) % W
  <2>1. m = f.size + n /\ m \in Int /\ -W <= n /\ n <= W /\ -W <= m /\ m <= W
    BY <1>1, <1>2, <1>6
  <2> HIDE DEF m
  <2>2. (((f.readPos + f.size) % W) + n) % W = (f.readPos + m) % W
    BY <1>2, <1>6, <2>1, ModAdds
  <2> QED
    BY <1>2, <2>2
<1> QED
  BY <1>2, <1>5, <1>6, <1>7 DEF FifoFits

\* Reading keeps them.
LEMMA ReadFits ==
    ASSUME NEW f, FifoFits(f), NEW n \in 0 .. f.size
    PROVE  /\ FifoFits(Read(f, n))
           /\ Read(f, n).data = f.data /\ Read(f, n).writePos = f.writePos
           /\ Read(f, n).readPos = (f.readPos + n) % W /\ Read(f, n).size = f.size - n
<1>1. W \in Nat /\ W > 0
  BY SizeOfFifo
<1>2. f.readPos \in 0 .. W - 1 /\ f.size \in 0 .. W /\ f.writePos = (f.readPos + f.size) % W
  BY DEF FifoFits
<1>3. f = [data |-> f.data, readPos |-> f.readPos, writePos |-> f.writePos, size |-> f.size]
  BY DEF FifoFits
<1>4. Read(f, n) = [data |-> f.data, readPos |-> (f.readPos + n) % W,
                    writePos |-> f.writePos, size |-> f.size - n]
  <2> DEFINE r == (f.readPos + n) % W
             m == f.size - n
  <2>1. Read(f, n) = [f EXCEPT !.readPos = r, !.size = m]
    BY DEF Read
  <2> HIDE DEF r, m
  <2>2. PICK a, b, c, d : f = [data |-> a, readPos |-> b, writePos |-> c, size |-> d]
    BY <1>3
  <2>3. Read(f, n) = [data |-> a, readPos |-> r, writePos |-> c, size |-> m]
    BY ONLY <2>1, <2>2
  <2>4. Read(f, n) = [data |-> f.data, readPos |-> r, writePos |-> f.writePos, size |-> m]
    BY ONLY <2>2, <2>3
  <2> QED
    BY <2>4 DEF r, m
<1> DEFINE m == f.size - n
<1>5. /\ m \in 0 .. W /\ n \in 0 .. W /\ f.size = n + m /\ m \in Int /\ f.size \in Int
      /\ -W <= m /\ m <= W /\ -W <= f.size /\ f.size <= W
  BY <1>1, <1>2
<1>6. (((f.readPos + n) % W) + m) % W = (f.readPos + f.size) % W
  <2> HIDE DEF m
  <2> QED
    BY <1>1, <1>2, <1>5, ModAdds
<1>7. (f.readPos + n) % W \in 0 .. W - 1
  <2> DEFINE x == f.readPos + n
  <2>1. -W <= x /\ x < 2 * W /\ x \in Int
    BY <1>1, <1>2, <1>5
  <2> HIDE DEF x
  <2>2. x % W \in 0 .. W - 1
    BY <2>1, ModIs
  <2> QED
    BY <2>2 DEF x
<1> QED
  BY <1>2, <1>4, <1>5, <1>6, <1>7 DEF FifoFits

-----------------------------------------------------------------------------
(* Going along the row *)

\* Places of a packet, and the one behind the last.
LEMMA PlaceIs ==
    ASSUME NEW P \in Programs, NEW p \in Pkt, NEW a \in Int
    PROVE  /\ PlaceOf(P, p, a) \in Place /\ PlaceOf(P, p, a) = [pkt |-> PlaceOf(P, p, a).pkt,
                                                              at |-> PlaceOf(P, p, a).at]
           /\ a <= Full(P, p) => PlaceOf(P, p, a) = Word(p, a)
           /\ a <= Full(P, p) => Succ(P, PlaceOf(P, p, a)) = PlaceOf(P, p, a + 1)
           /\ Content(P, Word(p, a)) \in Place
<1>1. Full(P, p) \in Nat /\ P[p].words \in Nat
  BY FullIs
<1>2. (p + 1) % Packets \in Pkt
  BY PacketsAssumption DEF Pkt
<1>3. Word((p + 1) % Packets, -3) \in Place /\ \A b \in Int : Word(p, b) \in Place
  BY <1>2 DEF Word, Place
<1>4. a <= Full(P, p) => PlaceOf(P, p, a) = Word(p, a)
  BY <1>1 DEF PlaceOf
<1>5. Word(p, a).pkt = p /\ Word(p, a).at = a
  BY DEF Word
<1>6. PlaceOf(P, p, a) \in Place /\ Content(P, Word(p, a)) \in Place
  BY <1>3, <1>5 DEF PlaceOf, Content
<1>7. PlaceOf(P, p, a) = [pkt |-> PlaceOf(P, p, a).pkt, at |-> PlaceOf(P, p, a).at]
  BY <1>6 DEF Place
<1> QED
  BY <1>4, <1>5, <1>6, <1>7 DEF Succ

\* The first word of the next packet's tag has two names.
LEMMA NextTag ==
    ASSUME NEW P \in Programs, NEW p \in Pkt
    PROVE  /\ (p + 1) % Packets \in Pkt
           /\ PlaceOf(P, p, Full(P, p) + 1) = Word((p + 1) % Packets, -3)
           /\ PlaceOf(P, p, -3) = Word(p, -3)
<1>1. Full(P, p) \in Nat
  BY FullIs
<1>2. (p + 1) % Packets \in Pkt
  BY PacketsAssumption DEF Pkt
<1> QED
  BY <1>1, <1>2 DEF PlaceOf

\* A set of numbers with 0 and every number's successor is all of them.
LEMMA SetInduction ==
    ASSUME NEW S \in SUBSET Nat, 0 \in S, \A n \in S : n + 1 \in S
    PROVE  S = Nat
<1> SUFFICES ASSUME Nat \ S # {} PROVE FALSE
  OBVIOUS
<1> DEFINE R == OpToRel(<, Nat)
<1>1. IsWellFoundedOn(R, Nat)
  BY NatLessThanWellFounded
<1>2. \A x, y \in Nat : x < y => <<x, y>> \in R
  BY DEF OpToRel
<1> HIDE DEF R
<1>3. PICK x \in Nat \ S : \A y \in Nat \ S : ~(<<y, x>> \in R)
  BY <1>1, WFMin
<1>4. x # 0 /\ x - 1 \in Nat
  OBVIOUS
<1>5. x - 1 \in S
  <2>1. x - 1 < x
    OBVIOUS
  <2>2. <<x - 1, x>> \in R
    BY <1>2, <1>4, <2>1
  <2> QED
    BY <1>3, <1>4, <2>2
<1>6. x - 1 + 1 = x
  BY <1>3
<1> QED
  BY <1>3, <1>5, <1>6

\* What holds of 0 and is handed on holds as far as it is handed on.
LEMMA UptoInduction ==
    ASSUME NEW m \in Nat, NEW S, 0 \in S,
           \A n \in 0 .. m - 1 : n \in S => n + 1 \in S
    PROVE  \A n \in 0 .. m : n \in S
<1> DEFINE T == {n \in Nat : n <= m => n \in S}
<1>1. T \in SUBSET Nat /\ 0 \in T
  OBVIOUS
<1>2. \A n \in T : n + 1 \in T
  OBVIOUS
<1> HIDE DEF T
<1>3. T = Nat
  BY <1>1, <1>2, SetInduction
<1> QED
  BY <1>3 DEF T

\* Inside a packet the row is its places one after the other.
LEMMA RunIs ==
    ASSUME NEW P \in Programs, NEW p \in Pkt, NEW a \in Int, NEW n \in Nat,
           a + n <= Full(P, p) + 1, NEW c, NEW m \in Nat, n <= m,
           c[0] = PlaceOf(P, p, a), Row(P, c, m)
    PROVE  \A i \in 0 .. n : c[i] = PlaceOf(P, p, a + i)
<1> DEFINE S == {i \in 0 .. n : c[i] = PlaceOf(P, p, a + i)}
<1>1. 0 \in S
  <2>1. a + 0 = a /\ 0 \in 0 .. n
    OBVIOUS
  <2> QED
    BY <2>1
<1>2. ASSUME NEW i \in 0 .. n - 1, i \in S PROVE i + 1 \in S
  <2>1. i \in 0 .. m - 1 /\ i + 1 \in 0 .. n /\ a + i \in Int /\ (a + i) + 1 = a + (i + 1)
    OBVIOUS
  <2>2. a + i <= Full(P, p)
    BY FullIs
  <2>3. c[i + 1] = Succ(P, c[i]) /\ c[i] = PlaceOf(P, p, a + i)
    BY <1>2, <2>1 DEF Row
  <2> DEFINE b == a + i
  <2>4. b \in Int /\ b <= Full(P, p)
    BY <2>1, <2>2
  <2> HIDE DEF b
  <2>5. Succ(P, PlaceOf(P, p, b)) = PlaceOf(P, p, b + 1)
    BY <2>4, PlaceIs
  <2>6. Succ(P, PlaceOf(P, p, a + i)) = PlaceOf(P, p, a + (i + 1))
    BY <2>1, <2>5 DEF b
  <2> QED
    BY <2>1, <2>3, <2>6
<1> HIDE DEF S
<1>3. \A i \in 0 .. n : i \in S
  BY <1>1, <1>2, UptoInduction
<1> QED
  BY <1>3 DEF S

\* Reading takes the row's next n places, if they lie in one packet.
LEMMA ReadCarries ==
    ASSUME NEW P \in Programs, NEW f, FifoFits(f), NEW p \in Pkt, NEW a \in Int, NEW s,
           Carries(P, f, PlaceOf(P, p, a), s), NEW n \in 0 .. f.size,
           a + n <= Full(P, p) + 1
    PROVE  /\ Carries(P, Read(f, n), PlaceOf(P, p, a + n), s)
           /\ \A k \in 1 .. n : Oldest(f, n)[k] = Content(P, Word(p, a + k - 1))
           /\ Oldest(f, n) \in Seq(Place) /\ Len(Oldest(f, n)) = n
<1> DEFINE z == f.size
           r == f.readPos
<1>1. z \in Nat /\ n \in Nat /\ n <= z /\ r \in 0 .. W - 1 /\ z <= W /\ W \in Nat /\ W > 0
  BY SizeOfFifo DEF FifoFits
<1>2. PICK c \in [0 .. z -> Place] :
           /\ c[0] = PlaceOf(P, p, a) /\ c[z] = s /\ Row(P, c, z)
           /\ \A i \in 0 .. z - 1 : f.data[(r + i) % W] = Content(P, c[i])
  BY DEF Carries
<1> HIDE DEF z, r
<1>3. \A i \in 0 .. n : c[i] = PlaceOf(P, p, a + i)
  <2>1. P \in Programs /\ p \in Pkt /\ a \in Int /\ a + n <= Full(P, p) + 1
    OBVIOUS
  <2>2. n \in Nat /\ z \in Nat /\ n <= z /\ c[0] = PlaceOf(P, p, a) /\ Row(P, c, z)
    BY <1>1, <1>2
  <2> QED
    BY ONLY <2>1, <2>2, RunIs
<1>4. /\ Read(f, n).data = f.data /\ Read(f, n).readPos = (r + n) % W
      /\ Read(f, n).size = z - n
  BY ReadFits DEF z, r
<1>5. Carries(P, Read(f, n), PlaceOf(P, p, a + n), s)
  <2> DEFINE d == [i \in 0 .. z - n |-> c[i + n]]
  <2>1. d \in [0 .. z - n -> Place]
    BY <1>1, <1>2
  <2>2. d[0] = PlaceOf(P, p, a + n) /\ d[z - n] = s
    BY <1>1, <1>2, <1>3
  <2>3. Row(P, d, z - n)
    <3> SUFFICES ASSUME NEW i \in 0 .. z - n - 1 PROVE d[i + 1] = Succ(P, d[i])
      BY DEF Row
    <3>1. i + n \in 0 .. z - 1 /\ i + 1 \in 0 .. z - n /\ i \in 0 .. z - n
          /\ (i + 1) + n = (i + n) + 1
      BY <1>1
    <3>2. c[(i + n) + 1] = Succ(P, c[i + n])
      BY <1>2, <3>1 DEF Row
    <3> QED
      BY <3>1, <3>2
  <2>4. ASSUME NEW i \in 0 .. z - n - 1
        PROVE  f.data[(((r + n) % W) + i) % W] = Content(P, d[i])
    <3> DEFINE t == n + i
    <3>1. /\ t \in 0 .. z - 1 /\ t = i + n /\ i \in 0 .. z - n
          /\ n \in 0 .. W /\ i \in Int /\ t \in Int /\ -W <= i /\ i <= W /\ -W <= t /\ t <= W
      BY <1>1
    <3>2. d[i] = c[t]
      BY <3>1
    <3> HIDE DEF t, d
    <3>3. (((r + n) % W) + i) % W = (r + t) % W
      <4>1. t = n + i
        BY DEF t
      <4> QED
        BY <1>1, <3>1, <4>1, ModAdds
    <3> QED
      BY <1>2, <3>1, <3>2, <3>3
  <2> HIDE DEF d
  <2> QED
    BY <1>4, <2>1, <2>2, <2>3, <2>4 DEF Carries
<1>6. ASSUME NEW k \in 1 .. n
      PROVE  Oldest(f, n)[k] = Content(P, Word(p, a + k - 1))
  <2> DEFINE j == k - 1
  <2>1. /\ j \in 0 .. z - 1 /\ j \in 0 .. n /\ r + k - 1 = r + j /\ a + k - 1 = a + j
        /\ a + j \in Int /\ a + j <= Full(P, p)
    BY <1>1, FullIs
  <2>2. PlaceOf(P, p, a + j) = Word(p, a + j)
    <3> DEFINE b == a + j
    <3>1. b \in Int /\ b <= Full(P, p)
      BY <2>1
    <3> HIDE DEF b
    <3>2. PlaceOf(P, p, b) = Word(p, b)
      BY <3>1, PlaceIs
    <3> QED
      BY <3>2 DEF b
  <2>3. Oldest(f, n)[k] = f.data[(r + j) % W]
    BY <2>1 DEF Oldest, r
  <2> QED
    BY <1>2, <1>3, <2>1, <2>2, <2>3
<1>7. Oldest(f, n) \in Seq(Place) /\ Len(Oldest(f, n)) = n
  <2>1. ASSUME NEW k \in 1 .. n PROVE Oldest(f, n)[k] \in Place
    <3> DEFINE b == a + k - 1
    <3>1. b \in Int
      BY <1>1
    <3>2. Oldest(f, n)[k] = Content(P, Word(p, b))
      BY <1>6
    <3> HIDE DEF b
    <3> QED
      BY <3>1, <3>2, PlaceIs
  <2>2. Oldest(f, n) = [k \in 1 .. n |-> Oldest(f, n)[k]]
    BY DEF Oldest
  <2> DEFINE o == Oldest(f, n)
  <2> HIDE DEF o
  <2>3. o \in [1 .. n -> Place]
    BY <2>1, <2>2 DEF o
  <2>4. o \in Seq(Place) /\ Len(o) = n
    BY <1>1, <2>3
  <2> QED
    BY <2>4 DEF o
<1> QED
  BY <1>5, <1>6, <1>7

\* Writing the words of a stretch d of the row appends it.
LEMMA WriteCarries ==
    ASSUME NEW P \in Programs, NEW f, FifoFits(f), NEW t, NEW s, Carries(P, f, t, s),
           NEW n \in 0 .. Free(f), NEW d \in [0 .. n -> Place], d[0] = s, Row(P, d, n),
           NEW ws, Len(ws) = n, \A k \in 1 .. n : ws[k] = Content(P, d[k - 1])
    PROVE  Carries(P, Write(f, ws), t, d[n])
<1> DEFINE z == f.size
           r == f.readPos
           wp == f.writePos
<1>1. /\ z \in Nat /\ r \in 0 .. W - 1 /\ z <= W /\ W \in Nat /\ W > 0
      /\ n \in Nat /\ z + n <= W /\ wp = (r + z) % W
  BY SizeOfFifo DEF FifoFits, Free
<1>2. PICK c \in [0 .. z -> Place] :
           /\ c[0] = t /\ c[z] = s /\ Row(P, c, z)
           /\ \A i \in 0 .. z - 1 : f.data[(r + i) % W] = Content(P, c[i])
  BY DEF Carries
<1>3. Write(f, ws).readPos = r /\ Write(f, ws).size = z + n
  BY WriteFits
<1>4. \A j \in 0 .. W - 1 : Write(f, ws).data[(wp + j) % W]
                            = IF j < n THEN ws[j + 1] ELSE f.data[(wp + j) % W]
  BY WriteIs
<1> DEFINE e == [i \in 0 .. z + n |-> IF i <= z THEN c[i] ELSE d[i - z]]
           g == Write(f, ws)
<1> HIDE DEF z, r, wp, g
<1>5. e \in [0 .. z + n -> Place] /\ e[0] = t /\ e[z + n] = d[n]
      /\ \A i \in 0 .. z : e[i] = c[i]
  <2>1. /\ 0 \in 0 .. z /\ z \in 0 .. z /\ z + n \in 0 .. z + n /\ (z + n) - z = n
        /\ n \in 0 .. n /\ 0 \in 0 .. n
    BY <1>1
  <2>2. \A i \in 0 .. z : i \in 0 .. z + n /\ i <= z
    BY <1>1
  <2>3. \A i \in 0 .. z + n : i <= z \/ i - z \in 0 .. n
    BY <1>1
  <2>4. \A i \in 0 .. z + n : i <= z => i \in 0 .. z
    BY <1>1
  <2>5. \A i \in 0 .. z : e[i] = c[i]
    BY <2>2
  <2>6. e \in [0 .. z + n -> Place]
    <3>1. \A i \in 0 .. z + n : (IF i <= z THEN c[i] ELSE d[i - z]) \in Place
      BY <1>2, <2>3, <2>4
    <3> QED
      BY <3>1
  <2>7. e[z + n] = d[n]
    <3>1. CASE n = 0
      <4>1. z + n = z
        BY <1>1, <3>1
      <4> QED
        BY <1>2, <2>1, <2>5, <3>1, <4>1
    <3>2. CASE n # 0
      <4>1. ~(z + n <= z)
        BY <1>1, <3>2
      <4> QED
        BY <2>1, <4>1
    <3> QED
      BY <3>1, <3>2
  <2> HIDE DEF e
  <2> QED
    BY <1>2, <2>1, <2>5, <2>6, <2>7
<1>6. \A i \in 0 .. n : e[z + i] = d[i]
  <2> SUFFICES ASSUME NEW i \in 0 .. n PROVE e[z + i] = d[i]
    OBVIOUS
  <2>1. z + i \in 0 .. z + n /\ (z + i) - z = i /\ (z + i <= z <=> i = 0)
    BY <1>1
  <2> QED
    BY <1>1, <1>2, <2>1
<1> HIDE DEF e
<1>7. ASSUME NEW i \in 0 .. z + n - 1 PROVE e[i + 1] = Succ(P, e[i])
  <2>1. CASE i < z
    <3>1. i \in 0 .. z - 1 /\ i \in 0 .. z /\ i + 1 \in 0 .. z
      BY <1>1, <2>1
    <3> QED
      BY <1>2, <1>5, <3>1 DEF Row
  <2>2. CASE i >= z
    <3> DEFINE j == i - z
    <3>1. j \in 0 .. n - 1 /\ j \in 0 .. n /\ j + 1 \in 0 .. n /\ z + j = i /\ z + (j + 1) = i + 1
      BY <1>1, <2>2
    <3> HIDE DEF j
    <3>2. d[j + 1] = Succ(P, d[j])
      BY <3>1 DEF Row
    <3> QED
      BY <1>6, <3>1, <3>2
  <2> QED
    BY <1>1, <2>1, <2>2
<1>8. ASSUME NEW i \in 0 .. z + n - 1
      PROVE  g.data[(r + i) % W] = Content(P, e[i])
  <2>1. CASE i < z
    <3> DEFINE j == W + i - z
    <3>1. j \in 0 .. W - 1 /\ ~(j < n) /\ i \in 0 .. z - 1 /\ i \in 0 .. z
      BY <1>1, <2>1
    <3>2. (wp + j) % W = (r + i) % W
      <4> DEFINE u == i + W
                 v == i - z
      <4>1. /\ v \in Int /\ -W <= v /\ v <= 0 /\ v <= W /\ i = z + v /\ j = v + W /\ z \in 0 .. W
            /\ i \in Int /\ -W <= i /\ i <= W
        BY <1>1, <2>1
      <4>2. wp \in 0 .. W - 1
        BY WritePosIs DEF wp
      <4> HIDE DEF u, v, j
      <4>3. (wp + (v + W)) % W = (wp + v) % W
        BY <4>1, <4>2, ModRound
      <4>4. (((r + z) % W) + v) % W = (r + i) % W
        BY ONLY <1>1, <4>1, ModAdds
      <4> QED
        BY <1>1, <4>1, <4>3, <4>4
    <3> HIDE DEF j
    <3>3. g.data[(wp + j) % W] = f.data[(wp + j) % W]
      BY <1>4, <3>1 DEF g
    <3> QED
      BY <1>2, <1>5, <3>1, <3>2, <3>3
  <2>2. CASE i >= z
    <3> DEFINE j == i - z
    <3>1. /\ j \in 0 .. W - 1 /\ j < n /\ j \in 0 .. n /\ z + j = i /\ j + 1 \in 1 .. n
          /\ (j + 1) - 1 = j
          /\ j \in Int /\ i \in Int /\ -W <= j /\ j <= W /\ -W <= i /\ i <= W /\ z \in 0 .. W
      BY <1>1, <2>2
    <3> HIDE DEF j
    <3>2. (((r + z) % W) + j) % W = (r + i) % W
      BY ONLY <1>1, <3>1, ModAdds
    <3>3. g.data[(wp + j) % W] = ws[j + 1]
      BY <1>4, <3>1 DEF g
    <3>4. ws[j + 1] = Content(P, d[j])
      BY <3>1
    <3> QED
      BY <1>1, <1>6, <3>1, <3>2, <3>3, <3>4
  <2> QED
    BY <1>1, <2>1, <2>2
<1> DEFINE m == z + n
<1>9. e \in [0 .. m -> Place] /\ e[0] = t /\ e[m] = d[n] /\ g.size = m /\ g.readPos = r
  BY <1>3, <1>5 DEF g
<1>10. \A i \in 0 .. m - 1 : e[i + 1] = Succ(P, e[i])
  BY <1>1, <1>7
<1>11. \A i \in 0 .. m - 1 : g.data[(r + i) % W] = Content(P, e[i])
  BY <1>1, <1>8
<1> HIDE DEF m
<1>12. Carries(P, g, t, d[n])
  <2>1. Row(P, e, m)
    BY <1>10 DEF Row
  <2> QED
    BY <1>9, <1>11, <2>1 DEF Carries
<1> QED
  BY <1>12 DEF g

\* The same for the next n places of one packet.
LEMMA WriteRun ==
    ASSUME NEW P \in Programs, NEW f, FifoFits(f), NEW t, NEW p \in Pkt, NEW a \in Int,
           Carries(P, f, t, PlaceOf(P, p, a)), NEW n \in 0 .. Free(f),
           a + n <= Full(P, p) + 1, NEW ws, Len(ws) = n,
           \A k \in 1 .. n : ws[k] = Content(P, Word(p, a + k - 1))
    PROVE  Carries(P, Write(f, ws), t, PlaceOf(P, p, a + n))
<1>1. n \in Nat /\ Full(P, p) \in Nat
  BY FullIs, SizeOfFifo DEF FifoFits, Free
<1> DEFINE d == [i \in 0 .. n |-> PlaceOf(P, p, a + i)]
<1>2. ASSUME NEW i \in 0 .. n
      PROVE  /\ d[i] \in Place
             /\ i < n => d[i] = Word(p, a + i) /\ d[i + 1] = Succ(P, d[i])
  <2> DEFINE b == a + i
  <2>1. b \in Int /\ (i < n => b <= Full(P, p) /\ i + 1 \in 0 .. n) /\ b + 1 = a + (i + 1)
    BY <1>1
  <2>2. d[i] = PlaceOf(P, p, b) /\ (i < n => d[i + 1] = PlaceOf(P, p, b + 1))
    BY <2>1
  <2> HIDE DEF d, b
  <2>3. d[i] \in Place /\ (i < n => d[i] = Word(p, b) /\ d[i + 1] = Succ(P, d[i]))
    BY <2>1, <2>2, PlaceIs
  <2> QED
    BY <2>3 DEF b
<1>3. d \in [0 .. n -> Place] /\ Row(P, d, n)
  <2>1. \A i \in 0 .. n : d[i] \in Place
    BY <1>2
  <2>2. ASSUME NEW i \in 0 .. n - 1 PROVE d[i + 1] = Succ(P, d[i])
    <3>1. i \in 0 .. n /\ i < n
      BY <1>1
    <3> HIDE DEF d
    <3> QED
      BY <1>2, <3>1
  <2>3. d = [i \in 0 .. n |-> d[i]]
    OBVIOUS
  <2> HIDE DEF d
  <2> QED
    BY <2>1, <2>2, <2>3 DEF Row
<1>4. d[0] = PlaceOf(P, p, a) /\ d[n] = PlaceOf(P, p, a + n)
  BY <1>1
<1>5. ASSUME NEW k \in 1 .. n PROVE ws[k] = Content(P, d[k - 1])
  <2>1. k - 1 \in 0 .. n /\ k - 1 < n /\ a + (k - 1) = a + k - 1
    BY <1>1
  <2>2. d[k - 1] = Word(p, a + (k - 1))
    BY <1>2, <2>1
  <2> HIDE DEF d
  <2> QED
    BY <2>1, <2>2
<1> HIDE DEF d
<1>6. Carries(P, Write(f, ws), t, d[n])
  BY <1>3, <1>4, <1>5, WriteCarries
<1> QED
  BY <1>4, <1>6

-----------------------------------------------------------------------------
(* What the fifo's memory still has behind the sender *)

\* At a packet's tag nothing has been sent of it.
LEMMA BehindTag == ASSUME NEW f, NEW p PROVE Behind(f, p, -3)
<1>1. Least(-3 + 3, W) = 0
  BY SizeOfFifo DEF Least
<1> QED
  BY <1>1 DEF Behind

\* What is written is behind the sender from then on.
LEMMA BehindWrite ==
    ASSUME NEW f, FifoFits(f), NEW p, NEW a \in Int, a >= -3, Behind(f, p, a),
           NEW n \in 0 .. Free(f), NEW ws, Len(ws) = n,
           \A k \in 1 .. n : ws[k] = Word(p, a + k - 1)
    PROVE  Behind(Write(f, ws), p, a + n)
<1> DEFINE wp == f.writePos
           g == Write(f, ws)
<1>1. W \in Nat /\ W > 0 /\ wp \in 0 .. W - 1 /\ n \in 0 .. W /\ n \in Nat
  BY SizeOfFifo, WritePosIs DEF FifoFits, Free
<1>2. g.writePos = (wp + n) % W
  BY WriteFits
<1>3. \A j \in 0 .. W - 1 : g.data[(wp + j) % W] = IF j < n THEN ws[j + 1] ELSE f.data[(wp + j) % W]
  BY WriteIs
<1>4. \A d \in 1 .. Least(a + 3, W) : f.data[(wp - d) % W] = Word(p, a - d)
  BY DEF Behind
<1> HIDE DEF wp, g
<1> SUFFICES ASSUME NEW d \in 1 .. Least(a + n + 3, W)
             PROVE  g.data[(g.writePos - d) % W] = Word(p, a + n - d)
  BY DEF Behind, g
<1>5. d \in Int /\ 1 <= d /\ d <= W /\ d <= a + n + 3
  BY <1>1 DEF Least
<1> DEFINE v == -d
           t == n + v
<1>6. /\ v \in Int /\ -W <= v /\ v <= W /\ t \in Int /\ -W <= t /\ t <= W /\ t = n + v
      /\ ((wp + n) % W) - d = ((wp + n) % W) + v /\ t = n - d
  <2>1. (wp + n) % W \in Int
    BY <1>1
  <2> QED
    BY <1>1, <1>5, <2>1
<1>7. (g.writePos - d) % W = (wp + t) % W
  <2> HIDE DEF v, t
  <2>1. (((wp + n) % W) + v) % W = (wp + t) % W
    BY <1>1, <1>6, ModAdds
  <2> QED
    BY <1>2, <1>6, <2>1
<1>8. CASE d <= n
  <2>1. t \in 0 .. W - 1 /\ t < n /\ t + 1 \in 1 .. n /\ a + (t + 1) - 1 = a + n - d
    BY <1>1, <1>5, <1>6, <1>8
  <2> HIDE DEF t
  <2>2. g.data[(wp + t) % W] = ws[t + 1]
    BY <1>3, <2>1
  <2> QED
    BY <1>7, <2>1, <2>2
<1>9. CASE d > n
  <2> DEFINE e == d - n
             j == t + W
  <2>1. /\ e \in 1 .. Least(a + 3, W) /\ wp - e = wp + t /\ a - e = a + n - d
        /\ j \in 0 .. W - 1 /\ ~(j < n) /\ t <= 0 /\ j = t + W
    BY <1>1, <1>5, <1>6, <1>9 DEF Least
  <2> HIDE DEF e, j, t, v
  <2>2. (wp + (t + W)) % W = (wp + t) % W
    BY <1>1, <1>6, <2>1, ModRound
  <2>3. g.data[(wp + j) % W] = f.data[(wp + j) % W]
    BY <1>3, <2>1
  <2>4. f.data[(wp - e) % W] = Word(p, a - e)
    BY <1>4, <2>1
  <2> QED
    BY <1>7, <2>1, <2>2, <2>3, <2>4
<1> QED
  BY <1>1, <1>5, <1>8, <1>9

\* Filling up adds the n words of packet p's row from place a on.
FillsUp(P, f, p, a, n, ws) ==
    /\ WriteJunk(f, n) = Write(f, ws) /\ Len(ws) = n
    /\ \A k \in 1 .. n : ws[k] = Content(P, Word(p, a + k - 1))

\* The junk is the words a quadword before the ones that are missing, on whatever
\* side of the ring's end.
LEMMA JunkIs ==
    ASSUME NEW P \in Programs, NEW f, FifoFits(f), NEW p \in Pkt,
           NEW a \in Int, a = P[p].words + 1, Behind(f, p, a),
           NEW n \in 1 .. 3, n = Full(P, p) - P[p].words,
           NEW wp \in Int, wp = f.writePos, (wp + n) % 4 = 0
    PROVE  \E ws : FillsUp(P, f, p, a, n, ws)
<1> DEFINE m == P[p].words
<1>1. /\ W \in Nat /\ W >= 8 /\ W % 4 = 0 /\ wp \in 0 .. W - 1
      /\ m \in Nat /\ m > 0 /\ Full(P, p) \in Nat /\ Full(P, p) % 4 = 0
  BY SizeOfFifo, WritePosIs, FullIs
<1>0. n \in 1 .. 3 /\ wp \in Int /\ m \in Int
  BY <1>1
<1>2. \A d \in 1 .. Least(m + 4, W) : f.data[(wp - d) % W] = Word(p, m + 1 - d)
  <2>1. a + 3 = m + 4 /\ a = m + 1
    BY <1>1
  <2>2. Behind(f, p, a)
    OBVIOUS
  <2> HIDE DEF m
  <2>3. \A d \in 1 .. Least(a + 3, W) : f.data[(wp - d) % W] = Word(p, a - d)
    BY <2>2 DEF Behind
  <2>4. \A d \in Int : a - d = m + 1 - d
    BY <1>1, <2>1
  <2>5. \A d \in 1 .. Least(m + 4, W) : d \in Int
    OBVIOUS
  <2> QED
    BY <2>1, <2>3, <2>4, <2>5
<1> DEFINE prev == wp - (4 + (4 - n))
           junk == [i \in 1 .. 4 |-> f.data[(prev + i - 1) % W]]
           wP0 == Least(W - wp, n)
           ws == SubSeq(junk, 4 - wP0 + 1, 4) \o SubSeq(junk, wP0 + 1, n)
<1>3. WriteJunk(f, n) = Write(f, ws)
  BY DEF WriteJunk
<1>4. wP0 = n
  <2>1. W - wp >= n
    BY <1>1
  <2> QED
    BY <1>1, <2>1 DEF Least
<1>5. ASSUME NEW k \in 1 .. n PROVE junk[(4 - n) + k] = Word(p, m + k - 4)
  <2> DEFINE d == 5 - k
  <2>0. k \in 1 .. n
    OBVIOUS
  <2>1. /\ (4 - n) + k \in 1 .. 4 /\ m + 1 - d = m + k - 4
        /\ (wp - (4 + (4 - n))) + ((4 - n) + k) - 1 = wp - d
    <3> HIDE DEF m
    <3> QED
      BY ONLY <1>0, <2>0
  <2>2. d \in 1 .. Least(m + 4, W)
    <3>1. W \in Nat /\ W >= 8 /\ m \in Nat /\ m > 0
      BY <1>1
    <3> HIDE DEF m
    <3> QED
      BY ONLY <1>0, <2>0, <3>1 DEF Least
  <2>3. f.data[(wp - d) % W] = Word(p, m + 1 - d)
    BY <1>2, <2>2
  <2> HIDE DEF d
  <2> QED
    BY <2>1, <2>3
<1>6. junk \in Seq({junk[i] : i \in 1 .. 4}) /\ Len(junk) = 4
  OBVIOUS
<1> HIDE DEF junk
<1> DEFINE S == {junk[i] : i \in 1 .. 4}
           u == 4 - n + 1
           last == SubSeq(junk, u, 4)
<1>7. last \in Seq(S) /\ Len(last) = n /\ \A k \in 1 .. n : last[k] = junk[(4 - n) + k]
  <2>1. /\ u \in Int /\ u <= 4 /\ 4 - u + 1 = n /\ \A i \in u .. 4 : i \in 1 .. 4
        /\ \A k \in 1 .. n : u + k - 1 = (4 - n) + k
    BY ONLY <1>0
  <2>2. \A i \in u .. 4 : junk[i] \in S
    BY <2>1
  <2> HIDE DEF u, S
  <2>3. /\ last \in Seq(S) /\ Len(last) = 4 - u + 1
        /\ \A i \in 1 .. 4 - u + 1 : last[i] = junk[u + i - 1]
    BY <2>1, <2>2, SubSeqProperties
  <2> HIDE DEF last
  <2> QED
    BY <2>1, <2>3
<1>8. SubSeq(junk, n + 1, n) = <<>>
  BY SubSeqEmpty
<1>9. ws = last
  <2>1. ws = last \o <<>>
    BY <1>4, <1>8
  <2> HIDE DEF last, ws
  <2> QED
    BY <1>7, <2>1, ConcatEmptySeq
<1> HIDE DEF last, S
<1>10. ASSUME NEW k \in 1 .. n PROVE Content(P, Word(p, a + k - 1)) = Word(p, m + k - 4)
  <2> DEFINE b == a + k - 1
  <2>1. ~(b <= m) /\ b - 4 = m + k - 4
    <3>1. a = m + 1
      OBVIOUS
    <3> HIDE DEF m
    <3> QED
      BY <1>1, <3>1
  <2>2. Word(p, b).at = b /\ Word(p, b).pkt = p
    BY DEF Word
  <2> HIDE DEF b
  <2>3. Content(P, Word(p, b)) = Word(p, b - 4)
    BY <2>1, <2>2 DEF Content
  <2> QED
    BY <2>1, <2>3 DEF b
<1> QED
  <2> HIDE DEF ws, wP0, prev
  <2> QED
    BY <1>3, <1>5, <1>7, <1>9, <1>10 DEF FillsUp

-----------------------------------------------------------------------------
(* What has arrived *)

\* A sequence of places is put together from two.
LEMMA HasMore ==
    ASSUME NEW P \in Programs, NEW p \in Pkt, NEW due \in Nat, NEW g, Has(P, g, p, due),
           NEW n \in 0 .. due, NEW o \in Seq(Place), Len(o) = n,
           \A k \in 1 .. n : o[k] = Content(P, Word(p, (Full(P, p) - due + 1) + k - 1))
    PROVE  Has(P, g \o o, p, due - n)
<1>1. p # NoPkt /\ n \in Nat
  BY DEF NoPkt, Pkt
<1> DEFINE l == Full(P, p) - due
<1>2. /\ g \in Seq(Place) /\ due \in 0 .. Full(P, p) /\ Len(g) = l /\ l \in Nat
      /\ Full(P, p) \in Nat /\ Full(P, p) - (due - n) = l + n /\ due - n \in 0 .. Full(P, p)
  BY <1>1, FullIs DEF Has
<1>3. \A k \in 1 .. l : g[k] = Content(P, Word(p, k))
  BY <1>1 DEF Has
<1>4. /\ g \o o \in Seq(Place) /\ Len(g \o o) = l + n
      /\ \A k \in 1 .. l + n : (g \o o)[k] = IF k <= l THEN g[k] ELSE o[k - l]
  <2> HIDE DEF l
  <2> QED
    BY <1>2, ConcatProperties
<1> DEFINE h == g \o o
<1> HIDE DEF h
<1>5. ASSUME NEW k \in 1 .. l + n PROVE h[k] = Content(P, Word(p, k))
  <2>1. CASE k <= l
    BY <1>2, <1>3, <1>4, <2>1 DEF h
  <2>2. CASE k > l
    <3> DEFINE j == k - l
    <3>1. Full(P, p) \in Nat /\ due \in Nat /\ n \in Nat
      BY <1>1, FullIs
    <3>2. j \in 1 .. n /\ (Full(P, p) - due + 1) + j - 1 = k /\ ~(k <= l)
      BY <2>2, <3>1
    <3>3. h[k] = o[j]
      BY <1>4, <3>2 DEF h
    <3>4. o[j] = Content(P, Word(p, (Full(P, p) - due + 1) + j - 1))
      BY <3>2
    <3> HIDE DEF j, l
    <3> QED
      BY <3>2, <3>3, <3>4
  <2> QED
    BY <1>1, <1>2, <2>1, <2>2
<1>6. Has(P, h, p, due - n)
  <2> DEFINE e == due - n
             m == l + n
  <2>1. e \in 0 .. Full(P, p) /\ Full(P, p) - e = m /\ Full(P, p) \in Nat /\ m \in Nat
    BY <1>2
  <2>2. h \in Seq(Place) /\ Len(h) = m
    BY <1>4 DEF h
  <2>3. \A k \in 1 .. m : h[k] = Content(P, Word(p, k))
    BY <1>5
  <2> HIDE DEF e, m
  <2>4. Has(P, h, p, e)
    BY <1>1, <2>1, <2>2, <2>3 DEF Has
  <2> QED
    BY <2>4 DEF e
<1> QED
  BY <1>6 DEF h

\* Of a packet whose tag has just been read there is nothing yet.
LEMMA HasNothing ==
    ASSUME NEW P \in Programs, NEW p \in Pkt PROVE Has(P, <<>>, p, Full(P, p))
<1>1. Full(P, p) \in Nat /\ Full(P, p) - Full(P, p) = 0 /\ p # NoPkt
  BY FullIs DEF NoPkt, Pkt
<1>2. <<>> \in Seq(Place) /\ Len(<<>>) = 0
  OBVIOUS
<1> QED
  BY <1>1, <1>2 DEF Has

\* Slices are the sequences they look like.
LEMMA SliceIs ==
    ASSUME NEW p \in Pkt, NEW from \in Int, NEW to \in Int, from <= to + 1
    PROVE  /\ Slice(p, from, to) \in Seq(Place) /\ Len(Slice(p, from, to)) = to - from + 1
           /\ \A k \in 1 .. to - from + 1 : Slice(p, from, to)[k] = Word(p, from + k - 1)
<1> DEFINE n == to - from + 1
<1>1. n \in Nat
  OBVIOUS
<1>2. Slice(p, from, to) = [k \in 1 .. n |-> Word(p, from + k - 1)]
  BY DEF Slice
<1>3. \A k \in 1 .. n : Word(p, from + k - 1) \in Place
  BY DEF Word, Place
<1> HIDE DEF n
<1>4. Slice(p, from, to) \in Seq(Place) /\ Len(Slice(p, from, to)) = n
      /\ \A k \in 1 .. n : Slice(p, from, to)[k] = Word(p, from + k - 1)
  BY <1>1, <1>2, <1>3
<1> QED
  BY <1>4 DEF n

\* What is expected is the words of the packet's places.
LEMMA ExpectedIs ==
    ASSUME NEW P \in Programs, P = packet, NEW p \in Pkt
    PROVE  /\ Expected(p) \in Seq(Place) /\ Len(Expected(p)) = Full(P, p)
           /\ \A k \in 1 .. Full(P, p) : Expected(p)[k] = Content(P, Word(p, k))
<1> DEFINE n == P[p].words
           s == Slice(p, 1, n)
           j == IF n % 4 = 0 THEN <<>> ELSE Slice(p, n - 3, n - (n % 4))
           m == Full(P, p) - n
<1>1. n \in Nat /\ n > 0 /\ Full(P, p) \in Nat /\ m \in 0 .. 3 /\ (n % 4 = 0 => m = 0)
  BY FullIs
<1>2. n % 4 # 0 => (n - (n % 4)) - (n - 3) + 1 = m
  <2>1. JunkNeeded(n) = m
    BY FullIs
  <2> HIDE DEF n, m
  <2>2. n % 4 # 0 => 4 - (n % 4) = (4 - n) % 4
    BY <1>1
  <2>3. n % 4 # 0 => (n - (n % 4)) - (n - 3) + 1 = 4 - (n % 4)
    BY <1>1
  <2> QED
    BY <2>1, <2>2, <2>3 DEF JunkNeeded
<1>3. s \in Seq(Place) /\ Len(s) = n /\ \A k \in 1 .. n : s[k] = Word(p, k)
  <2> HIDE DEF n
  <2>1. /\ s \in Seq(Place) /\ Len(s) = n - 1 + 1
        /\ \A k \in 1 .. n - 1 + 1 : s[k] = Word(p, 1 + k - 1)
    BY <1>1, SliceIs
  <2>2. n - 1 + 1 = n /\ \A k \in 1 .. n : 1 + k - 1 = k
    BY <1>1
  <2> HIDE DEF s
  <2> QED
    BY <2>1, <2>2
<1>4. j \in Seq(Place) /\ Len(j) = m /\ \A k \in 1 .. m : j[k] = Word(p, n + k - 4)
  <2>1. CASE n % 4 = 0
    <3>1. j = <<>> /\ m = 0
      BY <1>1, <2>1
    <3> HIDE DEF j, m
    <3> QED
      BY <3>1
  <2>2. CASE n % 4 # 0
    <3> DEFINE from == n - 3
               to == n - (n % 4)
    <3>1. from \in Int /\ to \in Int /\ from <= to + 1
      BY <1>1
    <3>2. to - from + 1 = m /\ \A k \in 1 .. m : from + k - 1 = n + k - 4
      <4>1. \A k \in 1 .. m : k \in Int
        OBVIOUS
      <4> HIDE DEF m, n
      <4>2. \A k \in Int : from + k - 1 = n + k - 4
        BY <1>1
      <4> QED
        BY <1>2, <2>2, <4>1, <4>2
    <3>3. j = Slice(p, from, to)
      BY <2>2
    <3> HIDE DEF from, to, j, n, m
    <3>4. /\ j \in Seq(Place) /\ Len(j) = to - from + 1
          /\ \A k \in 1 .. to - from + 1 : j[k] = Word(p, from + k - 1)
      BY <3>1, <3>3, SliceIs
    <3> QED
      BY <3>2, <3>4
  <2> QED
    BY <2>1, <2>2
<1>5. Expected(p) = s \o j
  BY DEF Expected
<1>6. ASSUME NEW k \in Int
      PROVE  Content(P, Word(p, k)) = IF k <= n THEN Word(p, k) ELSE Word(p, k - 4)
  BY DEF Content, Word
<1>7. n + m = Full(P, p)
  BY <1>1
<1> HIDE DEF s, j, n, m
<1>8. /\ s \o j \in Seq(Place) /\ Len(s \o j) = n + m
      /\ \A k \in 1 .. n + m : (s \o j)[k] = IF k <= n THEN s[k] ELSE j[k - n]
  BY <1>3, <1>4, ConcatProperties
<1> DEFINE e == s \o j
<1>9. ASSUME NEW k \in 1 .. n + m PROVE e[k] = Content(P, Word(p, k))
  <2>1. e[k] = IF k <= n THEN s[k] ELSE j[k - n]
    BY <1>8
  <2>2. k \in Int
    OBVIOUS
  <2> HIDE DEF e
  <2>3. CASE k <= n
    BY <1>1, <1>3, <1>6, <2>1, <2>2, <2>3
  <2>4. CASE ~(k <= n)
    <3>1. k - n \in 1 .. m /\ n + (k - n) - 4 = k - 4
      BY <1>1, <2>4
    <3>2. j[k - n] = Word(p, n + (k - n) - 4)
      BY <1>4, <3>1
    <3> QED
      BY <1>6, <2>1, <2>2, <2>4, <3>1, <3>2
  <2> QED
    BY <2>3, <2>4
<1> QED
  BY <1>5, <1>7, <1>8, <1>9

\* So a packet that is all there but the last due words is what it should be.
LEMMA HasIsExpected ==
    ASSUME NEW P \in Programs, P = packet, NEW p \in Pkt, NEW g, NEW due, Has(P, g, p, due)
    PROVE  /\ g = SubSeq(Expected(p), 1, Len(Expected(p)) - due)
           /\ due = 0 => g = Expected(p)
<1> DEFINE e == Expected(p)
           n == Full(P, p)
<1>1. e \in Seq(Place) /\ Len(e) = n /\ \A k \in 1 .. n : e[k] = Content(P, Word(p, k))
  BY ExpectedIs
<1>2. p # NoPkt
  BY DEF NoPkt, Pkt
<1>3. /\ g \in Seq(Place) /\ due \in 0 .. n /\ Len(g) = n - due /\ n \in Nat
      /\ \A k \in 1 .. n - due : g[k] = Content(P, Word(p, k))
  BY <1>2, FullIs DEF Has
<1> HIDE DEF e, n
<1> DEFINE m == n - due
           t == SubSeq(e, 1, m)
<1>4. m \in 0 .. n /\ m \in Nat /\ m - 1 + 1 = m
  BY <1>3
<1>5. \A k \in 1 .. m : k \in 1 .. n /\ e[k] \in Place
  <2>1. \A k \in 1 .. n : e[k] \in Place
    BY <1>1, <1>3
  <2>2. \A k \in 1 .. m : k \in 1 .. n
    BY <1>3, <1>4
  <2> QED
    BY <2>1, <2>2
<1> HIDE DEF m
<1>6. t \in Seq(Place) /\ Len(t) = m /\ \A k \in 1 .. m : t[k] = e[k]
  <2>1. /\ t \in Seq(Place) /\ Len(t) = IF 1 <= m THEN m - 1 + 1 ELSE 0
        /\ \A k \in 1 .. m - 1 + 1 : t[k] = e[1 + k - 1]
    BY <1>4, <1>5, SubSeqProperties
  <2>2. \A k \in 1 .. m : 1 + k - 1 = k
    OBVIOUS
  <2> HIDE DEF t
  <2> QED
    BY <1>4, <2>1, <2>2
<1>7. g = t
  <2> HIDE DEF t
  <2>1. \A k \in 1 .. m : g[k] = t[k]
    BY <1>1, <1>3, <1>5, <1>6 DEF m
  <2>2. Len(g) = m
    BY <1>3 DEF m
  <2> QED
    BY <1>3, <1>6, <2>1, <2>2, SeqEqual
<1>8. due = 0 => g = e
  <2> SUFFICES ASSUME due = 0 PROVE g = e
    OBVIOUS
  <2>1. m = n
    BY <1>3 DEF m
  <2>2. \A k \in 1 .. n : g[k] = e[k]
    BY <1>6, <1>7, <2>1
  <2>3. Len(g) = n
    BY <1>3, <2>1 DEF m
  <2> QED
    BY <1>1, <1>3, <2>2, <2>3, SeqEqual
<1> QED
  BY <1>1, <1>7, <1>8 DEF e, m

-----------------------------------------------------------------------------
(* What a turn does to the row *)

\* The next thing behind a whole packet is the next one's tag.
LEMMA TagTaken ==
    ASSUME NEW P \in Programs, NEW f, NEW p \in Pkt \cup {NoPkt}, NEW g, NEW s,
           Receiving(P, f, p, 0, g, s), f.size >= 4, NEW w, w = f.data[f.readPos]
    PROVE  w.at = -3 /\ w.pkt \in Pkt /\ Receiving(P, Read(f, 4), w.pkt, Full(P, w.pkt), <<>>, s)
<1> DEFINE q == IF p = NoPkt THEN 0 ELSE (p + 1) % Packets
<1>1. q \in Pkt
  BY NextTag, PacketsAssumption DEF Pkt
<1>2. NextFor(P, p, 0) = PlaceOf(P, q, -3)
  <2>1. CASE p = NoPkt
    BY <1>1, <2>1, NextTag DEF NextFor
  <2>2. CASE p # NoPkt
    <3>1. Full(P, p) - 0 + 1 = Full(P, p) + 1
      BY <2>2, FullIs
    <3>2. PlaceOf(P, p, Full(P, p) + 1) = Word((p + 1) % Packets, -3)
      BY <2>2, NextTag
    <3>3. PlaceOf(P, q, -3) = Word(q, -3)
      BY <1>1, NextTag
    <3> QED
      BY <2>2, <3>1, <3>2, <3>3 DEF NextFor
  <2> QED
    BY <2>1, <2>2
<1> HIDE DEF q
<1>3. /\ FifoFits(f) /\ 4 \in 0 .. f.size /\ f.readPos \in 0 .. W - 1
      /\ Carries(P, f, PlaceOf(P, q, -3), s) /\ Full(P, q) \in Nat /\ Full(P, q) >= 4
      /\ P[q].words \in Nat
  BY <1>1, <1>2, FullIs DEF Receiving, FifoFits
<1>4. -3 + 4 <= Full(P, q) + 1 /\ -3 \in Int /\ -3 + 4 = 1
  BY <1>3
<1>5. /\ Carries(P, Read(f, 4), PlaceOf(P, q, 1), s)
      /\ \A k \in 1 .. 4 : Oldest(f, 4)[k] = Content(P, Word(q, -3 + k - 1))
  BY <1>1, <1>3, <1>4, ReadCarries
<1>6. w = Word(q, -3)
  <2>1. Oldest(f, 4)[1] = f.data[(f.readPos + 1 - 1) % W]
    BY DEF Oldest
  <2>2. (f.readPos + 1 - 1) % W = f.readPos
    <3>1. f.readPos + 1 - 1 = f.readPos /\ -W <= f.readPos /\ f.readPos < 2 * W
          /\ f.readPos < W /\ ~(f.readPos < 0) /\ f.readPos \in Int
      BY <1>3, SizeOfFifo
    <3>2. f.readPos % W = f.readPos
      BY <3>1, ModIs
    <3> QED
      BY <3>1, <3>2
  <2>3. -3 + 1 - 1 = -3 /\ -3 <= P[q].words /\ 1 \in 1 .. 4
    BY <1>3
  <2>4. Content(P, Word(q, -3)) = Word(q, -3)
    BY <2>3 DEF Content, Word
  <2>5. Oldest(f, 4)[1] = Content(P, Word(q, -3 + 1 - 1))
    BY <1>5, <2>3
  <2> QED
    BY <2>1, <2>2, <2>3, <2>4, <2>5
<1>7. w.at = -3 /\ w.pkt = q
  BY <1>6 DEF Word
<1>8. NextFor(P, q, Full(P, q)) = PlaceOf(P, q, 1)
  <2>1. q # NoPkt /\ Full(P, q) - Full(P, q) + 1 = 1
    BY <1>1, <1>3 DEF NoPkt, Pkt
  <2> QED
    BY <2>1 DEF NextFor
<1>9. FifoFits(Read(f, 4)) /\ Has(P, <<>>, q, Full(P, q))
  BY <1>1, <1>3, ReadFits, HasNothing
<1> QED
  BY <1>1, <1>5, <1>7, <1>8, <1>9 DEF Receiving

\* Of a packet's data as much is taken as is due and there.
LEMMA DataTaken ==
    ASSUME NEW P \in Programs, NEW f, NEW p \in Pkt, NEW due \in Nat, NEW g, NEW s,
           Receiving(P, f, p, due, g, s), NEW n \in 0 .. due, n <= f.size
    PROVE  Receiving(P, Read(f, n), p, due - n, g \o Oldest(f, n), s)
<1> DEFINE a == Full(P, p) - due + 1
<1>1. /\ p # NoPkt /\ FifoFits(f) /\ n \in 0 .. f.size /\ Full(P, p) \in Nat
      /\ Carries(P, f, PlaceOf(P, p, a), s) /\ Has(P, g, p, due)
  BY FullIs DEF Receiving, NextFor, FifoFits, NoPkt, Pkt
<1>2. a \in Int /\ a + n <= Full(P, p) + 1 /\ a + n = Full(P, p) - (due - n) + 1
  BY <1>1
<1>3. \A k \in 1 .. n : a + k - 1 = (Full(P, p) - due + 1) + k - 1
  OBVIOUS
<1>4. /\ Carries(P, Read(f, n), PlaceOf(P, p, a + n), s)
      /\ \A k \in 1 .. n : Oldest(f, n)[k] = Content(P, Word(p, a + k - 1))
      /\ Oldest(f, n) \in Seq(Place) /\ Len(Oldest(f, n)) = n
  <2> HIDE DEF a
  <2> QED
    BY <1>1, <1>2, ReadCarries
<1>5. FifoFits(Read(f, n))
  BY <1>1, ReadFits
<1>6. Has(P, g \o Oldest(f, n), p, due - n)
  <2> DEFINE o == Oldest(f, n)
  <2>1. o \in Seq(Place) /\ Len(o) = n
        /\ \A k \in 1 .. n : o[k] = Content(P, Word(p, (Full(P, p) - due + 1) + k - 1))
    BY <1>4
  <2> HIDE DEF o, a
  <2>2. Has(P, g \o o, p, due - n)
    BY <1>1, <2>1, HasMore
  <2> QED
    BY <2>2 DEF o
<1>7. Carries(P, Read(f, n), NextFor(P, p, due - n), s)
  BY <1>1, <1>2, <1>4 DEF NextFor
<1> QED
  BY <1>5, <1>6, <1>7 DEF Receiving

\* A recursive definition is one along the numbers: the path in memory exists.
LEMMA PathExists ==
    ASSUME NEW n \in Nat
    PROVE  \E f : f = [i \in 0 .. n |-> IF i = 0 THEN src ELSE After(f[i - 1])]
<1> DEFINE Upto(m, f) == f = [i \in 0 .. m |-> IF i = 0 THEN src ELSE After(f[i - 1])]
           S == {m \in Nat : \E f : Upto(m, f)}
<1>1. 0 \in S
  <2>1. Upto(0, [i \in 0 .. 0 |-> src])
    OBVIOUS
  <2> QED
    BY <2>1
<1>2. ASSUME NEW m \in S PROVE m + 1 \in S
  <2>1. m \in Nat
    BY <1>2
  <2>2. PICK f : Upto(m, f)
    BY <1>2
  <2> DEFINE g == [i \in 0 .. m + 1 |-> IF i = 0 THEN src ELSE After(f[i - 1])]
  <2>3. \A i \in 0 .. m : g[i] = f[i]
    <3>1. \A i \in 0 .. m : i \in 0 .. m + 1
      BY <2>1
    <3>2. \A i \in 0 .. m : f[i] = IF i = 0 THEN src ELSE After(f[i - 1])
      BY <2>2
    <3>3. \A i \in 0 .. m : g[i] = IF i = 0 THEN src ELSE After(f[i - 1])
      BY <3>1
    <3> QED
      BY <3>2, <3>3
  <2>4. \A i \in 0 .. m + 1 : i # 0 => i - 1 \in 0 .. m
    BY <2>1
  <2>5. g = [i \in 0 .. m + 1 |-> IF i = 0 THEN src ELSE After(g[i - 1])]
    <3>1. \A i \in 0 .. m + 1 : (IF i = 0 THEN src ELSE After(f[i - 1]))
                                = (IF i = 0 THEN src ELSE After(g[i - 1]))
      BY <2>3, <2>4
    <3> QED
      BY <3>1
  <2>6. \E h : Upto(m + 1, h)
    BY <2>5
  <2>7. m + 1 \in Nat
    BY <2>1
  <2> HIDE DEF g, Upto
  <2> QED
    BY <2>6, <2>7
<1> HIDE DEF S
<1>3. S = Nat
  <2>1. S \in SUBSET Nat
    BY DEF S
  <2> QED
    BY <1>1, <1>2, <2>1, SetInduction
<1> QED
  BY <1>3 DEF S

\* What the EE sends on SIF1 is the row from where it stands.
LEMMA FromMemoryIs ==
    ASSUME packet \in Programs, \A p \in Pkt : packet[p].words % 4 = 0,
           src \in Place, src.at <= packet[src.pkt].words, NEW n \in Nat
    PROVE  /\ Path(n) \in [0 .. n -> Place] /\ Path(n)[0] = src /\ Row(packet, Path(n), n)
           /\ Len(FromMemory(n)) = n
           /\ \A k \in 1 .. n : FromMemory(n)[k] = Content(packet, Path(n)[k - 1])
           /\ Path(n)[n].at <= packet[Path(n)[n].pkt].words
<1> DEFINE f == Path(n)
           On(w) == w \in Place /\ w.at <= packet[w.pkt].words
<1>1. f = CHOOSE g : g = [i \in 0 .. n |-> IF i = 0 THEN src ELSE After(g[i - 1])]
  BY DEF Path
<1>2. f = [i \in 0 .. n |-> IF i = 0 THEN src ELSE After(f[i - 1])]
  BY <1>1, PathExists
<1> HIDE DEF f
<1>3. f[0] = src /\ \A i \in 1 .. n : f[i] = After(f[i - 1])
  BY <1>2
<1>4. ASSUME NEW w, On(w) PROVE On(After(w)) /\ After(w) = Succ(packet, w)
  <2>1. /\ w.pkt \in Pkt /\ w.at \in Int /\ Full(packet, w.pkt) = packet[w.pkt].words
        /\ packet[w.pkt].words \in Nat
    BY <1>4, FullIs DEF Place
  <2>2. (w.pkt + 1) % Packets \in Pkt
    BY <2>1, NextTag
  <2>3. packet[(w.pkt + 1) % Packets].words \in Nat
    BY <2>2, FullIs
  <2>4. (w.at + 1 = Full(packet, w.pkt) + 1) = (w.at = packet[w.pkt].words)
    BY <2>1
  <2>5. After(w) = Succ(packet, w)
    BY <2>4 DEF After, Succ, PlaceOf
  <2>6. CASE w.at = packet[w.pkt].words
    BY <2>2, <2>3, <2>5, <2>6 DEF After, Word, Place
  <2>7. CASE w.at # packet[w.pkt].words
    <3>1. w.at + 1 <= packet[w.pkt].words
      BY <1>4, <2>1, <2>7
    <3> QED
      BY <2>1, <2>5, <2>7, <3>1 DEF After, Word, Place
  <2> QED
    BY <2>6, <2>7
<1> DEFINE S == {i \in 0 .. n : On(f[i])}
<1>5. \A i \in 0 .. n : i \in S
  <2>1. 0 \in S
    BY <1>3
  <2>2. ASSUME NEW i \in 0 .. n - 1, i \in S PROVE i + 1 \in S
    <3>1. i + 1 \in 1 .. n /\ i + 1 \in 0 .. n /\ (i + 1) - 1 = i
      OBVIOUS
    <3>2. f[i + 1] = After(f[i])
      BY <1>3, <3>1
    <3>3. On(f[i])
      BY <2>2
    <3> HIDE DEF On
    <3>4. On(f[i + 1])
      BY <1>4, <3>2, <3>3
    <3> QED
      BY <3>1, <3>4
  <2> HIDE DEF S
  <2> QED
    BY <2>1, <2>2, UptoInduction
<1>6. \A i \in 0 .. n : On(f[i])
  BY <1>5
<1>7. Row(packet, f, n)
  <2> SUFFICES ASSUME NEW i \in 0 .. n - 1 PROVE f[i + 1] = Succ(packet, f[i])
    BY DEF Row
  <2>1. i + 1 \in 1 .. n /\ i \in 0 .. n /\ (i + 1) - 1 = i
    OBVIOUS
  <2>2. f[i + 1] = After(f[i])
    BY <1>3, <2>1
  <2>3. On(f[i])
    BY <1>6, <2>1
  <2> HIDE DEF On
  <2> QED
    BY <1>4, <2>2, <2>3
<1>8. FromMemory(n) = [k \in 1 .. n |-> f[k - 1]]
  BY DEF FromMemory, f
<1>9. Len(FromMemory(n)) = n /\ \A k \in 1 .. n : FromMemory(n)[k] = f[k - 1]
  BY <1>8
<1>10. \A i \in 0 .. n : Content(packet, f[i]) = f[i]
  BY <1>6 DEF Content
<1>11. f \in [0 .. n -> Place]
  BY <1>2, <1>6
<1>12. \A k \in 1 .. n : k - 1 \in 0 .. n
  OBVIOUS
<1>13. f[n].at <= packet[f[n].pkt].words
  BY <1>6
<1> QED
  BY <1>3, <1>7, <1>9, <1>10, <1>11, <1>12, <1>13 DEF f

-----------------------------------------------------------------------------
(* The steps *)

\* A start sets the channel busy, and finds out whether its tag was the last.
LEMMA DmaSifIs ==
    ASSUME NEW e, NEW s, NEW b, NEW n, NEW q, NEW t, NEW p, NEW i, NEW u,
           e = EeIs(s, b, n, q, t, p, i, u)
    PROVE  /\ DmaSif(e) = EeIs(s, TRUE, EndsAgain(e), q, t, p, i, u)
           /\ EndsAgain(e) = (~Sif0 /\ q > 0 /\ (t = "end" \/ (t = "irq" /\ Vif1Tie)))
<1>1. e.qwc = q /\ e.tag = t
  BY DEF EeIs
<1>2. EndsAgain(e) = (~Sif0 /\ q > 0 /\ (t = "end" \/ (t = "irq" /\ Vif1Tie)))
  BY <1>1, Zenon DEF EndsAgain
<1> DEFINE r == DmaSif(e)
           m == EndsAgain(e)
<1>3. r = [e EXCEPT !.busy = TRUE, !.end = m]
  BY DEF DmaSif
<1> HIDE DEF r, m
<1>4. r = EeIs(s, TRUE, m, q, t, p, i, u)
  BY <1>3 DEF EeIs
<1> QED
  BY <1>2, <1>4 DEF r, m

\* Steps that leave the row alone.
Still ==
    /\ UNCHANGED <<channel, packet, fifo, src, got>>
    /\ IF Sif0 THEN ee'.pkt = ee.pkt /\ ee'.qwc = ee.qwc /\ iop'.junk = iop.junk ELSE TRUE
    /\ iop'.pkt = iop.pkt /\ iop'.counter = iop.counter

\* They keep what the invariant says of the row.
LEMMA FlowStill == Flow /\ Still => Flow'
<1> SUFFICES ASSUME Flow, Still PROVE Flow'
  OBVIOUS
<1>1. /\ channel' = channel /\ packet' = packet /\ fifo' = fifo /\ src' = src /\ got' = got
      /\ Sif0' = Sif0 /\ iop'.pkt = iop.pkt /\ iop'.counter = iop.counter
      /\ Sif0 => ee'.pkt = ee.pkt /\ ee'.qwc = ee.qwc /\ iop'.junk = iop.junk
  BY DEF Still, Sif0
<1>2. Sif0 => IopAt' = IopAt
  BY <1>1 DEF IopAt
<1>3. Sent' = Sent /\ Received' = Received /\ StillDue' = StillDue
  BY <1>1, <1>2 DEF Sent, Received, StillDue
<1>4. InTransit'
  BY <1>1, <1>3 DEF Flow, InTransit
<1>5. Sending'
  BY <1>1, <1>2 DEF Flow, Sending
<1>6. Aligned'
  BY <1>1 DEF Flow, Aligned
<1> QED
  BY <1>4, <1>5, <1>6 DEF Flow

\* The EE's program stops its channel.
LEMMA KeptByForceStop == IInv /\ ForceStop => IInv'
<1> SUFFICES ASSUME IInv, ForceStop PROVE IInv'
  OBVIOUS
<1>1. /\ Rest
      /\ UNCHANGED <<channel, packet, fifo, iop, src, got, dmac, pass, did>>
      /\ ee' = [ee EXCEPT !.str = FALSE, !.irq = FALSE, !.queued = FALSE]
  BY DEF ForceStop
<1>2. Types
  BY DEF IInv
<1>3. ee' = EeIs(FALSE, ee.busy, ee.end, ee.qwc, ee.tag, ee.pkt, FALSE, FALSE)
  <2>1. ee = EeIs(ee.str, ee.busy, ee.end, ee.qwc, ee.tag, ee.pkt, ee.irq, ee.queued)
    BY <1>2 DEF Types
  <2> QED
    BY <1>1, <2>1 DEF EeIs
<1>4. /\ ee'.str = FALSE /\ ee'.busy = ee.busy /\ ee'.end = ee.end /\ ee'.qwc = ee.qwc
      /\ ee'.tag = ee.tag /\ ee'.pkt = ee.pkt /\ ee'.irq = FALSE /\ ee'.queued = FALSE
  BY <1>3, Zenon DEF EeIs
<1>5. Types'
  BY <1>1, <1>2, <1>3, <1>4 DEF Types
<1>6. Flow'
  BY <1>1, <1>4, FlowStill DEF IInv, Still
<1>7. Turns'
  BY <1>1, <1>4 DEF IInv, Turns, Rest, EeCanMove, IopCanMove, Sif0, Free
<1>8. Ends => Ends'
  BY <1>1, <1>4 DEF Ends, Sif0
<1>9. SenderEnds => SenderEnds'
  BY <1>1, <1>4 DEF SenderEnds, Sif0
<1> QED
  BY <1>5, <1>6, <1>7, <1>8, <1>9 DEF IInv

\* The EE's interrupt is delivered.
LEMMA KeptByEeInterrupt == IInv /\ EeInterrupt => IInv'
<1> SUFFICES ASSUME IInv, EeInterrupt PROVE IInv'
  OBVIOUS
<1>1. /\ Rest /\ ee.irq
      /\ UNCHANGED <<channel, packet, fifo, iop, src, got, dmac, pass, did>>
      /\ ee' = [ee EXCEPT !.irq = FALSE, !.str = FALSE]
  BY DEF EeInterrupt
<1>2. Types
  BY DEF IInv
<1>3. ee' = EeIs(FALSE, ee.busy, ee.end, ee.qwc, ee.tag, ee.pkt, FALSE, ee.queued)
  <2>1. ee = EeIs(ee.str, ee.busy, ee.end, ee.qwc, ee.tag, ee.pkt, ee.irq, ee.queued)
    BY <1>2 DEF Types
  <2> QED
    BY <1>1, <2>1 DEF EeIs
<1>4. /\ ee'.str = FALSE /\ ee'.busy = ee.busy /\ ee'.end = ee.end /\ ee'.qwc = ee.qwc
      /\ ee'.tag = ee.tag /\ ee'.pkt = ee.pkt /\ ee'.irq = FALSE /\ ee'.queued = ee.queued
  BY <1>3, Zenon DEF EeIs
<1>5. Types'
  BY <1>1, <1>2, <1>3, <1>4 DEF Types
<1>6. Flow'
  BY <1>1, <1>4, FlowStill DEF IInv, Still
<1>7. Turns'
  BY <1>1, <1>4 DEF IInv, Turns, Rest, EeCanMove, IopCanMove, Sif0, Free
<1>8. Ends => Ends'
  BY <1>1, <1>4 DEF Ends, Sif0
<1>9. SenderEnds => SenderEnds'
  BY <1>1, <1>4 DEF SenderEnds, Sif0
<1> QED
  BY <1>5, <1>6, <1>7, <1>8, <1>9 DEF IInv

\* The IOP's interrupt is delivered.
LEMMA KeptByIopInterrupt == IInv /\ IopInterrupt => IInv'
<1> SUFFICES ASSUME IInv, IopInterrupt PROVE IInv'
  OBVIOUS
<1>1. /\ Rest /\ iop.irq
      /\ UNCHANGED <<channel, packet, fifo, ee, src, got, dmac, pass, did>>
      /\ iop' = [iop EXCEPT !.irq = FALSE, !.tr = FALSE]
  BY DEF IopInterrupt
<1>2. Types
  BY DEF IInv
<1>3. iop' = IopIs(FALSE, iop.busy, iop.end, iop.counter, iop.junk, iop.pkt, FALSE)
  <2>1. iop = IopIs(iop.tr, iop.busy, iop.end, iop.counter, iop.junk, iop.pkt, iop.irq)
    BY <1>2 DEF Types
  <2> QED
    BY <1>1, <2>1 DEF IopIs
<1>4. /\ iop'.tr = FALSE /\ iop'.busy = iop.busy /\ iop'.end = iop.end /\ iop'.counter = iop.counter
      /\ iop'.junk = iop.junk /\ iop'.pkt = iop.pkt /\ iop'.irq = FALSE
  BY <1>3, Zenon DEF IopIs
<1>5. Types'
  BY <1>1, <1>2, <1>3, <1>4 DEF Types
<1>6. Flow'
  BY <1>1, <1>4, FlowStill DEF IInv, Still
<1>7. Turns'
  BY <1>1, <1>4 DEF IInv, Turns, Rest, EeCanMove, IopCanMove, Sif0, Free
<1>8. Ends => Ends'
  BY <1>1, <1>4 DEF Ends, Sif0
<1>9. SenderEnds => SenderEnds'
  BY <1>1, <1>4 DEF SenderEnds, Sif0
<1> QED
  BY <1>5, <1>6, <1>7, <1>8, <1>9 DEF IInv

\* The IOP starts its channel.
LEMMA KeptByStartIop == IInv /\ StartIop => IInv'
<1> SUFFICES ASSUME IInv, StartIop PROVE IInv'
  OBVIOUS
<1>1. /\ Rest /\ ~iop.tr /\ pass' = FirstTurn
      /\ UNCHANGED <<channel, packet, fifo, ee, src, got, dmac, did>>
      /\ iop' = [iop EXCEPT !.tr = TRUE, !.busy = TRUE, !.end = FALSE]
  BY DEF StartIop
<1>2. Types
  BY DEF IInv
<1>3. iop' = IopIs(TRUE, TRUE, FALSE, iop.counter, iop.junk, iop.pkt, iop.irq)
  <2>1. iop = IopIs(iop.tr, iop.busy, iop.end, iop.counter, iop.junk, iop.pkt, iop.irq)
    BY <1>2 DEF Types
  <2> QED
    BY <1>1, <2>1 DEF IopIs
<1>4. /\ iop'.tr = TRUE /\ iop'.busy = TRUE /\ iop'.end = FALSE /\ iop'.counter = iop.counter
      /\ iop'.junk = iop.junk /\ iop'.pkt = iop.pkt /\ iop'.irq = iop.irq
  BY <1>3, Zenon DEF IopIs
<1>5. Types'
  BY <1>1, <1>2, <1>3, <1>4 DEF Types, FirstTurn
<1>6. Flow'
  BY <1>1, <1>4, FlowStill DEF IInv, Still
<1>7. Turns'
  BY <1>1, <1>4 DEF IInv, Turns, Rest, EeCanMove, IopCanMove, Sif0, Free, FirstTurn
<1>8. Ends => Ends'
  BY <1>1, <1>4 DEF Ends, Sif0
<1>9. SenderEnds => SenderEnds'
  BY <1>1, <1>4 DEF SenderEnds, Sif0
<1> QED
  BY <1>5, <1>6, <1>7, <1>8, <1>9 DEF IInv

\* The EE's end of a chain.
LEMMA KeptByEndEE == IInv /\ EndEE => IInv'
<1> SUFFICES ASSUME IInv, EndEE PROVE IInv'
  OBVIOUS
<1>1. /\ EeTurn(TRUE) /\ ee.str /\ IsLast
      /\ UNCHANGED <<channel, packet, fifo, iop, src, got, dmac>>
      /\ ee' = [ee EXCEPT !.busy = FALSE, !.end = FALSE, !.irq = TRUE]
  BY DEF EndEE
<1>2. Types
  BY DEF IInv
<1>3. ee' = EeIs(ee.str, FALSE, FALSE, ee.qwc, ee.tag, ee.pkt, TRUE, ee.queued)
  <2>1. ee = EeIs(ee.str, ee.busy, ee.end, ee.qwc, ee.tag, ee.pkt, ee.irq, ee.queued)
    BY <1>2 DEF Types
  <2> QED
    BY <1>1, <2>1 DEF EeIs
<1>4. /\ ee'.str = ee.str /\ ee'.busy = FALSE /\ ee'.end = FALSE /\ ee'.qwc = ee.qwc
      /\ ee'.tag = ee.tag /\ ee'.pkt = ee.pkt /\ ee'.irq = TRUE /\ ee'.queued = ee.queued
  BY <1>3, Zenon DEF EeIs
<1>5. Types'
  BY <1>1, <1>2, <1>3, <1>4 DEF Types, EeTurn
<1>6. Flow'
  BY <1>1, <1>4, FlowStill DEF IInv, Still
<1>7. Turns'
  BY <1>1, <1>4 DEF IInv, Turns, Rest, EeCanMove, IopCanMove, Sif0, Free, EeTurn
<1>8. Ends => Ends'
  BY <1>1, <1>4 DEF Ends, Sif0, EeTurn, EeCanMove, IsLast
<1>9. SenderEnds => SenderEnds'
  BY <1>1, <1>4 DEF SenderEnds, Sif0, EeTurn, EeCanMove, IsLast
<1> QED
  BY <1>5, <1>6, <1>7, <1>8, <1>9 DEF IInv

\* The EE's end finds its channel stopped.
LEMMA KeptByEeStopped == IInv /\ EeStopped => IInv'
<1> SUFFICES ASSUME IInv, EeStopped PROVE IInv'
  OBVIOUS
<1>1. /\ EeTurn(TRUE) /\ ~ee.str
      /\ UNCHANGED <<channel, packet, fifo, iop, src, got, dmac>>
      /\ ee' = [ee EXCEPT !.busy = FALSE, !.end = FALSE]
  BY DEF EeStopped
<1>2. Types
  BY DEF IInv
<1>3. ee' = EeIs(ee.str, FALSE, FALSE, ee.qwc, ee.tag, ee.pkt, ee.irq, ee.queued)
  <2>1. ee = EeIs(ee.str, ee.busy, ee.end, ee.qwc, ee.tag, ee.pkt, ee.irq, ee.queued)
    BY <1>2 DEF Types
  <2> QED
    BY <1>1, <2>1 DEF EeIs
<1>4. /\ ee'.str = ee.str /\ ee'.busy = FALSE /\ ee'.end = FALSE /\ ee'.qwc = ee.qwc
      /\ ee'.tag = ee.tag /\ ee'.pkt = ee.pkt /\ ee'.irq = ee.irq /\ ee'.queued = ee.queued
  BY <1>3, Zenon DEF EeIs
<1>5. Types'
  BY <1>1, <1>2, <1>3, <1>4 DEF Types, EeTurn
<1>6. Flow'
  BY <1>1, <1>4, FlowStill DEF IInv, Still
<1>7. Turns'
  BY <1>1, <1>4 DEF IInv, Turns, Rest, EeCanMove, IopCanMove, Sif0, Free, EeTurn
<1>8. Ends => Ends'
  BY <1>1, <1>4 DEF Ends, Sif0
<1>9. SenderEnds => SenderEnds'
  BY <1>1, <1>4 DEF SenderEnds, Sif0
<1> QED
  BY <1>5, <1>6, <1>7, <1>8, <1>9 DEF IInv

\* The IOP's end of a chain, as the sender.
LEMMA KeptByEndIOP0 == IInv /\ EndIOP0 => IInv'
<1> SUFFICES ASSUME IInv, EndIOP0 PROVE IInv'
  OBVIOUS
<1>1. /\ Sif0 /\ IopTurn(TRUE) /\ iop.counter = 0 /\ iop.end
      /\ UNCHANGED <<channel, packet, fifo, ee, src, got, dmac>>
      /\ iop' = [iop EXCEPT !.busy = FALSE, !.end = FALSE, !.irq = TRUE]
  BY DEF EndIOP0, EndOfIop
<1>2. Types
  BY DEF IInv
<1>3. iop' = IopIs(iop.tr, FALSE, FALSE, iop.counter, iop.junk, iop.pkt, TRUE)
  <2>1. iop = IopIs(iop.tr, iop.busy, iop.end, iop.counter, iop.junk, iop.pkt, iop.irq)
    BY <1>2 DEF Types
  <2> QED
    BY <1>1, <2>1 DEF IopIs
<1>4. /\ iop'.tr = iop.tr /\ iop'.busy = FALSE /\ iop'.end = FALSE /\ iop'.counter = iop.counter
      /\ iop'.junk = iop.junk /\ iop'.pkt = iop.pkt /\ iop'.irq = TRUE
  BY <1>3, Zenon DEF IopIs
<1>5. Types'
  BY <1>1, <1>2, <1>3, <1>4 DEF Types, IopTurn
<1>6. Flow'
  BY <1>1, <1>4, FlowStill DEF IInv, Still
<1>7. Turns'
  BY <1>1, <1>4 DEF IInv, Turns, Rest, EeCanMove, IopCanMove, Sif0, Free, IopTurn
<1>8. Ends => Ends'
  BY <1>1, <1>4 DEF Ends, Sif0
<1>9. SenderEnds => SenderEnds'
  <2>1. iop.busy /\ iop.junk = 0
    BY <1>1, <1>2 DEF IInv, Turns, Types, IopTurn, IopCanMove
  <2> QED
    BY <1>1, <1>4, <2>1 DEF SenderEnds, Sif0
<1> QED
  BY <1>5, <1>6, <1>7, <1>8, <1>9 DEF IInv

\* The EE starts its channel; with the DMAC disabled the start is queued.
LEMMA KeptByStartEe == IInv /\ StartEe => IInv'
<1> SUFFICES ASSUME IInv, StartEe PROVE IInv'
  OBVIOUS
<1> DEFINE e == [ee EXCEPT !.str = TRUE]
<1>1. /\ Rest /\ ~ee.str /\ (dmac \/ ~ee.busy \/ StaleBusy)
      /\ UNCHANGED <<channel, packet, fifo, iop, src, got, dmac, did>>
      /\ IF dmac THEN ee' = DmaSif(e) /\ pass' = FirstTurn
                 ELSE ee' = [e EXCEPT !.queued = TRUE] /\ UNCHANGED pass
  BY DEF StartEe
<1>2. Types
  BY DEF IInv
<1>3. e = EeIs(TRUE, ee.busy, ee.end, ee.qwc, ee.tag, ee.pkt, ee.irq, ee.queued)
  <2>1. ee = EeIs(ee.str, ee.busy, ee.end, ee.qwc, ee.tag, ee.pkt, ee.irq, ee.queued)
    BY <1>2 DEF Types
  <2> HIDE DEF e
  <2>2. e = [ee EXCEPT !.str = TRUE]
    BY DEF e
  <2> QED
    BY <2>1, <2>2 DEF EeIs
<1> HIDE DEF e
<1>4. CASE dmac
  <2> DEFINE m == EndsAgain(e)
  <2>1. /\ ee' = EeIs(TRUE, TRUE, m, ee.qwc, ee.tag, ee.pkt, ee.irq, ee.queued)
        /\ m = (~Sif0 /\ ee.qwc > 0 /\ (ee.tag = "end" \/ (ee.tag = "irq" /\ Vif1Tie)))
    BY <1>1, <1>3, <1>4, DmaSifIs
  <2>9. m \in BOOLEAN
    BY <2>1
  <2> HIDE DEF m
  <2>2. /\ ee'.str = TRUE /\ ee'.busy = TRUE /\ ee'.end = m /\ ee'.qwc = ee.qwc
        /\ ee'.tag = ee.tag /\ ee'.pkt = ee.pkt /\ ee'.irq = ee.irq /\ ee'.queued = ee.queued
    BY <2>1, Zenon DEF EeIs
  <2>3. Types'
    <3>1. ee' = EeIs(ee'.str, ee'.busy, ee'.end, ee'.qwc, ee'.tag, ee'.pkt, ee'.irq, ee'.queued)
      BY <2>1, <2>2
    <3>2. {ee'.str, ee'.busy, ee'.end, ee'.irq, ee'.queued} \subseteq BOOLEAN
      BY <1>2, <2>2, <2>9 DEF Types
    <3>3. pass' \in {"rest", "junk", "iop", "ee"}
      BY <1>1, <1>4 DEF FirstTurn
    <3> QED
      BY <1>1, <1>2, <2>2, <3>1, <3>2, <3>3 DEF Types
  <2>4. Flow'
    BY <1>1, <2>2, FlowStill DEF IInv, Still
  <2>5. Turns'
    BY <1>1, <1>4, <2>2 DEF IInv, Turns, Rest, EeCanMove, IopCanMove, Sif0, Free, FirstTurn
  <2>6. Ends => Ends'
    BY <1>1, <2>1, <2>2 DEF Ends, Sif0
  <2>7. SenderEnds => SenderEnds'
    BY <1>1, <2>1, <2>2 DEF SenderEnds, Sif0
  <2> QED
    BY <2>3, <2>4, <2>5, <2>6, <2>7 DEF IInv
<1>5. CASE ~dmac
  <2>1. ee' = EeIs(TRUE, ee.busy, ee.end, ee.qwc, ee.tag, ee.pkt, ee.irq, TRUE) /\ pass' = pass
    BY <1>1, <1>3, <1>5 DEF EeIs
  <2>2. /\ ee'.str = TRUE /\ ee'.busy = ee.busy /\ ee'.end = ee.end /\ ee'.qwc = ee.qwc
        /\ ee'.tag = ee.tag /\ ee'.pkt = ee.pkt /\ ee'.irq = ee.irq /\ ee'.queued = TRUE
    BY <2>1, Zenon DEF EeIs
  <2>3. Types'
    BY <1>1, <1>2, <2>1, <2>2 DEF Types
  <2>4. Flow'
    BY <1>1, <2>2, FlowStill DEF IInv, Still
  <2>5. Turns'
    BY <1>1, <2>1, <2>2 DEF IInv, Turns, Rest, EeCanMove, IopCanMove, Sif0, Free
  <2>6. StaleBusy = FALSE /\ Ends => Ends'
    BY <1>1, <1>5, <2>2 DEF Ends, Sif0
  <2>7. StaleBusy = FALSE /\ SenderEnds => SenderEnds'
    BY <1>1, <1>5, <2>2 DEF SenderEnds, Sif0
  <2> QED
    BY <2>3, <2>4, <2>5, <2>6, <2>7 DEF IInv
<1> QED
  BY <1>4, <1>5

\* The EE's program disables the DMAC.
LEMMA KeptByDisableDmac == IInv /\ DisableDmac => IInv'
<1> SUFFICES ASSUME IInv, DisableDmac PROVE IInv'
  OBVIOUS
<1>1. dmac' = FALSE /\ UNCHANGED <<channel, packet, fifo, ee, iop, src, got, pass, did>>
  BY DEF DisableDmac
<1>2. Types'
  BY <1>1 DEF IInv, Types
<1>3. Flow'
  BY <1>1, FlowStill DEF IInv, Still
<1>4. Turns'
  BY <1>1 DEF IInv, Turns, Rest, EeCanMove, IopCanMove, Sif0, Free
<1>5. (Ends => Ends') /\ (SenderEnds => SenderEnds')
  BY <1>1 DEF Ends, SenderEnds, Sif0
<1> QED
  BY <1>2, <1>3, <1>4, <1>5 DEF IInv

\* It enables the DMAC, which starts a channel that was queued.
LEMMA KeptByEnableDmac == IInv /\ EnableDmac => IInv'
<1> SUFFICES ASSUME IInv, EnableDmac PROVE IInv'
  OBVIOUS
<1>1. /\ Rest /\ dmac' = TRUE /\ UNCHANGED <<channel, packet, fifo, iop, src, got, did>>
      /\ IF ee.queued /\ ee.str
         THEN ee' = [DmaSif(ee) EXCEPT !.queued = FALSE] /\ pass' = FirstTurn
         ELSE UNCHANGED <<ee, pass>>
  BY DEF EnableDmac
<1>2. Types
  BY DEF IInv
<1>3. CASE ee.queued /\ ee.str
  <2> DEFINE m == EndsAgain(ee)
             d == DmaSif(ee)
  <2>1. /\ d = EeIs(ee.str, TRUE, m, ee.qwc, ee.tag, ee.pkt, ee.irq, ee.queued)
        /\ m = (~Sif0 /\ ee.qwc > 0 /\ (ee.tag = "end" \/ (ee.tag = "irq" /\ Vif1Tie)))
    <3>1. ee = EeIs(ee.str, ee.busy, ee.end, ee.qwc, ee.tag, ee.pkt, ee.irq, ee.queued)
      BY <1>2 DEF Types
    <3>2. d = [ee EXCEPT !.busy = TRUE, !.end = m]
      BY DEF DmaSif
    <3>3. m = (~Sif0 /\ ee.qwc > 0 /\ (ee.tag = "end" \/ (ee.tag = "irq" /\ Vif1Tie)))
      BY Zenon DEF EndsAgain
    <3> HIDE DEF m, d
    <3>4. d = EeIs(ee.str, TRUE, m, ee.qwc, ee.tag, ee.pkt, ee.irq, ee.queued)
      BY <3>1, <3>2 DEF EeIs
    <3> QED
      BY <3>3, <3>4
  <2>2. ee' = [d EXCEPT !.queued = FALSE] /\ pass' = FirstTurn
    BY <1>1, <1>3
  <2> HIDE DEF m, d
  <2>3. ee' = EeIs(ee.str, TRUE, m, ee.qwc, ee.tag, ee.pkt, ee.irq, FALSE)
    BY <2>1, <2>2 DEF EeIs
  <2>4. /\ ee'.str = ee.str /\ ee'.busy = TRUE /\ ee'.end = m /\ ee'.qwc = ee.qwc
        /\ ee'.tag = ee.tag /\ ee'.pkt = ee.pkt /\ ee'.irq = ee.irq /\ ee'.queued = FALSE
    BY <2>3, Zenon DEF EeIs
  <2>5. Types'
    BY <1>1, <1>2, <2>1, <2>2, <2>3, <2>4 DEF Types, FirstTurn
  <2>6. Flow'
    BY <1>1, <2>4, FlowStill DEF IInv, Still
  <2>7. Turns'
    BY <1>1, <2>2, <2>4 DEF IInv, Turns, Rest, EeCanMove, IopCanMove, Sif0, Free, FirstTurn
  <2>8. Ends => Ends'
    BY <1>1, <1>3, <2>1, <2>4 DEF Ends, Sif0
  <2>9. SenderEnds => SenderEnds'
    BY <1>1, <1>3, <2>1, <2>4 DEF SenderEnds, Sif0
  <2> QED
    BY <2>5, <2>6, <2>7, <2>8, <2>9 DEF IInv
<1>4. CASE ~(ee.queued /\ ee.str)
  <2>1. UNCHANGED <<ee, pass>>
    BY <1>1, <1>4
  <2>2. Types'
    BY <1>1, <2>1 DEF IInv, Types
  <2>3. Flow'
    BY <1>1, <2>1, FlowStill DEF IInv, Still
  <2>4. Turns'
    BY <1>1, <2>1 DEF IInv, Turns, Rest, EeCanMove, IopCanMove, Sif0, Free
  <2>5. (Ends => Ends') /\ (SenderEnds => SenderEnds')
    BY <1>1, <2>1 DEF Ends, SenderEnds, Sif0
  <2> QED
    BY <2>2, <2>3, <2>4, <2>5 DEF IInv
<1> QED
  BY <1>3, <1>4

\* An end that cannot move passes the turn on, or ends the loop.
LEMMA KeptByNoTurn == IInv /\ NoTurn => IInv'
<1> SUFFICES ASSUME IInv, NoTurn PROVE IInv'
  OBVIOUS
<1>1. /\ EeTurn(FALSE) \/ IopTurn(FALSE)
      /\ UNCHANGED <<channel, packet, fifo, ee, iop, src, got, dmac>>
  BY DEF NoTurn
<1>2. Types'
  BY <1>1 DEF IInv, Types, EeTurn, IopTurn
<1>3. Flow'
  BY <1>1, FlowStill DEF IInv, Still
<1>4. Turns'
  <2>1. CASE EeTurn(FALSE)
    BY <1>1, <2>1 DEF IInv, Types, Turns, Rest, EeCanMove, IopCanMove, Sif0, Free, EeTurn
  <2>2. CASE IopTurn(FALSE)
    BY <1>1, <2>2 DEF IInv, Types, Turns, Rest, EeCanMove, IopCanMove, Sif0, Free, IopTurn
  <2> QED
    BY <1>1, <2>1, <2>2
<1>5. (Ends => Ends') /\ (SenderEnds => SenderEnds')
  BY <1>1 DEF Ends, SenderEnds, Sif0
<1> QED
  BY <1>2, <1>3, <1>4, <1>5 DEF IInv

\* The EE finds the next tag of its chain.
LEMMA KeptByProcessEETag1 ==
    ASSUME NEW n \in Chunks, NEW tag \in {"more", "end", "irq"}
    PROVE  IInv /\ ProcessEETag1(n, tag) => IInv'
<1> SUFFICES ASSUME IInv, ProcessEETag1(n, tag) PROVE IInv'
  OBVIOUS
<1> DEFINE m == Ending(tag)
<1>1. /\ ~Sif0 /\ EeTurn(TRUE) /\ ee.str /\ ~IsLast /\ ee.qwc = 0
      /\ UNCHANGED <<channel, packet, fifo, iop, src, got, dmac>>
      /\ ee' = [ee EXCEPT !.qwc = n, !.tag = tag, !.end = m]
  BY DEF ProcessEETag1
<1>2. Types /\ n \in Nat /\ m \in BOOLEAN /\ (m => tag # "more")
  BY AmountsAssumption DEF IInv, Ending
<1> HIDE DEF m
<1>3. ee' = EeIs(ee.str, ee.busy, m, n, tag, ee.pkt, ee.irq, ee.queued)
  <2>1. ee = EeIs(ee.str, ee.busy, ee.end, ee.qwc, ee.tag, ee.pkt, ee.irq, ee.queued)
    BY <1>2 DEF Types
  <2> QED
    BY <1>1, <2>1 DEF EeIs
<1>4. /\ ee'.str = ee.str /\ ee'.busy = ee.busy /\ ee'.end = m /\ ee'.qwc = n
      /\ ee'.tag = tag /\ ee'.pkt = ee.pkt /\ ee'.irq = ee.irq /\ ee'.queued = ee.queued
  BY <1>3, Zenon DEF EeIs
<1>5. Types'
  BY <1>1, <1>2, <1>3, <1>4 DEF Types, EeTurn
<1>6. Flow'
  BY <1>1, <1>4, FlowStill DEF IInv, Still
<1>7. Turns'
  BY <1>1, <1>4 DEF IInv, Turns, Rest, EeCanMove, IopCanMove, Sif0, Free, EeTurn
<1>8. Ends => Ends'
  BY <1>1, <1>4 DEF Ends, Sif0
<1>9. SenderEnds => SenderEnds'
  BY <1>1, <1>2, <1>4 DEF SenderEnds, Sif0, EeTurn, EeCanMove
<1> QED
  BY <1>5, <1>6, <1>7, <1>8, <1>9 DEF IInv

\* What the sender adds is the row from where it stands.
LEMMA SentOn ==
    ASSUME Types, Flow, NEW p \in Pkt, NEW a \in Int, Sent = PlaceOf(packet, p, a),
           NEW n \in 0 .. Free(fifo), a + n <= Full(packet, p) + 1, NEW ws, Len(ws) = n,
           \A k \in 1 .. n : ws[k] = Content(packet, Word(p, a + k - 1))
    PROVE  /\ Receiving(packet, Write(fifo, ws), Received, StillDue, got, PlaceOf(packet, p, a + n))
           /\ Write(fifo, ws).readPos = fifo.readPos /\ Write(fifo, ws).size = fifo.size + n
<1>1. packet \in Programs
  BY DEF Types
<1> DEFINE t == NextFor(packet, Received, StillDue)
<1>2. /\ FifoFits(fifo) /\ Carries(packet, fifo, t, PlaceOf(packet, p, a))
      /\ Has(packet, got, Received, StillDue)
  BY DEF Flow, InTransit, Receiving
<1> HIDE DEF t
<1>3. /\ FifoFits(Write(fifo, ws))
      /\ Write(fifo, ws).readPos = fifo.readPos /\ Write(fifo, ws).size = fifo.size + n
  BY <1>2, WriteFits
<1>4. Carries(packet, Write(fifo, ws), t, PlaceOf(packet, p, a + n))
  BY <1>1, <1>2, WriteRun
<1> QED
  BY <1>2, <1>3, <1>4 DEF Receiving, t

\* The IOP sends the next packet's tag.
LEMMA KeptByProcessIOPTag0 == IInv /\ ProcessIOPTag0 => IInv'
<1> SUFFICES ASSUME IInv, ProcessIOPTag0 PROVE IInv'
  OBVIOUS
<1> DEFINE p == (iop.pkt + 1) % Packets
           c == packet[p].words
           j == JunkNeeded(packet[p].words)
           e == packet[p].iopEnd
<1>1. /\ Sif0 /\ IopTurn(TRUE) /\ iop.counter = 0 /\ ~iop.end
      /\ fifo' = Write(fifo, Tag(p))
      /\ iop' = [iop EXCEPT !.pkt = p, !.counter = c, !.junk = j, !.end = e]
      /\ UNCHANGED <<channel, packet, ee, src, got, dmac>>
  BY DEF ProcessIOPTag0
<1>2. Types /\ Flow /\ Turns
  BY DEF IInv
<1>3. packet \in Programs /\ iop.pkt \in Pkt
  BY <1>1, <1>2 DEF Types, Flow, Sending
<1>4. p \in Pkt /\ PlaceOf(packet, iop.pkt, Full(packet, iop.pkt) + 1) = PlaceOf(packet, p, -3)
  BY <1>3, NextTag
<1> HIDE DEF p
<1>5. /\ c \in Nat /\ c > 0 /\ j = Full(packet, p) - c /\ j \in 0 .. 3
      /\ Full(packet, p) \in Nat /\ Full(packet, p) % 4 = 0 /\ Full(packet, p) >= 4
      /\ e \in BOOLEAN
  BY <1>3, <1>4, FullIs DEF Programs
<1>6. Full(packet, iop.pkt) \in Nat
  BY <1>3, FullIs
<1> HIDE DEF c, j, e
<1>7. iop' = IopIs(iop.tr, iop.busy, e, c, j, p, iop.irq)
  <2>1. iop = IopIs(iop.tr, iop.busy, iop.end, iop.counter, iop.junk, iop.pkt, iop.irq)
    BY <1>2 DEF Types
  <2> QED
    BY <1>1, <2>1 DEF IopIs
<1>8. /\ iop'.tr = iop.tr /\ iop'.busy = iop.busy /\ iop'.end = e /\ iop'.counter = c
      /\ iop'.junk = j /\ iop'.pkt = p /\ iop'.irq = iop.irq
  BY <1>7, Zenon DEF IopIs
<1>9. Types'
  BY <1>1, <1>2, <1>4, <1>5, <1>7, <1>8 DEF Types, IopTurn
<1>10. iop.busy /\ Free(fifo) > 0 /\ pass = "iop" /\ pass' = "ee" /\ did' = TRUE
  BY <1>1 DEF IopTurn, IopCanMove
<1>11. iop.junk = 0
  BY <1>1, <1>2, <1>10 DEF Turns, Types
<1>12. FifoFits(fifo)
  BY <1>2 DEF Flow, InTransit, Receiving
<1>13. 4 \in 0 .. Free(fifo)
  <2>1. fifo.size \in 0 .. W /\ fifo.size % 4 = 0
    BY <1>1, <1>2, <1>11, <1>12 DEF Flow, Aligned, FifoFits
  <2> QED
    BY <1>10, <2>1, SizeOfFifo DEF Free
<1>14. Sent = PlaceOf(packet, p, -3)
  <2>1. IopAt = Full(packet, iop.pkt) + 1
    BY <1>1, <1>6, <1>11 DEF IopAt
  <2> QED
    BY <1>1, <1>4, <2>1 DEF Sent
<1> DEFINE ws == Tag(p)
<1>15. Len(ws) = 4 /\ \A k \in 1 .. 4 : ws[k] = Word(p, -3 + k - 1)
  <2>1. -3 \in Int /\ 0 \in Int /\ -3 <= 0 + 1 /\ 0 - (-3) + 1 = 4
    OBVIOUS
  <2> QED
    BY <1>4, <2>1, SliceIs DEF Tag
<1> HIDE DEF ws
<1>16. \A k \in 1 .. 4 : ws[k] = Content(packet, Word(p, -3 + k - 1))
  <2> SUFFICES ASSUME NEW k \in 1 .. 4 PROVE Word(p, -3 + k - 1) = Content(packet, Word(p, -3 + k - 1))
    BY <1>15
  <2>1. -3 + k - 1 <= packet[p].words
    BY <1>5 DEF c
  <2> QED
    BY <2>1 DEF Content, Word
<1>17. fifo' = Write(fifo, ws)
  BY <1>1 DEF ws
<1>18. /\ Receiving(packet, fifo', Received, StillDue, got, PlaceOf(packet, p, 1))
       /\ fifo'.readPos = fifo.readPos /\ fifo'.size = fifo.size + 4
  <2> DEFINE a == -3
             n == 4
  <2>1. /\ a \in Int /\ a + n <= Full(packet, p) + 1 /\ a + n = 1 /\ n = 4
        /\ n \in 0 .. Free(fifo) /\ Len(ws) = n
    BY <1>5, <1>13, <1>15
  <2>2. Sent = PlaceOf(packet, p, a) /\ \A k \in 1 .. n : ws[k] = Content(packet, Word(p, a + k - 1))
    BY <1>14, <1>16
  <2> HIDE DEF a, n
  <2>3. /\ Receiving(packet, Write(fifo, ws), Received, StillDue, got, PlaceOf(packet, p, a + n))
        /\ Write(fifo, ws).readPos = fifo.readPos /\ Write(fifo, ws).size = fifo.size + n
    BY <1>2, <1>4, <2>1, <2>2, SentOn
  <2> QED
    BY <1>17, <2>1, <2>3
<1>19. Behind(fifo', p, 1)
  <2>1. -3 \in Int /\ -3 >= -3 /\ -3 + 4 = 1
    OBVIOUS
  <2> QED
    BY <1>12, <1>13, <1>15, <1>17, <2>1, BehindTag, BehindWrite
<1>20. IopAt' = 1
  BY <1>1, <1>5, <1>8 DEF IopAt, c
<1>21. InTransit'
  BY <1>1, <1>8, <1>18, <1>20 DEF InTransit, Sent, Received, StillDue, Sif0
<1>22. Sending'
  BY <1>1, <1>4, <1>5, <1>8, <1>19, <1>20 DEF Sending, Sif0, c
<1>23. Aligned'
  <2>1. fifo.size \in 0 .. W /\ fifo.size % 4 = 0 /\ fifo.readPos % 4 = 0
    BY <1>1, <1>2, <1>11, <1>12 DEF Flow, Aligned, FifoFits
  <2>2. c + j = Full(packet, p)
    BY <1>5
  <2>3. (fifo.size + 4 + Full(packet, p)) % 4 = 0
    BY <1>5, <2>1, SizeOfFifo
  <2>4. fifo.size + 4 + Full(packet, p) = fifo.size + 4 + (c + j)
    BY <2>2
  <2> QED
    BY <1>1, <1>8, <1>18, <2>1, <2>3, <2>4 DEF Aligned, Sif0
<1>24. Turns'
  BY <1>1, <1>5, <1>8, <1>10 DEF Turns, Rest, Sif0
<1>25. (Ends => Ends') /\ (SenderEnds => SenderEnds')
  <2>1. e => packet[p].iopEnd
    BY DEF e
  <2> QED
    BY <1>1, <1>8, <1>10, <2>1 DEF Ends, SenderEnds, Sif0
<1> QED
  BY <1>9, <1>21, <1>22, <1>23, <1>24, <1>25 DEF IInv, Flow

\* The IOP sends data.
LEMMA KeptByWriteIOPtoFifo == IInv /\ WriteIOPtoFifo => IInv'
<1> SUFFICES ASSUME IInv, WriteIOPtoFifo PROVE IInv'
  OBVIOUS
<1> DEFINE p == iop.pkt
           c == iop.counter
           n == Least(iop.counter, Free(fifo))
           a == packet[iop.pkt].words - iop.counter + 1
           ws == Slice(p, a, a + n - 1)
           d == c - n
<1>1. /\ Sif0 /\ IopTurn(TRUE) /\ iop.counter > 0 /\ Free(fifo) > 0
      /\ fifo' = Write(fifo, ws)
      /\ iop' = [iop EXCEPT !.counter = d]
      /\ UNCHANGED <<channel, packet, ee, src, got, dmac>>
  BY DEF WriteIOPtoFifo
<1>2. Types /\ Flow /\ Turns
  BY DEF IInv
<1>3. /\ packet \in Programs /\ p \in Pkt /\ c \in Nat /\ c > 0 /\ c <= packet[p].words
      /\ iop.junk = Full(packet, p) - packet[p].words /\ Behind(fifo, p, IopAt)
  BY <1>1, <1>2 DEF Types, Flow, Sending
<1>4. FifoFits(fifo)
  BY <1>2 DEF Flow, InTransit, Receiving
<1>5. /\ packet[p].words \in Nat /\ Full(packet, p) \in Nat
      /\ Full(packet, p) - packet[p].words \in 0 .. 3
  BY <1>3, FullIs
<1>6. Free(fifo) \in Nat /\ fifo.size \in 0 .. W /\ Free(fifo) = W - fifo.size
  BY <1>4, SizeOfFifo DEF FifoFits, Free
<1>7. n \in 0 .. Free(fifo) /\ n \in 1 .. c
  BY <1>1, <1>3, <1>6 DEF Least
<1>8. a \in Int /\ a >= 1 /\ a = packet[p].words - c + 1
  BY <1>3, <1>5
<1>9. IopAt = a
  BY <1>3, <1>5 DEF IopAt
<1>10. d \in Nat /\ d = c - n
  BY <1>3, <1>7
<1>11. iop.busy /\ pass' = "ee" /\ did' = TRUE
  BY <1>1 DEF IopTurn, IopCanMove
<1> HIDE DEF p, n, a, ws, d
<1>12. iop' = IopIs(iop.tr, iop.busy, iop.end, d, iop.junk, iop.pkt, iop.irq)
  <2>1. iop = IopIs(iop.tr, iop.busy, iop.end, iop.counter, iop.junk, iop.pkt, iop.irq)
    BY <1>2 DEF Types
  <2> QED
    BY <1>1, <2>1 DEF IopIs
<1>13. /\ iop'.tr = iop.tr /\ iop'.busy = iop.busy /\ iop'.end = iop.end /\ iop'.counter = d
       /\ iop'.junk = iop.junk /\ iop'.pkt = iop.pkt /\ iop'.irq = iop.irq
  BY <1>12, Zenon DEF IopIs
<1>14. Types'
  BY <1>1, <1>2, <1>10, <1>12, <1>13 DEF Types, IopTurn
<1>15. Len(ws) = n /\ \A k \in 1 .. n : ws[k] = Word(p, a + k - 1)
  <2> DEFINE to == a + n - 1
  <2>1. to \in Int /\ a <= to + 1 /\ to - a + 1 = n
    BY <1>7, <1>8
  <2>2. ws = Slice(p, a, to)
    BY DEF ws
  <2> HIDE DEF to
  <2> QED
    BY <1>3, <1>8, <2>1, <2>2, SliceIs
<1>16. \A k \in 1 .. n : ws[k] = Content(packet, Word(p, a + k - 1))
  <2> SUFFICES ASSUME NEW k \in 1 .. n PROVE Word(p, a + k - 1) = Content(packet, Word(p, a + k - 1))
    BY <1>15
  <2>1. a + k - 1 <= packet[p].words
    BY <1>3, <1>5, <1>7, <1>8
  <2> QED
    BY <2>1 DEF Content, Word
<1>17. Sent = PlaceOf(packet, p, a)
  BY <1>1, <1>9 DEF Sent, p
<1>18. a + n <= Full(packet, p) + 1
  BY <1>3, <1>5, <1>7, <1>8
<1>19. /\ Receiving(packet, Write(fifo, ws), Received, StillDue, got, PlaceOf(packet, p, a + n))
       /\ Write(fifo, ws).readPos = fifo.readPos /\ Write(fifo, ws).size = fifo.size + n
  BY <1>2, <1>3, <1>7, <1>8, <1>15, <1>16, <1>17, <1>18, SentOn
<1>20. Behind(fifo', p, a + n)
  BY <1>1, <1>3, <1>4, <1>7, <1>8, <1>9, <1>15, BehindWrite
<1>21. IopAt' = a + n
  BY <1>1, <1>3, <1>5, <1>7, <1>8, <1>10, <1>13 DEF IopAt, p
<1>22. InTransit'
  BY <1>1, <1>13, <1>19, <1>21 DEF InTransit, Sent, Received, StillDue, Sif0, p
<1>23. Sending'
  BY <1>1, <1>3, <1>5, <1>7, <1>10, <1>13, <1>20, <1>21 DEF Sending, Sif0, p
<1>24. Aligned'
  <2>1. fifo.readPos % 4 = 0 /\ (fifo.size + (c + iop.junk)) % 4 = 0
    BY <1>1, <1>2 DEF Flow, Aligned
  <2>2. fifo.size + n + (d + iop.junk) = fifo.size + (c + iop.junk)
    BY <1>3, <1>5, <1>6, <1>7, <1>10
  <2> QED
    BY <1>1, <1>13, <1>19, <2>1, <2>2 DEF Aligned, Sif0
<1>25. Turns'
  BY <1>1, <1>10, <1>11, <1>13 DEF Turns, Rest, Sif0
<1>26. (Ends => Ends') /\ (SenderEnds => SenderEnds')
  BY <1>1, <1>11, <1>13 DEF Ends, SenderEnds, Sif0
<1> QED
  BY <1>14, <1>22, <1>23, <1>24, <1>25, <1>26 DEF IInv, Flow

\* The words that fill up a packet's last quadword.
LEMMA KeptByJunkTurn == IInv /\ JunkTurn => IInv'
<1> SUFFICES ASSUME IInv, JunkTurn PROVE IInv'
  OBVIOUS
<1>1. /\ pass = "junk" /\ pass' = "iop" /\ did' = FALSE
      /\ IF iop.counter = 0 /\ iop.junk > 0 /\ Free(fifo) >= iop.junk
         THEN fifo' = WriteJunk(fifo, iop.junk) /\ iop' = [iop EXCEPT !.junk = 0]
         ELSE UNCHANGED <<fifo, iop>>
      /\ UNCHANGED <<channel, packet, ee, src, got, dmac>>
  BY DEF JunkTurn
<1>2. Types /\ Flow /\ Turns
  BY DEF IInv
<1>3. Sif0
  BY <1>1, <1>2 DEF Turns
<1> DEFINE p == iop.pkt
           n == iop.junk
           a == packet[iop.pkt].words + 1
<1>4. /\ packet \in Programs /\ p \in Pkt /\ iop.counter \in Nat /\ n \in Nat
      /\ n \in {0, Full(packet, p) - packet[p].words}
      /\ iop.counter > 0 \/ n > 0 => Behind(fifo, p, IopAt)
  BY <1>2, <1>3 DEF Types, Flow, Sending
<1>5. /\ FifoFits(fifo) /\ fifo.readPos \in 0 .. W - 1 /\ fifo.size \in 0 .. W
      /\ fifo.writePos = (fifo.readPos + fifo.size) % W
  BY <1>2 DEF Flow, InTransit, Receiving, FifoFits
<1>6. /\ packet[p].words \in Nat /\ Full(packet, p) \in Nat
      /\ Full(packet, p) - packet[p].words \in 0 .. 3
  BY <1>4, FullIs
<1>7. fifo.readPos % 4 = 0 /\ (fifo.size + (iop.counter + n)) % 4 = 0
  BY <1>2, <1>3 DEF Flow, Aligned
<1>8. Ends => Ends'
  BY <1>1, <1>3 DEF Ends, Sif0
<1> HIDE DEF p, n, a
<1>9. CASE iop.counter = 0 /\ n > 0
  <2>1. n \in 1 .. 3 /\ n = Full(packet, p) - packet[p].words /\ Behind(fifo, p, IopAt)
    BY <1>4, <1>6, <1>9
  <2>2. n \in 0 .. Free(fifo)
    <3>1. (fifo.size + n) % 4 = 0
      BY <1>5, <1>7, <1>9, <2>1
    <3>2. fifo.size + n <= W
      BY <1>5, <2>1, <3>1, SizeOfFifo
    <3> QED
      BY <1>5, <2>1, <3>2, SizeOfFifo DEF Free
  <2>3. fifo' = WriteJunk(fifo, n) /\ iop' = [iop EXCEPT !.junk = 0]
    BY <1>1, <1>9, <2>2, SizeOfFifo DEF n, Free
  <2>4. IopAt = a /\ a \in Int /\ a = packet[p].words + 1 /\ a + n = Full(packet, p) + 1
    BY <1>6, <1>9, <2>1 DEF IopAt, a, n, p
  <2>5. (fifo.writePos + n) % 4 = 0
    <3> DEFINE x == fifo.readPos + fifo.size
    <3>1. -W <= x /\ x < 2 * W /\ x \in Int /\ (x + n) % 4 = 0
      <4>1. (fifo.size + n) % 4 = 0
        BY <1>5, <1>7, <1>9, <2>1
      <4>2. (x + n) % 4 = 0
        BY <1>5, <1>7, <2>1, <4>1, SizeOfFifo
      <4> QED
        BY <1>5, <4>2, SizeOfFifo
    <3>2. x = fifo.readPos + fifo.size
      OBVIOUS
    <3> HIDE DEF x
    <3>3. x % W = IF x < 0 THEN x + W ELSE IF x < W THEN x ELSE x - W
      BY <3>1, ModIs
    <3>4. x >= 0
      BY <1>5, <3>2, SizeOfFifo
    <3>5. x % W = x \/ x % W = x - W
      BY <3>1, <3>3, <3>4
    <3>6. (x - W + n) % 4 = 0
      BY <2>1, <3>1, SizeOfFifo
    <3> QED
      BY <1>5, <3>1, <3>2, <3>5, <3>6
  <2>6. PICK ws : FillsUp(packet, fifo, p, a, n, ws)
    <3> DEFINE wp == fifo.writePos
    <3>1. Behind(fifo, p, a) /\ a \in Int /\ a = packet[p].words + 1
      BY <2>1, <2>4
    <3>2. packet \in Programs /\ FifoFits(fifo) /\ p \in Pkt
      BY <1>4, <1>5
    <3>3. wp \in Int /\ wp = fifo.writePos /\ (wp + n) % 4 = 0
      BY <2>5, <3>2, WritePosIs
    <3> HIDE DEF wp
    <3> QED
      BY <2>1, <3>1, <3>2, <3>3, JunkIs
  <2>7. /\ WriteJunk(fifo, n) = Write(fifo, ws) /\ Len(ws) = n
        /\ \A k \in 1 .. n : ws[k] = Content(packet, Word(p, a + k - 1))
    BY <2>6 DEF FillsUp
  <2>8. Sent = PlaceOf(packet, p, a)
    BY <1>3, <2>4 DEF Sent, p
  <2>9. /\ Receiving(packet, Write(fifo, ws), Received, StillDue, got, PlaceOf(packet, p, a + n))
        /\ Write(fifo, ws).readPos = fifo.readPos /\ Write(fifo, ws).size = fifo.size + n
    <3>1. a + n <= Full(packet, p) + 1 /\ Len(ws) = n
      BY <1>6, <2>4, <2>7
    <3> QED
      BY <1>2, <1>4, <2>2, <2>4, <2>7, <2>8, <3>1, SentOn
  <2>10. iop' = IopIs(iop.tr, iop.busy, iop.end, iop.counter, 0, iop.pkt, iop.irq)
    <3>1. iop = IopIs(iop.tr, iop.busy, iop.end, iop.counter, iop.junk, iop.pkt, iop.irq)
      BY <1>2 DEF Types
    <3> QED
      BY <2>3, <3>1 DEF IopIs
  <2>11. /\ iop'.tr = iop.tr /\ iop'.busy = iop.busy /\ iop'.end = iop.end /\ iop'.junk = 0
         /\ iop'.counter = iop.counter /\ iop'.pkt = iop.pkt /\ iop'.irq = iop.irq
    BY <2>10, Zenon DEF IopIs
  <2>12. Types'
    BY <1>1, <1>2, <2>10, <2>11 DEF Types
  <2>13. IopAt' = a + n
    BY <1>1, <1>6, <1>9, <2>4, <2>11 DEF IopAt, p
  <2>14. InTransit'
    BY <1>1, <1>3, <2>3, <2>7, <2>9, <2>11, <2>13 DEF InTransit, Sent, Received, StillDue, Sif0, p
  <2>15. Sending'
    BY <1>1, <1>3, <1>4, <1>6, <1>9, <2>11 DEF Sending, Sif0, p
  <2>16. Aligned'
    <3>1. (fifo.size + n + (iop.counter + 0)) % 4 = 0
      BY <1>5, <1>7, <1>9, <2>1
    <3> QED
      BY <1>1, <1>3, <1>7, <2>3, <2>7, <2>9, <2>11, <3>1 DEF Aligned, Sif0
  <2>17. Turns'
    BY <1>1, <1>3, <1>9, <2>11 DEF Turns, Rest, Sif0
  <2>18. SenderEnds => SenderEnds'
    BY <1>1, <1>3, <1>9, <2>11 DEF SenderEnds, Sif0, n
  <2> QED
    BY <1>8, <2>12, <2>14, <2>15, <2>16, <2>17, <2>18 DEF IInv, Flow
<1>10. CASE ~(iop.counter = 0 /\ n > 0)
  <2>1. UNCHANGED <<fifo, iop>>
    BY <1>1, <1>10 DEF n
  <2>2. Types'
    BY <1>1, <1>2, <2>1 DEF Types
  <2>3. Flow'
    BY <1>1, <1>2, <2>1, FlowStill DEF Still
  <2>4. Turns'
    BY <1>1, <1>2, <1>3, <1>10, <2>1 DEF Turns, Rest, Sif0, n
  <2>5. SenderEnds => SenderEnds'
    BY <1>1, <2>1 DEF SenderEnds, Sif0
  <2> QED
    BY <1>8, <2>2, <2>3, <2>4, <2>5 DEF IInv
<1> QED
  BY <1>9, <1>10

\* The EE sends what lies along its path in memory.
LEMMA KeptByWriteEEtoFifo == IInv /\ WriteEEtoFifo => IInv'
<1> SUFFICES ASSUME IInv, WriteEEtoFifo PROVE IInv'
  OBVIOUS
<1> DEFINE n == Least(ee.qwc, Room)
           m == 4 * n
           q == ee.qwc - n
<1>1. /\ ~Sif0 /\ EeTurn(TRUE) /\ ee.str /\ ~IsLast /\ ee.qwc > 0
      /\ fifo' = Write(fifo, FromMemory(m)) /\ src' = Path(m)[m]
      /\ ee' = [ee EXCEPT !.qwc = q]
      /\ UNCHANGED <<channel, packet, iop, got, dmac>>
  BY DEF WriteEEtoFifo
<1>2. Types /\ Flow /\ Turns
  BY DEF IInv
<1>3. /\ packet \in Programs /\ \A p \in Pkt : packet[p].words % 4 = 0
      /\ src \in Place /\ src.at <= packet[src.pkt].words /\ ee.qwc \in Nat
  BY <1>1, <1>2 DEF Types, Flow, Sending, Sif0
<1> DEFINE t == NextFor(packet, iop.pkt, iop.counter)
<1>4. /\ FifoFits(fifo) /\ Carries(packet, fifo, t, src) /\ Has(packet, got, iop.pkt, iop.counter)
  BY <1>1, <1>2 DEF Flow, InTransit, Receiving, Received, StillDue, Sent
<1>5. fifo.size \in 0 .. W /\ fifo.size % 4 = 0 /\ fifo.readPos % 4 = 0 /\ iop.counter % 4 = 0
  <2>1. fifo.size \in 0 .. W /\ (fifo.size + 0) % 4 = 0
    BY <1>1, <1>2, <1>4 DEF Flow, Aligned, FifoFits
  <2> QED
    BY <1>1, <1>2, <2>1 DEF Flow, Aligned
<1>6. n \in Nat /\ n <= ee.qwc /\ n <= Room
  BY <1>3, <1>5, SizeOfFifo DEF Least, Room, Free
<1>7. m \in 0 .. Free(fifo) /\ m \in Nat /\ m % 4 = 0
  BY <1>5, <1>6, SizeOfFifo DEF Room, Free
<1>8. q \in Nat
  BY <1>3, <1>6
<1>9. ee.busy /\ pass' = "iop" /\ did' = TRUE
  BY <1>1 DEF EeTurn, EeCanMove
<1> HIDE DEF n, m, q, t
<1> DEFINE ws == FromMemory(m)
           d == Path(m)
<1>10. /\ d \in [0 .. m -> Place] /\ d[0] = src /\ Row(packet, d, m) /\ Len(ws) = m
       /\ \A k \in 1 .. m : ws[k] = Content(packet, d[k - 1])
       /\ d[m].at <= packet[d[m].pkt].words
  BY <1>3, <1>7, FromMemoryIs
<1>11. fifo' = Write(fifo, ws) /\ src' = d[m]
  BY <1>1
<1> HIDE DEF ws, d
<1>12. FifoFits(fifo') /\ fifo'.readPos = fifo.readPos /\ fifo'.size = fifo.size + m
  BY <1>4, <1>7, <1>10, <1>11, WriteFits
<1>13. Carries(packet, fifo', t, src')
  BY <1>3, <1>4, <1>7, <1>10, <1>11, WriteCarries
<1>14. ee' = EeIs(ee.str, ee.busy, ee.end, q, ee.tag, ee.pkt, ee.irq, ee.queued)
  <2>1. ee = EeIs(ee.str, ee.busy, ee.end, ee.qwc, ee.tag, ee.pkt, ee.irq, ee.queued)
    BY <1>2 DEF Types
  <2> QED
    BY <1>1, <2>1 DEF EeIs
<1>15. /\ ee'.str = ee.str /\ ee'.busy = ee.busy /\ ee'.end = ee.end /\ ee'.qwc = q
       /\ ee'.tag = ee.tag /\ ee'.pkt = ee.pkt /\ ee'.irq = ee.irq /\ ee'.queued = ee.queued
  BY <1>14, Zenon DEF EeIs
<1>16. Types'
  BY <1>1, <1>2, <1>8, <1>14, <1>15 DEF Types, EeTurn
<1>17. InTransit'
  BY <1>1, <1>4, <1>12, <1>13 DEF InTransit, Receiving, Sent, Received, StillDue, Sif0, t
<1>18. Sending'
  <2>1. src' \in Place /\ src'.at <= packet[src'.pkt].words
    BY <1>7, <1>10, <1>11
  <2> QED
    BY <1>1, <2>1 DEF Sending, Sif0
<1>19. Aligned'
  <2>1. (fifo.size + m + 0) % 4 = 0
    <3>1. fifo.size \in Int /\ fifo.size % 4 = 0 /\ m \in Int /\ m % 4 = 0
      BY <1>5, <1>7, SizeOfFifo
    <3> QED
      BY ONLY <3>1
  <2> QED
    BY <1>1, <1>5, <1>12, <2>1 DEF Aligned, Sif0
<1>20. Turns'
  BY <1>1, <1>9 DEF Turns, Rest, Sif0
<1>21. Ends => Ends'
  BY <1>1 DEF Ends, Sif0
<1>22. SenderEnds => SenderEnds'
  BY <1>1, <1>9, <1>15 DEF SenderEnds, Sif0
<1> QED
  BY <1>16, <1>17, <1>18, <1>19, <1>20, <1>21, <1>22 DEF IInv, Flow

\* Reading whole quadwords keeps to them.
LEMMA ReadAligned ==
    ASSUME NEW f, FifoFits(f), f.readPos % 4 = 0, NEW n \in 0 .. f.size, n % 4 = 0
    PROVE  Read(f, n).readPos % 4 = 0
<1> DEFINE r == f.readPos
           x == r + n
<1>1. r \in 0 .. W - 1 /\ f.size \in 0 .. W /\ r % 4 = 0
  BY DEF FifoFits
<1>2. Read(f, n).readPos = x % W
  BY ReadFits
<1> HIDE DEF r
<1>3. -W <= x /\ 0 <= x /\ x < 2 * W /\ x \in Int /\ x % 4 = 0
  BY <1>1, SizeOfFifo
<1> HIDE DEF x
<1>4. x % W = IF x < 0 THEN x + W ELSE IF x < W THEN x ELSE x - W
  BY <1>3, ModIs
<1>5. (x - W) % 4 = 0
  BY <1>3, SizeOfFifo
<1> QED
  BY <1>2, <1>3, <1>4, <1>5

\* The EE's end half way through its turn.
EeTakes(s) ==
    /\ s = [fifo |-> s.fifo, got |-> s.got, ee |-> s.ee]
    /\ s.ee = EeIs(ee.str, ee.busy, s.ee.end, s.ee.qwc, ee.tag, s.ee.pkt, ee.irq, ee.queued)
    /\ s.ee.end \in BOOLEAN /\ s.ee.qwc \in Nat /\ s.ee.pkt \in Pkt \cup {NoPkt}
    /\ Receiving(packet, s.fifo, s.ee.pkt, 4 * s.ee.qwc, s.got, Sent)
    /\ s.fifo.data = fifo.data /\ s.fifo.writePos = fifo.writePos
    /\ s.fifo.readPos % 4 = 0 /\ (s.fifo.size + (iop.counter + iop.junk)) % 4 = 0
    /\ Ends /\ s.ee.end => s.ee.pkt # NoPkt /\ packet[s.ee.pkt].eeEnd

\* The EE's turn begins with what the invariant says.
LEMMA EeTakesNow ==
    ASSUME IInv, Sif0, NEW s, s = [fifo |-> fifo, ee |-> ee, got |-> got]
    PROVE  EeTakes(s)
<1>1. s.fifo = fifo /\ s.ee = ee /\ s.got = got /\ s = [fifo |-> s.fifo, got |-> s.got, ee |-> s.ee]
  OBVIOUS
<1>2. /\ ee = EeIs(ee.str, ee.busy, ee.end, ee.qwc, ee.tag, ee.pkt, ee.irq, ee.queued)
      /\ ee.end \in BOOLEAN /\ ee.qwc \in Nat /\ ee.pkt \in Pkt \cup {NoPkt}
  BY DEF IInv, Types
<1>3. Receiving(packet, fifo, ee.pkt, 4 * ee.qwc, got, Sent)
  BY DEF IInv, Flow, InTransit, Received, StillDue
<1>4. fifo.readPos % 4 = 0 /\ (fifo.size + (iop.counter + iop.junk)) % 4 = 0
  BY DEF IInv, Flow, Aligned
<1>5. Ends /\ ee.end => ee.pkt # NoPkt /\ packet[ee.pkt].eeEnd
  BY DEF Ends
<1> QED
  BY <1>1, <1>2, <1>3, <1>4, <1>5 DEF EeTakes

\* It takes the next packet's tag out of the fifo.
LEMMA EeTakesTag ==
    ASSUME Types, Sif0, NEW s, EeTakes(s), s.ee.qwc = 0, ~s.ee.end, s.fifo.size >= 4
    PROVE  EeTakes(ReadTag0(s))
<1> DEFINE w == s.fifo.data[s.fifo.readPos]
           p == IF w.at = -3 THEN w.pkt ELSE NoPkt
           q == IF p = NoPkt THEN 0 ELSE (packet[p].words + 3) \div 4
           m == s.ee.end \/ (p # NoPkt /\ packet[p].eeEnd)
           r == ReadTag0(s)
<1>1. /\ s.ee = EeIs(ee.str, ee.busy, s.ee.end, s.ee.qwc, ee.tag, s.ee.pkt, ee.irq, ee.queued)
      /\ s.ee.end \in BOOLEAN /\ s.ee.pkt \in Pkt \cup {NoPkt} /\ packet \in Programs
      /\ Receiving(packet, s.fifo, s.ee.pkt, 0, s.got, Sent)
      /\ s.fifo.readPos % 4 = 0 /\ (s.fifo.size + (iop.counter + iop.junk)) % 4 = 0
      /\ iop.counter \in Nat /\ iop.junk \in Nat
  BY DEF EeTakes, Types
<1>2. /\ w.at = -3 /\ w.pkt \in Pkt
      /\ Receiving(packet, Read(s.fifo, 4), w.pkt, Full(packet, w.pkt), <<>>, Sent)
  <2> DEFINE v == w
  <2>1. v = s.fifo.data[s.fifo.readPos]
    OBVIOUS
  <2> HIDE DEF v
  <2>2. /\ v.at = -3 /\ v.pkt \in Pkt
        /\ Receiving(packet, Read(s.fifo, 4), v.pkt, Full(packet, v.pkt), <<>>, Sent)
    BY <1>1, <2>1, TagTaken
  <2> QED
    BY <2>1, <2>2
<1>3. p \in Pkt /\ p # NoPkt /\ p = w.pkt
  BY <1>2 DEF Pkt, NoPkt
<1>4. q \in Nat /\ 4 * q = Full(packet, p)
  <2>1. q = (packet[p].words + 3) \div 4
    BY <1>3
  <2> HIDE DEF p, q
  <2>2. packet[p].words \in Nat
    BY <1>1, <1>3, FullIs
  <2> DEFINE n == packet[p].words
  <2>3. n \in Nat /\ q = (n + 3) \div 4
    BY <2>1, <2>2
  <2> HIDE DEF n
  <2>4. q \in Nat
    BY <2>3
  <2> QED
    BY <2>3, <2>4 DEF n, Full
<1>5. /\ r.fifo = Read(s.fifo, 4) /\ r.got = <<>> /\ r = [fifo |-> r.fifo, got |-> r.got, ee |-> r.ee]
      /\ r.ee = [s.ee EXCEPT !.pkt = p, !.qwc = q, !.end = m]
  BY DEF ReadTag0
<1>6. m \in BOOLEAN
  BY <1>1, <1>3 DEF Programs
<1>7. Ends /\ m => packet[p].eeEnd
  OBVIOUS
<1> HIDE DEF w, p, q, m, r
<1>8. r.ee = EeIs(ee.str, ee.busy, m, q, ee.tag, p, ee.irq, ee.queued)
  <2> DEFINE e == s.ee
             b == s.ee.end
             c == s.ee.qwc
             o == s.ee.pkt
             x == r.ee
  <2>1. e = EeIs(ee.str, ee.busy, b, c, ee.tag, o, ee.irq, ee.queued)
    BY <1>1
  <2>2. x = [e EXCEPT !.pkt = p, !.qwc = q, !.end = m]
    BY <1>5
  <2> HIDE DEF e, b, c, o, x
  <2>3. x = EeIs(ee.str, ee.busy, m, q, ee.tag, p, ee.irq, ee.queued)
    BY <2>1, <2>2 DEF EeIs
  <2> QED
    BY <2>3 DEF x
<1>9. /\ r.ee.end = m /\ r.ee.qwc = q /\ r.ee.pkt = p
  <2> DEFINE x == r.ee
  <2>1. x = EeIs(ee.str, ee.busy, m, q, ee.tag, p, ee.irq, ee.queued)
    BY <1>8
  <2> HIDE DEF x
  <2>2. x.end = m /\ x.qwc = q /\ x.pkt = p
    BY <2>1, Zenon DEF EeIs
  <2> QED
    BY <2>2 DEF x
<1>10. FifoFits(s.fifo) /\ s.fifo.size \in Nat /\ 4 \in 0 .. s.fifo.size
  BY <1>1, SizeOfFifo DEF Receiving, FifoFits
<1>11. r.fifo.readPos % 4 = 0 /\ r.fifo.size = s.fifo.size - 4
  BY <1>1, <1>5, <1>10, ReadAligned, ReadFits
<1>12. (r.fifo.size + (iop.counter + iop.junk)) % 4 = 0
  <2> DEFINE x == s.fifo.size + (iop.counter + iop.junk)
  <2>1. x \in Int /\ x % 4 = 0 /\ r.fifo.size + (iop.counter + iop.junk) = x - 4
    BY <1>1, <1>10, <1>11
  <2> HIDE DEF x
  <2> QED
    BY <2>1
<1>13. Receiving(packet, r.fifo, r.ee.pkt, 4 * r.ee.qwc, r.got, Sent)
  BY <1>2, <1>3, <1>4, <1>5, <1>9
<1>14. r.fifo.data = fifo.data /\ r.fifo.writePos = fifo.writePos
  BY <1>5, <1>10, ReadFits DEF EeTakes
<1>15. EeTakes(r)
  BY <1>14, <1>3, <1>4, <1>5, <1>6, <1>7, <1>8, <1>9, <1>11, <1>12, <1>13 DEF EeTakes
<1> QED
  BY <1>15 DEF r

\* It takes what there is of the packet's quadwords.
LEMMA EeTakesData ==
    ASSUME Types, Sif0, NEW s, EeTakes(s), s.ee.qwc > 0
    PROVE  EeTakes(WriteToEe(s))
<1> DEFINE n == Least(s.ee.qwc, s.fifo.size \div 4)
           m == 4 * n
           q == s.ee.qwc - n
           p == s.ee.pkt
           due == 4 * s.ee.qwc
           r == WriteToEe(s)
<1>1. /\ s.ee = EeIs(ee.str, ee.busy, s.ee.end, s.ee.qwc, ee.tag, s.ee.pkt, ee.irq, ee.queued)
      /\ s.ee.end \in BOOLEAN /\ p \in Pkt \cup {NoPkt} /\ packet \in Programs /\ s.ee.qwc \in Nat
      /\ Receiving(packet, s.fifo, p, due, s.got, Sent)
      /\ s.fifo.readPos % 4 = 0 /\ (s.fifo.size + (iop.counter + iop.junk)) % 4 = 0
      /\ iop.counter \in Nat /\ iop.junk \in Nat
      /\ Ends /\ s.ee.end => p # NoPkt /\ packet[p].eeEnd
  BY DEF EeTakes, Types
<1>2. FifoFits(s.fifo) /\ s.fifo.size \in Nat
  BY <1>1, SizeOfFifo DEF Receiving, FifoFits
<1>3. n \in Nat /\ n <= s.ee.qwc /\ 4 * n <= s.fifo.size
  BY <1>1, <1>2 DEF Least
<1>4. due \in Nat /\ due > 0
  BY <1>1
<1>5. p \in Pkt
  BY <1>1, <1>4 DEF Receiving, Has
<1>6. m \in 0 .. due /\ m <= s.fifo.size /\ m \in 0 .. s.fifo.size /\ m % 4 = 0 /\ m \in Nat
  BY <1>1, <1>2, <1>3
<1>7. q \in Nat /\ 4 * q = due - m
  BY <1>1, <1>3
<1>8. /\ r.fifo = Read(s.fifo, m) /\ r.got = s.got \o Oldest(s.fifo, m)
      /\ r = [fifo |-> r.fifo, got |-> r.got, ee |-> r.ee]
      /\ r.ee = [s.ee EXCEPT !.qwc = q]
  BY DEF WriteToEe
<1> HIDE DEF n, m, q, p, due, r
<1>9. r.ee = EeIs(ee.str, ee.busy, s.ee.end, q, ee.tag, p, ee.irq, ee.queued)
  <2> DEFINE e == s.ee
             b == s.ee.end
             c == s.ee.qwc
             x == r.ee
  <2>1. e = EeIs(ee.str, ee.busy, b, c, ee.tag, p, ee.irq, ee.queued)
    BY <1>1 DEF p
  <2>2. x = [e EXCEPT !.qwc = q]
    BY <1>8
  <2> HIDE DEF e, b, c, x
  <2>3. x = EeIs(ee.str, ee.busy, b, q, ee.tag, p, ee.irq, ee.queued)
    BY <2>1, <2>2 DEF EeIs
  <2> QED
    BY <2>3 DEF x, b
<1>10. r.ee.end = s.ee.end /\ r.ee.qwc = q /\ r.ee.pkt = p
  <2> DEFINE x == r.ee
             b == s.ee.end
  <2>1. x = EeIs(ee.str, ee.busy, b, q, ee.tag, p, ee.irq, ee.queued)
    BY <1>9
  <2> HIDE DEF x, b
  <2>2. x.end = b /\ x.qwc = q /\ x.pkt = p
    BY <2>1, Zenon DEF EeIs
  <2> QED
    BY <2>2 DEF x, b
<1>11. r.fifo.readPos % 4 = 0 /\ r.fifo.size = s.fifo.size - m
  <2>1. Read(s.fifo, m).readPos % 4 = 0 /\ Read(s.fifo, m).size = s.fifo.size - m
    BY <1>1, <1>2, <1>6, ReadAligned, ReadFits
  <2> QED
    BY <1>8, <2>1
<1>12. (r.fifo.size + (iop.counter + iop.junk)) % 4 = 0
  <2> DEFINE x == s.fifo.size + (iop.counter + iop.junk)
  <2>1. x \in Int /\ x % 4 = 0 /\ r.fifo.size + (iop.counter + iop.junk) = x - m
    BY <1>1, <1>2, <1>6, <1>11
  <2> HIDE DEF x
  <2> QED
    BY <1>6, <2>1
<1>13. Receiving(packet, r.fifo, p, due - m, r.got, Sent)
  BY <1>1, <1>4, <1>5, <1>6, <1>8, DataTaken
<1>14. Receiving(packet, r.fifo, r.ee.pkt, 4 * r.ee.qwc, r.got, Sent)
  BY <1>7, <1>10, <1>13
<1>15. r.fifo.data = fifo.data /\ r.fifo.writePos = fifo.writePos
  <2>1. Read(s.fifo, m).data = s.fifo.data /\ Read(s.fifo, m).writePos = s.fifo.writePos
    BY <1>2, <1>6, ReadFits
  <2> QED
    BY <1>8, <2>1 DEF EeTakes
<1>16. EeTakes(r)
  BY <1>15, <1>1, <1>5, <1>7, <1>8, <1>9, <1>10, <1>11, <1>12, <1>14 DEF EeTakes
<1> QED
  BY <1>16 DEF r

\* The EE takes the next tag, and what there is of the data behind it.
LEMMA KeptByHandleEe0 == IInv /\ HandleEe0 => IInv'
<1> SUFFICES ASSUME IInv, HandleEe0 PROVE IInv'
  OBVIOUS
<1> DEFINE now  == [fifo |-> fifo, ee |-> ee, got |-> got]
           read == IF ee.qwc = 0 THEN ReadTag0(now) ELSE now
           next == IF read.ee.qwc > 0 /\ read.fifo.size >= 4 THEN WriteToEe(read) ELSE read
<1>1. /\ Sif0 /\ EeTurn(TRUE) /\ ee.str /\ ~IsLast
      /\ fifo' = next.fifo /\ ee' = next.ee /\ got' = next.got
      /\ UNCHANGED <<channel, packet, iop, src, dmac>>
  BY DEF HandleEe0
<1>2. Types /\ Flow /\ Turns
  BY DEF IInv
<1>3. ee.busy /\ fifo.size >= 4 /\ pass' = "junk" /\ did' = TRUE
  BY <1>1 DEF EeTurn, EeCanMove, IsLast
<1>4. EeTakes(now) /\ now.ee = ee /\ now.fifo = fifo
  BY <1>1, EeTakesNow
<1>5. EeTakes(read)
  <2>1. CASE ee.qwc = 0
    <3> HIDE DEF now
    <3>1. now.ee.qwc = 0 /\ ~now.ee.end /\ now.fifo.size >= 4
      BY <1>1, <1>3, <1>4, <2>1 DEF IsLast
    <3>2. EeTakes(ReadTag0(now))
      BY <1>1, <1>2, <1>4, <3>1, EeTakesTag
    <3> QED
      BY <2>1, <3>2
  <2>2. CASE ee.qwc # 0
    BY <1>4, <2>2
  <2> QED
    BY <2>1, <2>2
<1> HIDE DEF now, read
<1>6. EeTakes(next)
  <2>1. CASE read.ee.qwc > 0 /\ read.fifo.size >= 4
    BY <1>1, <1>2, <1>5, <2>1, EeTakesData
  <2>2. CASE ~(read.ee.qwc > 0 /\ read.fifo.size >= 4)
    BY <1>5, <2>2
  <2> QED
    BY <2>1, <2>2
<1> HIDE DEF next
<1>7. /\ ee' = EeIs(ee.str, ee.busy, ee'.end, ee'.qwc, ee.tag, ee'.pkt, ee.irq, ee.queued)
      /\ ee'.end \in BOOLEAN /\ ee'.qwc \in Nat /\ ee'.pkt \in Pkt \cup {NoPkt}
      /\ Receiving(packet, fifo', ee'.pkt, 4 * ee'.qwc, got', Sent)
      /\ fifo'.readPos % 4 = 0 /\ (fifo'.size + (iop.counter + iop.junk)) % 4 = 0
      /\ Ends /\ ee'.end => ee'.pkt # NoPkt /\ packet[ee'.pkt].eeEnd
  BY <1>1, <1>6 DEF EeTakes
<1>8. /\ ee'.str = ee.str /\ ee'.busy = ee.busy /\ ee'.tag = ee.tag
      /\ ee'.irq = ee.irq /\ ee'.queued = ee.queued
  <2> DEFINE b == ee'.end
             c == ee'.qwc
             o == ee'.pkt
  <2>1. ee' = EeIs(ee.str, ee.busy, b, c, ee.tag, o, ee.irq, ee.queued)
    BY <1>7
  <2> HIDE DEF b, c, o
  <2> QED
    BY <2>1, Zenon DEF EeIs
<1>9. Types'
  BY <1>1, <1>2, <1>7, <1>8 DEF Types, EeTurn
<1>10. IopAt' = IopAt /\ Sent' = Sent
  BY <1>1 DEF IopAt, Sent, Sif0
<1>11. InTransit'
  BY <1>1, <1>7, <1>10 DEF InTransit, Received, StillDue, Sif0
<1>12. Sending'
  <2>1. fifo'.data = fifo.data /\ fifo'.writePos = fifo.writePos
    BY <1>1, <1>6 DEF EeTakes
  <2>2. Behind(fifo, iop.pkt, IopAt) => Behind(fifo', iop.pkt, IopAt)
    BY <2>1 DEF Behind
  <2> QED
    BY <1>1, <1>2, <1>10, <2>2 DEF Flow, Sending, Sif0
<1>13. Aligned'
  BY <1>1, <1>7 DEF Aligned, Sif0
<1>14. Turns'
  BY <1>1, <1>2, <1>3 DEF Turns, Rest, Sif0
<1>15. Ends => Ends'
  BY <1>1, <1>3, <1>7, <1>8 DEF Ends, Sif0
<1>16. SenderEnds => SenderEnds'
  BY <1>1 DEF SenderEnds, Sif0
<1> QED
  BY <1>9, <1>11, <1>12, <1>13, <1>14, <1>15, <1>16 DEF IInv, Flow

\* The IOP's end half way through its turn as the receiver.
IopTakes(s) ==
    /\ s = [fifo |-> s.fifo, got |-> s.got, iop |-> s.iop]
    /\ s.iop = IopIs(iop.tr, s.iop.busy, s.iop.end, s.iop.counter, iop.junk, s.iop.pkt, s.iop.irq)
    /\ {s.iop.busy, s.iop.end, s.iop.irq} \subseteq BOOLEAN
    /\ s.iop.counter \in Nat /\ s.iop.pkt \in Pkt \cup {NoPkt}
    /\ Receiving(packet, s.fifo, s.iop.pkt, s.iop.counter, s.got, src)
    /\ s.fifo.readPos % 4 = 0 /\ s.fifo.size % 4 = 0 /\ s.iop.counter % 4 = 0
    /\ Ends => /\ s.iop.end => s.iop.pkt # NoPkt /\ packet[s.iop.pkt].iopEnd
               /\ s.iop.busy => iop.tr
               /\ s.iop.irq => /\ iop.tr /\ ~s.iop.busy /\ s.iop.counter = 0
                               /\ s.iop.pkt # NoPkt /\ packet[s.iop.pkt].iopEnd

\* The IOP's turn begins with what the invariant says.
LEMMA IopTakesNow ==
    ASSUME IInv, ~Sif0, NEW s, s = [fifo |-> fifo, iop |-> iop, got |-> got]
    PROVE  IopTakes(s)
<1>1. s.fifo = fifo /\ s.iop = iop /\ s.got = got /\ s = [fifo |-> s.fifo, got |-> s.got, iop |-> s.iop]
  OBVIOUS
<1>2. /\ iop = IopIs(iop.tr, iop.busy, iop.end, iop.counter, iop.junk, iop.pkt, iop.irq)
      /\ {iop.busy, iop.end, iop.irq} \subseteq BOOLEAN
      /\ iop.counter \in Nat /\ iop.pkt \in Pkt \cup {NoPkt}
  BY DEF IInv, Types
<1>3. Receiving(packet, fifo, iop.pkt, iop.counter, got, src)
  BY DEF IInv, Flow, InTransit, Received, StillDue, Sent
<1>4. fifo.readPos % 4 = 0 /\ fifo.size % 4 = 0 /\ iop.counter % 4 = 0
  <2>1. fifo.size \in 0 .. W
    BY <1>3 DEF Receiving, FifoFits
  <2>2. fifo.readPos % 4 = 0 /\ (fifo.size + 0) % 4 = 0 /\ iop.counter % 4 = 0
    BY DEF IInv, Flow, Aligned
  <2> QED
    BY <2>1, <2>2, SizeOfFifo
<1>5. Ends => /\ iop.end => iop.pkt # NoPkt /\ packet[iop.pkt].iopEnd
              /\ iop.busy => iop.tr
              /\ iop.irq => /\ iop.tr /\ ~iop.busy /\ iop.counter = 0
                            /\ iop.pkt # NoPkt /\ packet[iop.pkt].iopEnd
  BY DEF Ends
<1> QED
  BY <1>1, <1>2, <1>3, <1>4, <1>5 DEF IopTakes

\* It takes what there is of the packet's words.
LEMMA IopTakesData ==
    ASSUME Types, ~Sif0, NEW s, IopTakes(s), s.iop.busy, s.iop.counter > 0
    PROVE  IopTakes(WriteToIop(s)) /\ WriteToIop(s).iop.busy
<1> DEFINE n == Least(s.iop.counter, s.fifo.size)
           due == s.iop.counter
           c == s.iop.counter - n
           p == s.iop.pkt
           b == s.iop.busy
           m == s.iop.end
           i == s.iop.irq
           o == s.iop
           r == WriteToIop(s)
           x == r.iop
<1>1. /\ o = IopIs(iop.tr, b, m, due, iop.junk, p, i) /\ {b, m, i} \subseteq BOOLEAN
      /\ due \in Nat /\ p \in Pkt \cup {NoPkt} /\ packet \in Programs
      /\ Receiving(packet, s.fifo, p, due, s.got, src)
      /\ s.fifo.readPos % 4 = 0 /\ s.fifo.size % 4 = 0 /\ due % 4 = 0
  BY DEF IopTakes, Types
<1>2. Ends => (m => p # NoPkt /\ packet[p].iopEnd) /\ (b => iop.tr) /\ ~i
  BY DEF IopTakes
<1>3. FifoFits(s.fifo) /\ s.fifo.size \in Nat
  BY <1>1, SizeOfFifo DEF Receiving, FifoFits
<1>4. n \in 0 .. due /\ n <= s.fifo.size /\ n \in 0 .. s.fifo.size /\ n % 4 = 0 /\ n \in Nat
  BY <1>1, <1>3 DEF Least
<1>5. p \in Pkt
  BY <1>1 DEF Receiving, Has
<1>6. c \in Nat /\ c = due - n
  BY <1>1, <1>4
<1>7. /\ r.fifo = Read(s.fifo, n) /\ r.got = s.got \o Oldest(s.fifo, n)
      /\ r = [fifo |-> r.fifo, got |-> r.got, iop |-> r.iop]
      /\ x = [o EXCEPT !.counter = c]
  BY DEF WriteToIop
<1>8. b
  OBVIOUS
<1> HIDE DEF n, due, c, p, b, m, i, o, r
<1>9. c % 4 = 0
  BY ONLY <1>1, <1>4, <1>6
<1>10. x = IopIs(iop.tr, b, m, c, iop.junk, p, i)
  <2> HIDE DEF x
  <2> QED
    BY <1>1, <1>7 DEF IopIs
<1>11. x.tr = iop.tr /\ x.busy = b /\ x.end = m /\ x.counter = c /\ x.pkt = p /\ x.irq = i
  <2> HIDE DEF x
  <2> QED
    BY <1>10, Zenon DEF IopIs
<1>12. r.fifo.readPos % 4 = 0 /\ r.fifo.size % 4 = 0
  <2>1. Read(s.fifo, n).readPos % 4 = 0 /\ Read(s.fifo, n).size = s.fifo.size - n
    BY <1>1, <1>3, <1>4, ReadAligned, ReadFits
  <2>2. (s.fifo.size - n) % 4 = 0
    BY ONLY <1>1, <1>3, <1>4
  <2> QED
    BY <1>7, <2>1, <2>2
<1>13. Receiving(packet, r.fifo, p, due - n, r.got, src)
  BY <1>1, <1>4, <1>5, <1>7, DataTaken
<1>14. Receiving(packet, r.fifo, p, c, r.got, src)
  BY <1>6, <1>13
<1>15. IopTakes(r)
  BY <1>1, <1>2, <1>5, <1>6, <1>7, <1>9, <1>10, <1>11, <1>12, <1>14 DEF IopTakes
<1> QED
  BY <1>8, <1>11, <1>15 DEF r

\* It takes the next packet's tag out of the fifo.
LEMMA IopTakesTag ==
    ASSUME Types, ~Sif0, NEW s, IopTakes(s), s.iop.busy, s.iop.counter = 0, ~s.iop.end,
           s.fifo.size >= 4
    PROVE  IopTakes(ReadTag1(s))
<1> DEFINE w == s.fifo.data[s.fifo.readPos]
           p == IF w.at = -3 THEN w.pkt ELSE NoPkt
           c == IF p = NoPkt THEN 0 ELSE packet[p].words
           m == s.iop.end \/ (p # NoPkt /\ packet[p].iopEnd)
           k == s.iop.pkt
           n == s.iop.counter
           b == s.iop.busy
           e == s.iop.end
           i == s.iop.irq
           o == s.iop
           r == ReadTag1(s)
           x == r.iop
<1>1. /\ o = IopIs(iop.tr, b, e, n, iop.junk, k, i) /\ {b, i} \subseteq BOOLEAN
      /\ k \in Pkt \cup {NoPkt} /\ packet \in Programs
      /\ Receiving(packet, s.fifo, k, 0, s.got, src)
      /\ s.fifo.readPos % 4 = 0 /\ s.fifo.size % 4 = 0
      /\ \A q \in Pkt : packet[q].words % 4 = 0
  BY DEF IopTakes, Types, Sif0
<1>2. Ends => (b => iop.tr) /\ ~i
  BY DEF IopTakes
<1>3. /\ w.at = -3 /\ w.pkt \in Pkt
      /\ Receiving(packet, Read(s.fifo, 4), w.pkt, Full(packet, w.pkt), <<>>, src)
  <2> DEFINE v == w
  <2>1. v = s.fifo.data[s.fifo.readPos]
    OBVIOUS
  <2> HIDE DEF v, k
  <2>2. /\ v.at = -3 /\ v.pkt \in Pkt
        /\ Receiving(packet, Read(s.fifo, 4), v.pkt, Full(packet, v.pkt), <<>>, src)
    BY <1>1, <2>1, TagTaken
  <2> QED
    BY <2>1, <2>2
<1>4. p \in Pkt /\ p # NoPkt /\ p = w.pkt
  BY <1>3 DEF Pkt, NoPkt
<1>5. c = packet[p].words /\ m = packet[p].iopEnd /\ m \in BOOLEAN
  BY <1>1, <1>4 DEF Programs
<1>6. /\ r.fifo = Read(s.fifo, 4) /\ r.got = <<>> /\ r = [fifo |-> r.fifo, got |-> r.got, iop |-> r.iop]
      /\ x = [o EXCEPT !.pkt = p, !.counter = c, !.end = m]
  BY DEF ReadTag1
<1> HIDE DEF w, p, c, m, k, n, b, e, i, o, r
<1>7. c \in Nat /\ c % 4 = 0 /\ Full(packet, p) = c
  BY <1>1, <1>4, <1>5, FullIs
<1>8. x = IopIs(iop.tr, b, m, c, iop.junk, p, i)
  <2> HIDE DEF x
  <2> QED
    BY <1>1, <1>6 DEF IopIs
<1>9. x.tr = iop.tr /\ x.busy = b /\ x.end = m /\ x.counter = c /\ x.pkt = p /\ x.irq = i
  <2> HIDE DEF x
  <2> QED
    BY <1>8, Zenon DEF IopIs
<1>10. FifoFits(s.fifo) /\ s.fifo.size \in Nat /\ 4 \in 0 .. s.fifo.size
  BY <1>1, SizeOfFifo DEF Receiving, FifoFits
<1>11. r.fifo.readPos % 4 = 0 /\ r.fifo.size % 4 = 0
  <2>1. Read(s.fifo, 4).readPos % 4 = 0 /\ Read(s.fifo, 4).size = s.fifo.size - 4
    <3> DEFINE n4 == 4
    <3>1. n4 \in 0 .. s.fifo.size /\ n4 % 4 = 0
      BY <1>10
    <3> HIDE DEF n4
    <3>2. Read(s.fifo, n4).readPos % 4 = 0 /\ Read(s.fifo, n4).size = s.fifo.size - n4
      BY <1>1, <1>10, <3>1, ReadAligned, ReadFits
    <3> QED
      BY <3>2 DEF n4
  <2>2. (s.fifo.size - 4) % 4 = 0
    BY ONLY <1>1, <1>10
  <2> QED
    BY <1>6, <2>1, <2>2
<1>12. Receiving(packet, r.fifo, p, c, r.got, src)
  BY <1>3, <1>4, <1>6, <1>7
<1>13. IopTakes(r)
  BY <1>1, <1>2, <1>4, <1>5, <1>6, <1>7, <1>8, <1>9, <1>11, <1>12 DEF IopTakes
<1> QED
  BY <1>13 DEF r

\* It ends, with the interrupt.
LEMMA IopTakesEnd ==
    ASSUME Types, NEW s, IopTakes(s), s.iop.busy, s.iop.counter = 0, s.iop.end,
           NEW r, r = [s EXCEPT !.iop = EndOfIop(s.iop)]
    PROVE  IopTakes(r)
<1> DEFINE p == s.iop.pkt
           c == s.iop.counter
           b == s.iop.busy
           e == s.iop.end
           i == s.iop.irq
           o == s.iop
           x == r.iop
<1>1. /\ o = IopIs(iop.tr, b, e, c, iop.junk, p, i)
      /\ s = [fifo |-> s.fifo, got |-> s.got, iop |-> s.iop]
      /\ p \in Pkt \cup {NoPkt} /\ c = 0 /\ c \in Nat /\ c % 4 = 0
      /\ Receiving(packet, s.fifo, p, c, s.got, src)
      /\ s.fifo.readPos % 4 = 0 /\ s.fifo.size % 4 = 0
  BY DEF IopTakes
<1>2. Ends => iop.tr /\ p # NoPkt /\ packet[p].iopEnd
  BY DEF IopTakes
<1>3. /\ r.fifo = s.fifo /\ r.got = s.got /\ r = [fifo |-> r.fifo, got |-> r.got, iop |-> r.iop]
      /\ x = [o EXCEPT !.busy = FALSE, !.end = FALSE, !.irq = TRUE]
  BY <1>1 DEF EndOfIop
<1> HIDE DEF p, c, b, e, i, o
<1>4. x = IopIs(iop.tr, FALSE, FALSE, c, iop.junk, p, TRUE)
  <2> HIDE DEF x
  <2> QED
    BY <1>1, <1>3 DEF IopIs
<1>5. x.tr = iop.tr /\ x.busy = FALSE /\ x.end = FALSE /\ x.counter = c /\ x.pkt = p /\ x.irq = TRUE
  <2> HIDE DEF x
  <2> QED
    BY <1>4, Zenon DEF IopIs
<1>6. r.iop = IopIs(iop.tr, r.iop.busy, r.iop.end, r.iop.counter, iop.junk, r.iop.pkt, r.iop.irq)
  BY <1>4, <1>5
<1>7. Receiving(packet, r.fifo, r.iop.pkt, r.iop.counter, r.got, src)
  BY <1>1, <1>3, <1>5
<1> QED
  BY <1>1, <1>2, <1>3, <1>5, <1>6, <1>7 DEF IopTakes

\* The IOP takes data, and its packet's end or the next tag.
LEMMA KeptByHandleIop1 == IInv /\ HandleIop1 => IInv'
<1> SUFFICES ASSUME IInv, HandleIop1 PROVE IInv'
  OBVIOUS
<1> DEFINE now  == [fifo |-> fifo, iop |-> iop, got |-> got]
           read == IF iop.counter > 0 /\ fifo.size > 0 THEN WriteToIop(now) ELSE now
           over == [read EXCEPT !.iop = EndOfIop(@)]
           next == CASE read.iop.counter > 0 -> read
                     [] read.iop.counter = 0 /\ read.iop.end -> over
                     [] read.iop.counter = 0 /\ ~read.iop.end /\ read.fifo.size >= 4 -> ReadTag1(read)
                     [] OTHER -> read
<1>1. /\ ~Sif0 /\ IopTurn(TRUE)
      /\ fifo' = next.fifo /\ iop' = next.iop /\ got' = next.got
      /\ UNCHANGED <<channel, packet, ee, src, dmac>>
  BY DEF HandleIop1
<1>2. Types /\ Flow /\ Turns
  BY DEF IInv
<1>3. iop.busy /\ pass' = "ee" /\ did' = TRUE
  BY <1>1 DEF IopTurn, IopCanMove
<1>4. IopTakes(now) /\ now.iop.busy /\ now.iop = iop
  BY <1>1, <1>3, IopTakesNow
<1>5. IopTakes(read) /\ read.iop.busy
  <2>1. CASE iop.counter > 0 /\ fifo.size > 0
    <3> HIDE DEF now
    <3>1. now.iop.counter > 0
      BY <1>4, <2>1
    <3>2. IopTakes(WriteToIop(now)) /\ WriteToIop(now).iop.busy
      BY <1>1, <1>2, <1>4, <3>1, IopTakesData
    <3> QED
      BY <2>1, <3>2
  <2>2. CASE ~(iop.counter > 0 /\ fifo.size > 0)
    BY <1>4, <2>2
  <2> QED
    BY <2>1, <2>2
<1>6. over = [read EXCEPT !.iop = EndOfIop(read.iop)]
  OBVIOUS
<1> HIDE DEF now, read, over
<1>7. read.iop.counter \in Nat /\ read.iop.end \in BOOLEAN
  BY <1>5 DEF IopTakes
<1>8. IopTakes(next)
  <2>1. CASE read.iop.counter > 0
    <3>1. ~(read.iop.counter = 0)
      BY <1>7, <2>1
    <3> QED
      BY <1>5, <2>1, <3>1
  <2>2. CASE read.iop.counter = 0 /\ read.iop.end
    <3>1. IopTakes(over)
      BY <1>2, <1>5, <1>6, <2>2, IopTakesEnd
    <3> QED
      BY <2>2, <3>1
  <2>3. CASE read.iop.counter = 0 /\ ~read.iop.end /\ read.fifo.size >= 4
    <3>1. IopTakes(ReadTag1(read))
      BY <1>1, <1>2, <1>5, <2>3, IopTakesTag
    <3> QED
      BY <2>3, <3>1
  <2>4. CASE read.iop.counter = 0 /\ ~read.iop.end /\ ~(read.fifo.size >= 4)
    BY <1>5, <2>4
  <2> QED
    BY <1>7, <2>1, <2>2, <2>3, <2>4
<1> HIDE DEF next
<1> DEFINE b == iop'.busy
           m == iop'.end
           c == iop'.counter
           p == iop'.pkt
           i == iop'.irq
<1>9. /\ iop' = IopIs(iop.tr, b, m, c, iop.junk, p, i) /\ {b, m, i} \subseteq BOOLEAN
      /\ c \in Nat /\ p \in Pkt \cup {NoPkt}
      /\ Receiving(packet, fifo', p, c, got', src)
      /\ fifo'.readPos % 4 = 0 /\ fifo'.size % 4 = 0 /\ c % 4 = 0 /\ fifo'.size \in Int
  <2>1. Receiving(packet, fifo', p, c, got', src)
    BY <1>1, <1>8 DEF IopTakes
  <2>2. fifo'.size \in Int
    BY <2>1, SizeOfFifo DEF Receiving, FifoFits
  <2> QED
    BY <1>1, <1>8, <2>1, <2>2 DEF IopTakes
<1>10. Ends => /\ m => p # NoPkt /\ packet[p].iopEnd
               /\ b => iop.tr
               /\ i => iop.tr /\ ~b /\ c = 0 /\ p # NoPkt /\ packet[p].iopEnd
  BY <1>1, <1>8 DEF IopTakes
<1>11. iop'.tr = iop.tr /\ iop'.junk = iop.junk
  <2> HIDE DEF b, m, c, p, i
  <2> QED
    BY <1>9, Zenon DEF IopIs
<1>12. Types'
  BY <1>1, <1>2, <1>9, <1>11 DEF Types, IopTurn
<1>13. InTransit'
  BY <1>1, <1>9 DEF InTransit, Sent, Received, StillDue, Sif0
<1>14. Sending'
  BY <1>1, <1>2 DEF Flow, Sending, Sif0
<1>15. Aligned'
  <2>1. (fifo'.size + 0) % 4 = 0
    BY <1>9
  <2> QED
    BY <1>1, <1>9, <2>1 DEF Aligned, Sif0
<1>16. Turns'
  BY <1>1, <1>3 DEF Turns, Rest, Sif0
<1>17. Ends => Ends'
  BY <1>1, <1>10, <1>11 DEF Ends, Sif0
<1>18. SenderEnds => SenderEnds'
  BY <1>1 DEF SenderEnds, Sif0
<1> QED
  BY <1>12, <1>13, <1>14, <1>15, <1>16, <1>17, <1>18 DEF IInv, Flow

-----------------------------------------------------------------------------
(* The invariant, and what it gives *)

\* The invariant holds at the start: nothing sent, nothing received.
LEMMA IInvInit == Init => IInv
<1> SUFFICES ASSUME Init PROVE IInv
  OBVIOUS
<1>1. /\ channel \in {"sif0", "sif1"}
      /\ packet \in [Pkt -> [words : Sizes(channel), eeEnd : BOOLEAN, iopEnd : BOOLEAN]]
      /\ fifo = [data |-> [i \in 0 .. W - 1 |-> NoWord], readPos |-> 0, writePos |-> 0, size |-> 0]
      /\ ee = EeIs(FALSE, FALSE, FALSE, 0, "more", NoPkt, FALSE, FALSE)
      /\ iop = IopIs(FALSE, FALSE, FALSE, 0, 0, IF channel = "sif0" THEN Packets - 1 ELSE NoPkt, FALSE)
      /\ src = Word(0, -3) /\ got = <<>>
      /\ dmac = TRUE /\ pass = "rest" /\ did = FALSE
  BY DEF Init, EeIs, IopIs
<1>2. /\ ee.str = FALSE /\ ee.busy = FALSE /\ ee.end = FALSE /\ ee.qwc = 0
      /\ ee.tag = "more" /\ ee.pkt = NoPkt /\ ee.irq = FALSE /\ ee.queued = FALSE
  BY <1>1, Zenon DEF EeIs
<1>3. /\ iop.tr = FALSE /\ iop.busy = FALSE /\ iop.end = FALSE /\ iop.counter = 0
      /\ iop.junk = 0 /\ iop.irq = FALSE
      /\ iop.pkt = IF channel = "sif0" THEN Packets - 1 ELSE NoPkt
  BY <1>1, Zenon DEF IopIs
<1>4. Packets - 1 \in Pkt /\ 0 \in Pkt /\ (Packets - 1 + 1) % Packets = 0
  BY PacketsAssumption DEF Pkt
<1>5. /\ packet \in Programs
      /\ channel = "sif1" => \A p \in Pkt : packet[p].words % 4 = 0
  <2>1. Sizes(channel) \subseteq Nat \ {0} /\ (channel = "sif1" => \A w \in Sizes(channel) : w % 4 = 0)
    BY <1>1, AmountsAssumption DEF Sizes
  <2> DEFINE Z == Sizes(channel)
  <2>2. packet \in [Pkt -> [words : Z, eeEnd : BOOLEAN, iopEnd : BOOLEAN]]
    BY <1>1
  <2> HIDE DEF Z
  <2>3. \A p \in Pkt : packet[p] \in [words : Z, eeEnd : BOOLEAN, iopEnd : BOOLEAN]
    BY <2>2
  <2>4. \A p \in Pkt : packet[p].words \in Z
    BY <2>3
  <2>5. Z \subseteq Nat \ {0} /\ (channel = "sif1" => \A w \in Z : w % 4 = 0)
    BY <2>1 DEF Z
  <2>6. packet \in Programs
    BY <2>2, <2>5 DEF Programs
  <2> QED
    BY <2>4, <2>5, <2>6
<1>6. Types
  <2>1. ee = EeIs(ee.str, ee.busy, ee.end, ee.qwc, ee.tag, ee.pkt, ee.irq, ee.queued)
    BY <1>1, <1>2
  <2>2. iop = IopIs(iop.tr, iop.busy, iop.end, iop.counter, iop.junk, iop.pkt, iop.irq)
    BY <1>1, <1>3
  <2>3. {ee.str, ee.busy, ee.end, ee.irq, ee.queued} \subseteq BOOLEAN
        /\ {iop.tr, iop.busy, iop.end, iop.irq} \subseteq BOOLEAN
    BY <1>2, <1>3
  <2>4. /\ ee.qwc \in Nat /\ ee.tag \in {"more", "end", "irq"} /\ ee.pkt \in Pkt \cup {NoPkt}
        /\ iop.counter \in Nat /\ iop.junk \in Nat /\ iop.pkt \in Pkt \cup {NoPkt}
    BY <1>2, <1>3, <1>4
  <2>5. channel \in {"sif0", "sif1"} /\ did \in BOOLEAN /\ dmac \in BOOLEAN
        /\ pass \in {"rest", "junk", "iop", "ee"}
    BY <1>1
  <2> QED
    BY <1>5, <2>1, <2>2, <2>3, <2>4, <2>5 DEF Types
<1>7. fifo.size = 0 /\ fifo.readPos = 0 /\ FifoFits(fifo)
  <2>1. fifo.size = 0 /\ fifo.readPos = 0 /\ fifo.writePos = 0
        /\ fifo = [data |-> fifo.data, readPos |-> fifo.readPos, writePos |-> fifo.writePos,
                   size |-> fifo.size]
    BY <1>1
  <2> QED
    BY <2>1, SizeOfFifo DEF FifoFits
<1>8. Sent = Word(0, -3) /\ Sending
  <2>1. CASE Sif0
    <3>1. /\ iop.pkt = Packets - 1
          /\ Full(packet, Packets - 1) \in Nat /\ packet[Packets - 1].words \in Nat
      BY <1>3, <1>4, <1>5, <2>1, FullIs DEF Sif0
    <3>2. IopAt = Full(packet, Packets - 1) + 1
      BY <1>3, <3>1 DEF IopAt
    <3>3. Sent = Word(0, -3)
      BY <1>4, <2>1, <3>1, <3>2 DEF Sent, PlaceOf
    <3> QED
      BY <1>3, <1>4, <2>1, <3>1, <3>3 DEF Sending
  <2>2. CASE ~Sif0
    <3>1. packet[0].words \in Nat
      BY <1>4, <1>5, FullIs
    <3>2. src \in Place /\ src.at <= packet[src.pkt].words
      BY <1>1, <1>4, <3>1 DEF Word, Place
    <3> QED
      BY <1>1, <2>2, <3>2 DEF Sending, Sent
  <2> QED
    BY <2>1, <2>2
<1>9. Received = NoPkt /\ StillDue = 0
  <2>1. ee.pkt = NoPkt /\ ee.qwc = 0 /\ iop.counter = 0 /\ (~Sif0 => iop.pkt = NoPkt)
    BY <1>2, <1>3 DEF Sif0
  <2>2. Received = NoPkt
    BY <2>1 DEF Received
  <2>3. StillDue = 0
    BY <2>1 DEF StillDue
  <2> QED
    BY <2>2, <2>3
<1>10. InTransit
  <2> DEFINE c == [i \in 0 .. 0 |-> Word(0, -3)]
  <2>1. c \in [0 .. 0 -> Place] /\ c[0] = Word(0, -3)
    BY <1>4 DEF Word, Place
  <2>2. Row(packet, c, 0)
    BY DEF Row
  <2> HIDE DEF c
  <2>3. Carries(packet, fifo, Word(0, -3), Word(0, -3))
    BY <1>7, <2>1, <2>2 DEF Carries
  <2>4. NextFor(packet, Received, StillDue) = Word(0, -3) /\ Has(packet, got, Received, StillDue)
    BY <1>1, <1>9 DEF NextFor, Has
  <2> QED
    BY <1>7, <1>8, <2>3, <2>4 DEF InTransit, Receiving
<1>11. Aligned
  BY <1>3, <1>7 DEF Aligned
<1>12. Turns
  <2>1. ~EeCanMove /\ ~IopCanMove
    BY <1>2, <1>3 DEF EeCanMove, IopCanMove
  <2>2. ~(iop.counter > 0) /\ ~(iop.junk > 0)
    BY <1>3
  <2> QED
    BY <1>1, <2>1, <2>2 DEF Turns
<1>13. Ends /\ SenderEnds
  BY <1>2, <1>3 DEF Ends, SenderEnds
<1> QED
  BY <1>6, <1>8, <1>10, <1>11, <1>12, <1>13 DEF IInv, Flow

\* Every step keeps it.
LEMMA IInvStep == IInv /\ [Next]_vars => IInv'
<1> SUFFICES ASSUME IInv, [Next]_vars PROVE IInv'
  OBVIOUS
<1>1. CASE DmaStep
  <2>1. CASE JunkTurn BY <2>1, KeptByJunkTurn
  <2>2. CASE NoTurn BY <2>2, KeptByNoTurn
  <2>3. CASE EeStopped BY <2>3, KeptByEeStopped
  <2>4. CASE EndEE BY <2>4, KeptByEndEE
  <2>5. CASE HandleEe0 BY <2>5, KeptByHandleEe0
  <2>6. CASE WriteEEtoFifo BY <2>6, KeptByWriteEEtoFifo
  <2>7. CASE EndIOP0 BY <2>7, KeptByEndIOP0
  <2>8. CASE ProcessIOPTag0 BY <2>8, KeptByProcessIOPTag0
  <2>9. CASE WriteIOPtoFifo BY <2>9, KeptByWriteIOPtoFifo
  <2>10. CASE HandleIop1 BY <2>10, KeptByHandleIop1
  <2>11. CASE \E n \in Chunks, tag \in {"more", "end", "irq"} : ProcessEETag1(n, tag)
    BY <2>11, KeptByProcessEETag1
  <2> QED
    BY <1>1, <2>1, <2>2, <2>3, <2>4, <2>5, <2>6, <2>7, <2>8, <2>9, <2>10, <2>11 DEF DmaStep
<1>2. CASE Processors
  <2>1. CASE StartEe BY <2>1, KeptByStartEe
  <2>2. CASE ForceStop BY <2>2, KeptByForceStop
  <2>3. CASE DisableDmac BY <2>3, KeptByDisableDmac
  <2>4. CASE EnableDmac BY <2>4, KeptByEnableDmac
  <2>5. CASE EeInterrupt BY <2>5, KeptByEeInterrupt
  <2>6. CASE StartIop BY <2>6, KeptByStartIop
  <2>7. CASE IopInterrupt BY <2>7, KeptByIopInterrupt
  <2> QED
    BY <1>2, <2>1, <2>2, <2>3, <2>4, <2>5, <2>6, <2>7 DEF Processors
<1>3. CASE UNCHANGED vars
  <2>1. UNCHANGED <<channel, packet, fifo, ee, iop, src, got, dmac, pass, did>>
    BY <1>3 DEF vars
  <2>2. Types' /\ Turns'
    BY <2>1 DEF IInv, Types, Turns, Rest, EeCanMove, IopCanMove, Sif0, Free
  <2>3. Flow'
    BY <2>1, FlowStill DEF IInv, Still
  <2>4. (Ends => Ends') /\ (SenderEnds => SenderEnds')
    BY <2>1 DEF Ends, SenderEnds, Sif0
  <2> QED
    BY <2>2, <2>3, <2>4 DEF IInv
<1> QED
  BY <1>1, <1>2, <1>3 DEF Next

\* What is under way in the SIF is always the stretch of the packets between the
\* receiver and the sender (Sif.cpp, Sif0.cpp, Sif1.cpp), and the rest of the
\* inductive invariant.
THEOREM SifInvariant == Spec => []IInv
<1>1. Init => IInv
  BY IInvInit
<1>2. IInv /\ [Next]_vars => IInv'
  BY IInvStep
<1> QED
  BY <1>1, <1>2, PTL DEF Spec

\* However the ends are started and stopped, a packet arrives in order, its junk
\* included (WriteFifoToEE of Sif0.cpp, WriteFifoToIOP of Sif1.cpp).
THEOREM ArrivesInOrderCorrect == Spec => []ArrivesInOrder
<1>1. IInv => ArrivesInOrder
  <2> SUFFICES ASSUME IInv PROVE ArrivesInOrder
    OBVIOUS
  <2> DEFINE p == Received
             due == StillDue
  <2>1. packet \in Programs /\ p \in Pkt \cup {NoPkt} /\ Has(packet, got, p, due)
    BY DEF IInv, Types, Flow, InTransit, Receiving, Received
  <2>2. CASE p = NoPkt
    BY <2>1, <2>2 DEF Has, ArrivesInOrder
  <2>3. CASE p # NoPkt
    <3> HIDE DEF p, due
    <3>1. p \in Pkt /\ packet = packet
      BY <2>1, <2>3
    <3>2. got = SubSeq(Expected(p), 1, Len(Expected(p)) - due)
      BY <2>1, <3>1, HasIsExpected
    <3> QED
      BY <2>3, <3>2 DEF ArrivesInOrder, p, due
  <2> QED
    BY <2>2, <2>3
<1> QED
  BY <1>1, SifInvariant, PTL

\* An interrupt of the receiver is for a packet that is there to the last word
\* (EndEE of Sif0.cpp, EndIOP of Sif1.cpp), if no channel left busy is started
\* while the DMAC is disabled.
THEOREM InterruptMeansArrivedCorrect ==
    ASSUME StaleBusy = FALSE PROVE Spec => []InterruptMeansArrived
<1>1. IInv => InterruptMeansArrived
  <2> SUFFICES ASSUME IInv, IF Sif0 THEN ee.irq ELSE iop.irq
               PROVE  /\ Received # NoPkt /\ got = Expected(Received)
                      /\ IF Sif0 THEN packet[Received].eeEnd ELSE packet[Received].iopEnd
    BY DEF InterruptMeansArrived
  <2> DEFINE p == Received
             due == StillDue
  <2>1. packet \in Programs /\ p \in Pkt \cup {NoPkt} /\ Has(packet, got, p, due)
    BY DEF IInv, Types, Flow, InTransit, Receiving, Received
  <2>2. due = 0 /\ p # NoPkt /\ IF Sif0 THEN packet[p].eeEnd ELSE packet[p].iopEnd
    BY DEF IInv, Ends, Received, StillDue
  <2> HIDE DEF p, due
  <2>3. p \in Pkt /\ packet = packet
    BY <2>1, <2>2
  <2>4. got = Expected(p)
    BY <2>1, <2>2, <2>3, HasIsExpected
  <2> QED
    BY <2>2, <2>4 DEF p
<1> QED
  BY <1>1, SifInvariant, PTL

\* When SIF0Dma or SIF1Dma has returned, an end that is still busy waits for the
\* other with good reason: never both for each other.
THEOREM WaitsForTheOtherCorrect == Spec => []WaitsForTheOther
<1>1. IInv => WaitsForTheOther
  <2> SUFFICES ASSUME IInv, Rest
               PROVE  /\ fifo.size % 4 = 0
                      /\ (IF Sif0 THEN ee.busy ELSE iop.busy) => fifo.size = 0
                      /\ (IF Sif0 THEN iop.busy ELSE ee.busy) => fifo.size = W
    BY DEF WaitsForTheOther
  <2> DEFINE z == fifo.size
  <2>1. z \in 0 .. W /\ z \in Int
    BY SizeOfFifo DEF IInv, Flow, InTransit, Receiving, FifoFits
  <2>2. iop.counter \in Nat /\ iop.junk \in Nat
    BY DEF IInv, Types
  <2>3. CASE Sif0
    <3>1. /\ ee.busy => ~(z >= 4)
          /\ iop.busy => ~(W - z > 0)
          /\ iop.counter > 0 => iop.busy
          /\ ~(iop.counter = 0 /\ iop.junk > 0)
      BY <2>3 DEF IInv, Turns, Rest, EeCanMove, IopCanMove, Free
    <3>2. (z + (iop.counter + iop.junk)) % 4 = 0
      BY <2>3 DEF IInv, Flow, Aligned
    <3>3. iop.busy => z = W
      BY <2>1, <3>1, SizeOfFifo
    <3>4. z % 4 = 0
      <4>1. CASE iop.counter > 0
        BY <3>1, <3>3, <4>1, SizeOfFifo
      <4>2. CASE iop.counter = 0
        <5>1. z + (iop.counter + iop.junk) = z
          BY <2>1, <2>2, <3>1, <4>2
        <5> QED
          BY <3>2, <5>1
      <4> QED
        BY <2>2, <4>1, <4>2
    <3>5. ee.busy => z = 0
      BY <2>1, <3>1, <3>4, SizeOfFifo
    <3> QED
      BY <2>3, <3>3, <3>4, <3>5
  <2>4. CASE ~Sif0
    <3>1. /\ iop.busy => ~(z >= 4)
          /\ ee.busy => ~(W - z > 0)
      BY <2>4 DEF IInv, Turns, Rest, EeCanMove, IopCanMove, Free
    <3>2. (z + 0) % 4 = 0
      BY <2>4 DEF IInv, Flow, Aligned
    <3>3. z % 4 = 0
      BY <2>1, <3>2
    <3> QED
      BY <2>1, <2>4, <3>1, <3>3, SizeOfFifo
  <2> QED
    BY <2>3, <2>4
<1> QED
  BY <1>1, SifInvariant, PTL

\* An interrupt of the sender is for a last packet or tag that is wholly in the
\* fifo, junk included (EndIOP of Sif0.cpp, EndEE of Sif1.cpp), whatever the TIE
\* bits, if no channel left busy is started while the DMAC is disabled.
THEOREM InterruptMeansSentCorrect ==
    ASSUME StaleBusy = FALSE PROVE Spec => []InterruptMeansSent
<1>1. IInv => InterruptMeansSent
  BY DEF IInv, SenderEnds, InterruptMeansSent
<1> QED
  BY <1>1, SifInvariant, PTL
====
