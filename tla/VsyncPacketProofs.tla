---- MODULE VsyncPacketProofs ----
(***************************************************************************)
(* A vsync packet for every size of the ring and of the registers, placed  *)
(* so that its last two quadwords do not straddle the end of the ring.     *)
(* Places in the ring are counted from s_ReadPos on.                       *)
(***************************************************************************)
EXTENDS VsyncPacket, SequenceTheorems, TLAPS

Positions == 0 .. RingSize - 1

\* The quadword that lies d behind r, and where the n-th packet begins.
Cell(r, d) == Wrapped(r + d)
Before(n) == n * PacketQuads

\* A frame's registers, its last two quadwords, and all of it, d behind r.
HasRegs(m, r, d, f) ==
    /\ \A i \in 0 .. RegQuads - 1 : m[Cell(r, d + 1 + i)] = Content("reg", i, f)
    /\ Cell(r, d + 1 + RegQuads) # RingSize - 1
HasRest(m, r, d, f) ==
    /\ m[Cell(r, d + 1 + RegQuads)] = Content("csr", 0, f)
    /\ m[Cell(r, d + 2 + RegQuads)] = Content("written", 0, f)

\* Packets that are published.
Published == IF ee = "remainder" THEN Len(sent) - 1 ELSE Len(sent)

Types ==
    /\ memory = [q \in Quads |-> memory[q]]
    /\ readPos \in Positions /\ writePos \in Positions
    /\ sent \in Seq(Frames)
    /\ ee \in {"idle", "remainder"} /\ gs \in {"idle", "remainder", "advance"}
    /\ ee = "remainder" => sent # <<>>

\* The packets lie one behind the other and leave a quadword free ...
Placed ==
    /\ writePos = Cell(readPos, Before(Published))
    /\ Before(Len(sent)) < RingSize

\* ... each whole, but for the one being written.
Stored ==
    /\ \A i \in 1 .. Len(sent) : HasRegs(memory, readPos, Before(i - 1), sent[i])
    /\ \A i \in 1 .. Published : HasRest(memory, readPos, Before(i - 1), sent[i])

\* What the GS thread has of the oldest packet.
Taken ==
    /\ gs # "idle" => Published > 0
    /\ gs = "remainder" =>
        \A i \in 0 .. RegQuads - 1 : memory[RingSize + i] = Content("reg", i, sent[1])
    /\ got = (IF gs = "advance" THEN <<sent[1], Frame(sent[1])>> ELSE <<>>)

IInv == Types /\ Placed /\ Stored /\ Taken

-----------------------------------------------------------------------------
(* Places in the ring *)

\* The sizes, as numbers.
LEMMA Sizes ==
    /\ RingSize \in Nat /\ RegQuads \in Nat /\ RegQuads > 0
    /\ PacketQuads \in Nat /\ PacketQuads = RegQuads + 3 /\ PacketQuads < RingSize
BY SizeAssumption DEF PacketQuads

\* The mask brings back a position that ran off the ring.
LEMMA WrapIs ==
    ASSUME NEW p \in 0 .. 2 * RingSize - 1
    PROVE  Wrapped(p) = IF p < RingSize THEN p ELSE p - RingSize
<1>1. RingSize \in Nat /\ RingSize > 0
  BY Sizes
<1>2. CASE p < RingSize
  BY <1>1, <1>2 DEF Wrapped
<1>3. CASE p >= RingSize
  BY <1>1, <1>3 DEF Wrapped
<1> QED
  BY <1>1, <1>2, <1>3

\* The cells from r on once round, and that they are all different.
LEMMA CellIs ==
    ASSUME NEW r \in Positions, NEW d \in Positions
    PROVE  /\ Cell(r, d) \in Positions /\ Cell(r, d) \in Quads
           /\ Cell(r, d) = IF r + d < RingSize THEN r + d ELSE r + d - RingSize
<1>1. RingSize \in Nat /\ RingSize > 0 /\ RegQuads \in Nat
      /\ r \in Nat /\ d \in Nat /\ r < RingSize /\ d < RingSize
  BY Sizes DEF Positions
<1> DEFINE x == r + d
<1>2. x \in 0 .. 2 * RingSize - 1
  BY <1>1
<1> HIDE DEF x
<1>3. Wrapped(x) = IF x < RingSize THEN x ELSE x - RingSize
  BY <1>2, WrapIs
<1> QED
  BY <1>1, <1>3 DEF x, Cell, Positions, Quads

\* Two cells less than a round apart are two cells.
LEMMA CellsDiffer ==
    ASSUME NEW r \in Positions, NEW d \in Positions, NEW e \in Positions,
           Cell(r, d) = Cell(r, e)
    PROVE  d = e
<1>1. /\ Cell(r, d) = IF r + d < RingSize THEN r + d ELSE r + d - RingSize
      /\ Cell(r, e) = IF r + e < RingSize THEN r + e ELSE r + e - RingSize
  BY CellIs
<1>2. /\ r \in Nat /\ d \in Nat /\ e \in Nat /\ RingSize \in Nat
      /\ r < RingSize /\ d < RingSize /\ e < RingSize
  BY Sizes DEF Positions
<1>3. (IF r + d < RingSize THEN r + d ELSE r + d - RingSize)
      = (IF r + e < RingSize THEN r + e ELSE r + e - RingSize)
  BY <1>1
<1> QED
  BY <1>2, <1>3

\* Going on from a cell.
LEMMA CellOfCell ==
    ASSUME NEW r \in Positions, NEW d \in Nat, NEW e \in Nat, d + e < RingSize
    PROVE  Cell(Cell(r, d), e) = Cell(r, d + e)
<1>1. d \in Positions /\ e \in Positions /\ d + e \in Positions
  BY Sizes DEF Positions
<1>2. Cell(r, d) \in Positions
  BY <1>1, CellIs
<1>3. /\ Cell(r, d) = IF r + d < RingSize THEN r + d ELSE r + d - RingSize
      /\ Cell(r, d + e) = IF r + (d + e) < RingSize THEN r + (d + e) ELSE r + (d + e) - RingSize
      /\ Cell(Cell(r, d), e) = IF Cell(r, d) + e < RingSize THEN Cell(r, d) + e
                               ELSE Cell(r, d) + e - RingSize
  BY <1>1, <1>2, CellIs
<1>4. r \in Nat /\ r < RingSize /\ RingSize \in Nat
  BY Sizes DEF Positions
<1> QED
  BY <1>3, <1>4

\* Where a packet that begins d behind r is copied to and from.
LEMMA CopyIs ==
    ASSUME NEW r \in Positions, NEW d \in Nat, d + PacketQuads < RingSize
    PROVE  /\ \A i \in 0 .. RegQuads - 1 :
                CopyTarget(Wrapped(Cell(r, d) + 1), i) = Cell(r, d + 1 + i)
           /\ Remainder(Cell(r, d)) = Cell(r, d + 1 + RegQuads)
           /\ Remainder(Cell(r, d)) # RingSize - 1 =>
                Remainder(Cell(r, d)) + 1 = Cell(r, d + 2 + RegQuads)
           /\ Wrapped(Remainder(Cell(r, d)) + 2) = Cell(r, d + PacketQuads)
<1> DEFINE a == Wrapped(Cell(r, d) + 1)
<1>1. /\ RingSize \in Nat /\ RegQuads \in Nat /\ r \in Nat /\ r < RingSize
      /\ PacketQuads = RegQuads + 3 /\ RegQuads > 0
  BY Sizes DEF Positions
<1>2. a = Cell(r, d + 1)
  BY <1>1, CellOfCell DEF Cell
<1> HIDE DEF a
<1>3. ASSUME NEW e \in Nat, d + e < RingSize
      PROVE  /\ Cell(r, d + e) = IF r + (d + e) < RingSize THEN r + (d + e)
                                 ELSE r + (d + e) - RingSize
             /\ Cell(r, d + e) \in Positions
  <2>1. d + e \in Positions
    BY <1>1, <1>3 DEF Positions
  <2> QED
    BY <2>1, CellIs
<1>4. /\ a = IF r + (d + 1) < RingSize THEN r + (d + 1) ELSE r + (d + 1) - RingSize
      /\ a \in Nat /\ a < RingSize
  <2>1. 1 \in Nat /\ d + 1 < RingSize
    BY <1>1
  <2> QED
    BY <1>1, <1>2, <1>3, <2>1 DEF Positions
<1>5. ASSUME NEW i \in 0 .. RegQuads - 1 PROVE CopyTarget(a, i) = Cell(r, d + 1 + i)
  <2>1. 1 + i \in Nat /\ d + (1 + i) < RingSize /\ d + (1 + i) = d + 1 + i
    BY <1>1
  <2>2. Cell(r, d + 1 + i) = IF r + (d + 1 + i) < RingSize THEN r + (d + 1 + i)
                             ELSE r + (d + 1 + i) - RingSize
    BY <2>1, <1>3
  <2> QED
    BY <1>1, <1>4, <2>1, <2>2 DEF CopyTarget
<1>6. CopyEnd(a) = Cell(r, d + 1 + RegQuads) /\ CopyEnd(a) \in Positions
  <2>1. 1 + RegQuads \in Nat /\ d + (1 + RegQuads) < RingSize
        /\ d + (1 + RegQuads) = d + 1 + RegQuads
    BY <1>1
  <2>4. /\ Cell(r, d + 1 + RegQuads) = IF r + (d + 1 + RegQuads) < RingSize
                                       THEN r + (d + 1 + RegQuads)
                                       ELSE r + (d + 1 + RegQuads) - RingSize
        /\ Cell(r, d + 1 + RegQuads) \in Positions
    BY <2>1, <1>3
  <2>2. CASE a + RegQuads < RingSize
    BY <1>1, <1>4, <2>2, <2>4 DEF CopyEnd
  <2>3. CASE a + RegQuads >= RingSize
    <3>1. a + RegQuads \in 0 .. 2 * RingSize - 1
      BY <1>1, <1>4
    <3>2. Wrapped(a + RegQuads) = a + RegQuads - RingSize
      BY <1>1, <1>4, <2>3, <3>1, WrapIs
    <3> QED
      BY <1>1, <1>4, <2>3, <2>4, <3>2 DEF CopyEnd
  <2> QED
    BY <1>1, <1>4, <2>2, <2>3
<1>7. Remainder(Cell(r, d)) = CopyEnd(a)
  BY DEF Remainder, a
<1>8. CopyEnd(a) # RingSize - 1 => CopyEnd(a) + 1 = Cell(r, d + 2 + RegQuads)
  <2>1. 1 + RegQuads \in Nat /\ d + (1 + RegQuads) < RingSize
        /\ d + (1 + RegQuads) = d + 1 + RegQuads
        /\ 2 + RegQuads \in Nat /\ d + (2 + RegQuads) < RingSize
        /\ d + (2 + RegQuads) = d + 2 + RegQuads
    BY <1>1
  <2>2. /\ Cell(r, d + 1 + RegQuads) = IF r + (d + 1 + RegQuads) < RingSize
                                       THEN r + (d + 1 + RegQuads)
                                       ELSE r + (d + 1 + RegQuads) - RingSize
        /\ Cell(r, d + 2 + RegQuads) = IF r + (d + 2 + RegQuads) < RingSize
                                       THEN r + (d + 2 + RegQuads)
                                       ELSE r + (d + 2 + RegQuads) - RingSize
    BY <2>1, <1>3
  <2> QED
    BY <1>1, <1>6, <2>1, <2>2
<1>9. Wrapped(CopyEnd(a) + 2) = Cell(r, d + PacketQuads)
  <2>1. d + 1 + RegQuads \in Nat /\ 2 \in Nat /\ d + 1 + RegQuads + 2 < RingSize
        /\ d + 1 + RegQuads + 2 = d + PacketQuads
    BY <1>1
  <2>2. Cell(Cell(r, d + 1 + RegQuads), 2) = Cell(r, d + 1 + RegQuads + 2)
    BY <2>1, CellOfCell
  <2> QED
    BY <1>6, <2>1, <2>2 DEF Cell
<1> QED
  BY <1>5, <1>6, <1>7, <1>8, <1>9 DEF a

\* The packets take the same room each.
LEMMA BeforeIs ==
    /\ Before(0) = 0
    /\ \A n \in Nat : Before(n) \in Nat /\ Before(n + 1) = Before(n) + PacketQuads
    /\ \A m, n \in Nat : m < n => Before(m) + PacketQuads <= Before(n)
<1>1. PacketQuads \in Nat
  BY Sizes
<1> DEFINE P == PacketQuads
<1>2. P \in Nat
  BY <1>1
<1> HIDE DEF P
<1>3. 0 * P = 0 /\ \A n \in Nat : n * P \in Nat /\ (n + 1) * P = n * P + P
  BY <1>2
<1>4. ASSUME NEW m \in Nat, NEW n \in Nat, m < n PROVE m * P + P <= n * P
  <2>1. n - m - 1 \in Nat
    BY <1>4
  <2>2. (n - m - 1) * P >= 0
    BY <1>2, <2>1
  <2>3. (n - m - 1) * P = n * P - m * P - P
    BY <1>2
  <2> QED
    BY <1>2, <1>3, <2>2, <2>3
<1> QED
  BY <1>3, <1>4 DEF Before, P

\* A packet before the n-th ends before the n-th begins.
LEMMA EarlierIs ==
    ASSUME NEW i \in Nat, NEW n \in Nat, i < n, NEW k \in 0 .. PacketQuads - 1
    PROVE  Before(i) + k \in Nat /\ Before(i) + k < Before(n)
<1>1. Before(i) + PacketQuads <= Before(n) /\ Before(i) \in Nat /\ Before(n) \in Nat
  BY BeforeIs
<1> QED
  BY <1>1, Sizes

\* A position is its own first cell.
LEMMA CellZero ==
    ASSUME NEW r \in Positions PROVE Cell(r, 0) = r
<1>1. 0 \in Positions /\ r \in Nat /\ r < RingSize /\ RingSize \in Nat
  BY Sizes DEF Positions
<1>2. Cell(r, 0) = IF r + 0 < RingSize THEN r + 0 ELSE r + 0 - RingSize
  BY <1>1, CellIs
<1> QED
  BY <1>1, <1>2

\* The room taken in the ring is the distance of the positions.
LEMMA FreeIs ==
    ASSUME NEW r \in Positions, NEW d \in Positions
    PROVE  (Cell(r, d) - r) % RingSize = d
<1>1. /\ RingSize \in Nat /\ RingSize > 0
      /\ r \in Nat /\ d \in Nat /\ r < RingSize /\ d < RingSize
  BY Sizes DEF Positions
<1>2. Cell(r, d) = IF r + d < RingSize THEN r + d ELSE r + d - RingSize
  BY CellIs
<1>3. CASE r + d < RingSize
  <2>1. Cell(r, d) - r = d
    BY <1>1, <1>2, <1>3
  <2> QED
    BY <1>1, <2>1
<1>4. CASE r + d >= RingSize
  <2>1. Cell(r, d) - r = d - RingSize
    BY <1>1, <1>2, <1>4
  <2>2. (d - RingSize) % RingSize = d
    BY <1>1
  <2> QED
    BY <2>1, <2>2
<1> QED
  BY <1>1, <1>3, <1>4

\* A packet is where it was when none of its quadwords changed.
LEMMA SameCells ==
    ASSUME NEW m, NEW n, NEW r, NEW s, NEW d \in Nat, NEW e \in Nat, NEW f,
           \A k \in 0 .. PacketQuads - 1 :
             Cell(s, e + k) = Cell(r, d + k) /\ n[Cell(r, d + k)] = m[Cell(r, d + k)]
    PROVE  /\ HasRegs(m, r, d, f) => HasRegs(n, s, e, f)
           /\ HasRest(m, r, d, f) => HasRest(n, s, e, f)
<1>1. /\ RegQuads \in Nat /\ RegQuads > 0 /\ PacketQuads = RegQuads + 3
  BY Sizes
<1>2. ASSUME NEW j \in 0 .. RegQuads + 1
      PROVE  Cell(s, e + 1 + j) = Cell(r, d + 1 + j)
             /\ n[Cell(r, d + 1 + j)] = m[Cell(r, d + 1 + j)]
  <2>1. 1 + j \in 0 .. PacketQuads - 1 /\ d + (1 + j) = d + 1 + j /\ e + (1 + j) = e + 1 + j
    BY <1>1
  <2>2. Cell(s, e + (1 + j)) = Cell(r, d + (1 + j))
        /\ n[Cell(r, d + (1 + j))] = m[Cell(r, d + (1 + j))]
    BY <2>1
  <2> QED
    BY <2>1, <2>2
<1>3. \A i \in 0 .. RegQuads - 1 : i \in 0 .. RegQuads + 1
  BY <1>1
<1>4. RegQuads \in 0 .. RegQuads + 1
  BY <1>1
<1>5. /\ RegQuads + 1 \in 0 .. RegQuads + 1
      /\ d + 1 + (RegQuads + 1) = d + 2 + RegQuads /\ e + 1 + (RegQuads + 1) = e + 2 + RegQuads
  BY <1>1
<1>6. HasRegs(m, r, d, f) => HasRegs(n, s, e, f)
  BY <1>2, <1>3, <1>4 DEF HasRegs
<1>7. HasRest(m, r, d, f) => HasRest(n, s, e, f)
  <2>1. /\ Cell(s, e + 2 + RegQuads) = Cell(r, d + 2 + RegQuads)
        /\ n[Cell(r, d + 2 + RegQuads)] = m[Cell(r, d + 2 + RegQuads)]
    <3>1. Cell(s, e + 1 + (RegQuads + 1)) = Cell(r, d + 1 + (RegQuads + 1))
          /\ n[Cell(r, d + 1 + (RegQuads + 1))] = m[Cell(r, d + 1 + (RegQuads + 1))]
      BY <1>2, <1>5
    <3> QED
      BY <1>5, <3>1
  <2> QED
    BY <1>2, <1>4, <2>1 DEF HasRest
<1> QED
  BY <1>6, <1>7

-----------------------------------------------------------------------------
(* The invariant *)

\* An empty ring, nothing in hand.
LEMMA IInvInit == Init => IInv
<1> SUFFICES ASSUME Init PROVE IInv
  OBVIOUS
<1> USE DEF Init
<1>1. Before(0) = 0 /\ 0 \in Positions /\ 0 < RingSize
  BY BeforeIs, Sizes DEF Positions
<1>2. Types
  BY <1>1 DEF Types
<1>3. Published = 0
  BY DEF Published
<1>4. Placed
  BY <1>1, <1>3, CellZero DEF Placed
<1>5. Stored
  BY <1>3 DEF Stored
<1>6. Taken
  BY DEF Taken
<1> QED
  BY <1>2, <1>4, <1>5, <1>6 DEF IInv

\* What every step starts from.
LEMMA Facts ==
    ASSUME IInv
    PROVE  /\ Len(sent) \in Nat /\ Published \in Nat /\ Published <= Len(sent)
           /\ Len(sent) - 1 <= Published
           /\ \A i \in 0 .. Len(sent) : Before(i) \in Nat /\ Before(i) <= Before(Len(sent))
                                        /\ Before(i) \in Positions
           /\ Before(Published) \in Positions
<1>1. Len(sent) \in Nat /\ (sent # <<>> => Len(sent) > 0)
  BY LenProperties, EmptySeq DEF IInv, Types
<1>2. Published \in Nat /\ Published <= Len(sent) /\ Len(sent) - 1 <= Published
  BY <1>1 DEF IInv, Types, Published
<1>3. ASSUME NEW i \in 0 .. Len(sent)
      PROVE  Before(i) \in Nat /\ Before(i) <= Before(Len(sent)) /\ Before(i) \in Positions
  <2>1. i \in Nat /\ Before(i) \in Nat /\ Before(Len(sent)) \in Nat
    BY <1>1, BeforeIs
  <2>2. i = Len(sent) \/ i < Len(sent)
    BY <1>1
  <2>3. Before(i) <= Before(Len(sent))
    <3>1. CASE i = Len(sent)
      BY <2>1, <3>1
    <3>2. CASE i < Len(sent)
      <4>1. Before(i) + PacketQuads <= Before(Len(sent))
        BY <1>1, <2>1, <3>2, BeforeIs
      <4> QED
        BY <2>1, <4>1, Sizes
    <3> QED
      BY <2>2, <3>1, <3>2
  <2>4. Before(Len(sent)) < RingSize
    BY DEF IInv, Placed
  <2> QED
    BY <2>1, <2>3, <2>4, Sizes DEF Positions
<1> QED
  BY <1>1, <1>2, <1>3

\* A packet of one quadword is put and taken with the ring empty.
LEMMA PostSimpleStep ==
    ASSUME IInv, PostSimple PROVE IInv'
<1> USE DEF PostSimple
<1>1. /\ Len(sent) \in Nat /\ readPos \in Positions /\ Published = Len(sent)
      /\ sent \in Seq(Frames) /\ Before(Len(sent)) \in Positions
  BY Facts DEF IInv, Types, Published
<1>2. Cell(readPos, Before(Len(sent))) = Cell(readPos, 0)
  BY <1>1, CellZero DEF IInv, Placed
<1>3. Len(sent) = 0
  <2>1. 0 \in Positions
    BY Sizes DEF Positions
  <2>2. Before(Len(sent)) = 0
    BY <1>1, <1>2, <2>1, CellsDiffer
  <2>3. ASSUME Len(sent) > 0 PROVE FALSE
    <3>1. Before(0) = 0 /\ Before(0) + PacketQuads <= Before(Len(sent))
      BY <1>1, <2>3, BeforeIs
    <3> QED
      BY <2>2, <3>1, Sizes
  <2> QED
    BY <1>1, <2>3
<1>4. writePos' \in Positions /\ Before(0) = 0 /\ 0 < RingSize
  <2>1. 1 \in Positions
    BY Sizes DEF Positions
  <2> QED
    BY <1>1, <2>1, CellIs, BeforeIs, Sizes DEF Cell
<1>5. Len(sent') = 0 /\ Published' = 0
  BY <1>3 DEF Published
<1>6. Types'
  BY <1>4 DEF IInv, Types
<1>7. Placed'
  <2>1. writePos' = Cell(readPos', Before(Published'))
    BY <1>4, <1>5, CellZero
  <2>2. Before(Len(sent')) < RingSize
    BY <1>4, <1>5
  <2> QED
    BY <2>1, <2>2 DEF Placed
<1>8. Stored'
  BY <1>5 DEF Stored
<1>9. Taken'
  BY DEF IInv, Taken
<1> QED
  BY <1>6, <1>7, <1>8, <1>9 DEF IInv

\* The registers go into room that no earlier packet has.
LEMMA CopyInStep ==
    ASSUME AnyStart = FALSE, IInv, NEW f \in Frames, CopyIn(f) PROVE IInv'
<1> USE DEF CopyIn
<1> DEFINE n == Len(sent)
           d == Before(n)
           data == Wrapped(writePos + 1)
<1>1. /\ n \in Nat /\ Published = n /\ d \in Positions /\ d \in Nat
      /\ readPos \in Positions /\ writePos = Cell(readPos, d) /\ sent \in Seq(Frames)
  BY Facts DEF IInv, Types, Placed, Published
<1>2. d + PacketQuads < RingSize
  <2>1. Free = RingSize - d
    BY <1>1, FreeIs DEF Free
  <2> QED
    BY <1>1, <2>1, Sizes
<1>3. /\ \A i \in 0 .. RegQuads - 1 : CopyTarget(data, i) = Cell(readPos, d + 1 + i)
      /\ Cell(readPos, d + 1 + RegQuads) # RingSize - 1
  BY <1>1, <1>2, CopyIs
<1>4. \A e \in 0 .. d + PacketQuads : e \in Positions
  BY <1>1, <1>2, Sizes DEF Positions
<1>5. ASSUME NEW e \in 0 .. d + PacketQuads, NEW i \in 0 .. RegQuads - 1,
             Cell(readPos, e) = CopyTarget(data, i)
      PROVE  e = d + 1 + i
  <2>1. d + 1 + i \in 0 .. d + PacketQuads
    BY <1>1, Sizes
  <2>2. e \in Positions /\ d + 1 + i \in Positions
    BY <1>4, <2>1
  <2>3. Cell(readPos, e) = Cell(readPos, d + 1 + i)
    BY <1>3, <1>5
  <2> QED
    BY <1>1, <2>2, <2>3, CellsDiffer
<1>6. ASSUME NEW q \in Quads
      PROVE  memory'[q] = IF \E i \in 0 .. RegQuads - 1 : q = CopyTarget(data, i)
                          THEN Content("reg", CHOOSE i \in 0 .. RegQuads - 1 : q = CopyTarget(data, i), f)
                          ELSE memory[q]
  BY <1>6
<1>7. ASSUME NEW e \in 0 .. d PROVE memory'[Cell(readPos, e)] = memory[Cell(readPos, e)]
  <2>1. e \in 0 .. d + PacketQuads
    BY <1>1, Sizes
  <2>2. Cell(readPos, e) \in Quads
    BY <1>1, <1>4, <2>1, CellIs
  <2>3. ~ \E i \in 0 .. RegQuads - 1 : Cell(readPos, e) = CopyTarget(data, i)
    <3> SUFFICES ASSUME NEW i \in 0 .. RegQuads - 1, Cell(readPos, e) = CopyTarget(data, i)
                 PROVE  FALSE
      OBVIOUS
    <3>1. e = d + 1 + i
      BY <1>5, <2>1
    <3> QED
      BY <1>1, <3>1, Sizes
  <2> QED
    BY <1>6, <2>2, <2>3
<1>8. ASSUME NEW i \in 0 .. RegQuads - 1
      PROVE  memory'[Cell(readPos, d + 1 + i)] = Content("reg", i, f)
  <2>1. d + 1 + i \in 0 .. d + PacketQuads
    BY <1>1, Sizes
  <2>2. Cell(readPos, d + 1 + i) \in Quads /\ Cell(readPos, d + 1 + i) = CopyTarget(data, i)
    BY <1>1, <1>3, <1>4, <2>1, CellIs
  <2>3. \A j \in 0 .. RegQuads - 1 : Cell(readPos, d + 1 + i) = CopyTarget(data, j) => j = i
    <3> SUFFICES ASSUME NEW j \in 0 .. RegQuads - 1, Cell(readPos, d + 1 + i) = CopyTarget(data, j)
                 PROVE  j = i
      OBVIOUS
    <3>1. d + 1 + i = d + 1 + j
      BY <1>5, <2>1
    <3> QED
      BY <1>1, <3>1
  <2>4. (CHOOSE j \in 0 .. RegQuads - 1 : Cell(readPos, d + 1 + i) = CopyTarget(data, j)) = i
    BY <2>2, <2>3
  <2> QED
    BY <1>6, <2>2, <2>4
<1>9. ASSUME NEW i \in 0 .. RegQuads - 1 PROVE memory'[RingSize + i] = memory[RingSize + i]
  <2>1. RingSize + i \in Quads
    BY Sizes DEF Quads
  <2>2. ~ \E j \in 0 .. RegQuads - 1 : RingSize + i = CopyTarget(data, j)
    <3> SUFFICES ASSUME NEW j \in 0 .. RegQuads - 1 PROVE RingSize + i # CopyTarget(data, j)
      OBVIOUS
    <3>1. d + 1 + j \in 0 .. d + PacketQuads
      BY <1>1, Sizes
    <3>2. CopyTarget(data, j) \in Positions
      BY <1>1, <1>3, <1>4, <3>1, CellIs
    <3> QED
      BY <3>2, Sizes DEF Positions
  <2> QED
    BY <1>6, <2>1, <2>2
<1>10. /\ Len(sent') = n + 1 /\ sent' \in Seq(Frames) /\ sent'[n + 1] = f
       /\ \A i \in 1 .. n : sent'[i] = sent[i]
       /\ sent' # <<>>
  BY <1>1, AppendProperties
<1>11. Published' = n
  BY <1>1, <1>10 DEF Published
<1>12. Types'
  BY <1>1, <1>10 DEF IInv, Types
<1>13. Placed'
  <2>1. Before(n + 1) = d + PacketQuads
    BY <1>1, BeforeIs
  <2>2. Before(Len(sent')) < RingSize
    BY <1>2, <1>10, <2>1
  <2>3. writePos' = Cell(readPos', Before(Published'))
    BY <1>1, <1>11
  <2> QED
    BY <2>2, <2>3 DEF Placed
<1>18. ee' = "remainder" /\ UNCHANGED <<readPos, writePos, gs, got>>
  OBVIOUS
<1> HIDE DEF CopyIn
<1>14. ASSUME NEW i \in 1 .. n
       PROVE  HasRegs(memory', readPos, Before(i - 1), sent[i])
              /\ HasRest(memory', readPos, Before(i - 1), sent[i])
  <2>0. i - 1 \in Nat /\ i - 1 < n
    BY <1>1
  <2>1. i - 1 \in Nat /\ i - 1 < n /\ Before(i - 1) \in Nat
    BY <2>0, BeforeIs
  <2>2. ASSUME NEW k \in 0 .. PacketQuads - 1
        PROVE  memory'[Cell(readPos, Before(i - 1) + k)] = memory[Cell(readPos, Before(i - 1) + k)]
    <3>1. Before(i - 1) + k \in Nat /\ Before(i - 1) + k < d
      BY <1>1, <2>1, EarlierIs
    <3> DEFINE e == Before(i - 1) + k
    <3>2. e \in 0 .. d
      BY <1>1, <3>1
    <3> HIDE DEF e
    <3>3. memory'[Cell(readPos, e)] = memory[Cell(readPos, e)]
      BY <1>7, <3>2
    <3> QED
      BY <3>3 DEF e
  <2>3. HasRegs(memory, readPos, Before(i - 1), sent[i])
        /\ HasRest(memory, readPos, Before(i - 1), sent[i])
    BY <1>1 DEF IInv, Stored
  <2> QED
    BY <2>1, <2>2, <2>3, SameCells
<1>15. HasRegs(memory', readPos, d, f)
  BY <1>3, <1>8 DEF HasRegs
<1>16. Stored'
  <2>1. \A i \in 1 .. Len(sent') : HasRegs(memory', readPos', Before(i - 1), sent'[i])
    <3> SUFFICES ASSUME NEW i \in 1 .. n + 1
                 PROVE  HasRegs(memory', readPos, Before(i - 1), sent'[i])
      BY <1>10, <1>18
    <3>1. CASE i \in 1 .. n
      BY <1>10, <1>14, <3>1
    <3>2. CASE i = n + 1
      <4>1. i - 1 = n
        BY <1>1, <3>2
      <4> QED
        BY <1>10, <1>15, <3>2, <4>1
    <3> QED
      BY <1>1, <3>1, <3>2
  <2>2. \A i \in 1 .. Published' : HasRest(memory', readPos', Before(i - 1), sent'[i])
    BY <1>10, <1>11, <1>14, <1>18
  <2> QED
    BY <2>1, <2>2 DEF Stored
<1>17. Taken'
  <2>1. gs # "idle" => Published' > 0 /\ sent'[1] = sent[1]
    BY <1>1, <1>10, <1>11 DEF IInv, Taken
  <2> QED
    BY <1>9, <1>18, <2>1 DEF IInv, Types, Taken
<1> QED
  BY <1>12, <1>13, <1>16, <1>17 DEF IInv

\* So do the last two quadwords, which completes the packet.
LEMMA PutRemainderStep ==
    ASSUME IInv, PutRemainder PROVE IInv'
<1> DEFINE n == Len(sent)
           d == Before(n - 1)
           a == Cell(readPos, d + 1 + RegQuads)
           b == Cell(readPos, d + 2 + RegQuads)
<1>1. /\ n \in Nat /\ n > 0 /\ Published = n - 1 /\ n - 1 \in Nat
      /\ readPos \in Positions /\ sent \in Seq(Frames)
      /\ memory = [q \in Quads |-> memory[q]]
  BY Facts, EmptySeq DEF PutRemainder, IInv, Types, Published
<1>2. /\ d \in Nat /\ Before(n) = d + PacketQuads /\ d + PacketQuads < RingSize
      /\ writePos = Cell(readPos, d)
  <2>1. Before(n - 1) \in Nat /\ Before(n - 1 + 1) = Before(n - 1) + PacketQuads
    BY <1>1, BeforeIs
  <2>2. n - 1 + 1 = n
    BY <1>1
  <2>3. Before(n) < RingSize /\ writePos = Cell(readPos, Before(Published))
    BY DEF IInv, Placed
  <2> QED
    BY <1>1, <2>1, <2>2, <2>3
<1>3. /\ a # RingSize - 1 /\ Remainder(writePos) = a /\ a + 1 = b
      /\ Wrapped(Remainder(writePos) + 2) = Cell(readPos, Before(n))
  <2>1. HasRegs(memory, readPos, Before(n - 1), sent[n])
    BY <1>1 DEF IInv, Stored
  <2>2. a # RingSize - 1
    BY <2>1 DEF HasRegs
  <2> QED
    BY <1>1, <1>2, <2>2, CopyIs
<1>4. /\ memory' = [memory EXCEPT ![a] = Content("csr", 0, sent[n]),
                                  ![b] = Content("written", 0, sent[n])]
      /\ writePos' = Cell(readPos, Before(n)) /\ ee' = "idle"
      /\ UNCHANGED <<readPos, sent, gs, got>>
  BY <1>3 DEF PutRemainder
<1>5. \A e \in 0 .. d + 2 + RegQuads : e \in Positions
  BY <1>2, Sizes DEF Positions
<1>6. /\ d + 1 + RegQuads \in 0 .. d + 2 + RegQuads /\ d + 2 + RegQuads \in 0 .. d + 2 + RegQuads
      /\ d + 1 + RegQuads # d + 2 + RegQuads
  BY <1>2, Sizes
<1>7. a \in Quads /\ b \in Quads /\ a \in Positions /\ b \in Positions /\ a # b
  BY <1>1, <1>5, <1>6, CellIs, CellsDiffer
<1>8. /\ memory'[a] = Content("csr", 0, sent[n]) /\ memory'[b] = Content("written", 0, sent[n])
      /\ \A q \in Quads : q # a /\ q # b => memory'[q] = memory[q]
      /\ memory' = [q \in Quads |-> memory'[q]]
  BY <1>1, <1>4, <1>7
<1>9. ASSUME NEW e \in 0 .. d + RegQuads
      PROVE  memory'[Cell(readPos, e)] = memory[Cell(readPos, e)]
  <2>1. e \in 0 .. d + 2 + RegQuads /\ e # d + 1 + RegQuads /\ e # d + 2 + RegQuads
    BY <1>2, Sizes
  <2>2. Cell(readPos, e) \in Quads /\ Cell(readPos, e) # a /\ Cell(readPos, e) # b
    BY <1>1, <1>5, <1>6, <2>1, CellIs, CellsDiffer
  <2> QED
    BY <1>8, <2>2
<1>10. ASSUME NEW i \in 0 .. RegQuads - 1 PROVE memory'[RingSize + i] = memory[RingSize + i]
  <2>1. RingSize + i \in Quads /\ RingSize + i \notin Positions
    BY Sizes DEF Quads, Positions
  <2> QED
    BY <1>7, <1>8, <2>1
<1>11. Published' = n
  BY <1>4 DEF Published
<1>12. Types'
  <2>1. Cell(readPos, Before(n)) \in Positions
    <3>1. Before(n) \in Positions
      BY <1>2, Sizes DEF Positions
    <3> QED
      BY <1>1, <3>1, CellIs
  <2> QED
    BY <1>1, <1>4, <1>8, <2>1 DEF IInv, Types
<1>13. Placed'
  BY <1>4, <1>11 DEF IInv, Placed
<1>14. ASSUME NEW i \in 1 .. n - 1
       PROVE  HasRegs(memory', readPos, Before(i - 1), sent[i])
              /\ HasRest(memory', readPos, Before(i - 1), sent[i])
  <2>0. i - 1 \in Nat /\ i - 1 < n - 1
    BY <1>1
  <2>1. Before(i - 1) \in Nat
    BY <2>0, BeforeIs
  <2>2. ASSUME NEW k \in 0 .. PacketQuads - 1
        PROVE  memory'[Cell(readPos, Before(i - 1) + k)] = memory[Cell(readPos, Before(i - 1) + k)]
    <3>1. Before(i - 1) + k \in Nat /\ Before(i - 1) + k < d
      BY <1>1, <2>0, EarlierIs
    <3> DEFINE e == Before(i - 1) + k
    <3>2. e \in 0 .. d + RegQuads
      BY <1>2, <3>1, Sizes
    <3> HIDE DEF e
    <3>3. memory'[Cell(readPos, e)] = memory[Cell(readPos, e)]
      BY <1>9, <3>2
    <3> QED
      BY <3>3 DEF e
  <2>3. HasRegs(memory, readPos, Before(i - 1), sent[i])
        /\ HasRest(memory, readPos, Before(i - 1), sent[i])
    BY <1>1 DEF IInv, Stored
  <2> QED
    BY <2>1, <2>2, <2>3, SameCells
<1>15. HasRegs(memory', readPos, d, sent[n]) /\ HasRest(memory', readPos, d, sent[n])
  <2>1. HasRegs(memory, readPos, d, sent[n])
    BY <1>1 DEF IInv, Stored
  <2>2. ASSUME NEW i \in 0 .. RegQuads - 1
        PROVE  memory'[Cell(readPos, d + 1 + i)] = Content("reg", i, sent[n])
    <3>1. d + 1 + i \in 0 .. d + RegQuads
      BY <1>2, Sizes
    <3>2. memory'[Cell(readPos, d + 1 + i)] = memory[Cell(readPos, d + 1 + i)]
      BY <1>9, <3>1
    <3> QED
      BY <2>1, <3>2 DEF HasRegs
  <2> QED
    BY <1>3, <1>8, <2>2 DEF HasRegs, HasRest
<1>16. Stored'
  <2>1. ASSUME NEW i \in 1 .. n
        PROVE  HasRegs(memory', readPos, Before(i - 1), sent[i])
               /\ HasRest(memory', readPos, Before(i - 1), sent[i])
    <3>1. CASE i \in 1 .. n - 1
      BY <1>14, <3>1
    <3>2. CASE i = n
      BY <1>15, <3>2
    <3> QED
      BY <1>1, <3>1, <3>2
  <2> QED
    BY <1>4, <1>11, <2>1 DEF Stored
<1>17. Taken'
  BY <1>1, <1>4, <1>10, <1>11 DEF IInv, Taken
<1> QED
  BY <1>12, <1>13, <1>16, <1>17 DEF IInv

\* What is known of the oldest packet once it is published.
LEMMA Oldest ==
    ASSUME IInv, Published > 0
    PROVE  /\ readPos \in Positions /\ Len(sent) > 0 /\ Before(1) = PacketQuads
           /\ PacketQuads < RingSize
           /\ \A i \in 0 .. RegQuads - 1 :
                memory[CopyTarget(Wrapped(readPos + 1), i)] = Content("reg", i, sent[1])
           /\ Remainder(readPos) \in Positions /\ Remainder(readPos) # RingSize - 1
           /\ memory[Remainder(readPos)] = Content("csr", 0, sent[1])
           /\ memory[Remainder(readPos) + 1] = Content("written", 0, sent[1])
<1>1. /\ readPos \in Positions /\ Published \in Nat /\ Len(sent) \in Nat
      /\ Published <= Len(sent)
  BY Facts DEF IInv, Types
<1>2. Before(0) = 0 /\ Before(1) = PacketQuads
  <2>1. 0 \in Nat /\ 0 + 1 = 1 /\ 0 + PacketQuads = PacketQuads
    BY Sizes
  <2> QED
    BY <2>1, BeforeIs
<1>3. HasRegs(memory, readPos, 0, sent[1]) /\ HasRest(memory, readPos, 0, sent[1])
  <2>1. 1 \in 1 .. Len(sent) /\ 1 \in 1 .. Published /\ 1 - 1 = 0
    BY <1>1
  <2>2. HasRegs(memory, readPos, Before(1 - 1), sent[1])
        /\ HasRest(memory, readPos, Before(1 - 1), sent[1])
    BY <2>1 DEF IInv, Stored
  <2> QED
    BY <1>2, <2>1, <2>2
<1>4. 0 \in Nat /\ 0 + PacketQuads < RingSize
  BY Sizes
<1>5. Cell(readPos, 0) = readPos
  BY <1>1, CellZero
<1>6. /\ \A i \in 0 .. RegQuads - 1 :
           CopyTarget(Wrapped(readPos + 1), i) = Cell(readPos, 0 + 1 + i)
      /\ Remainder(readPos) = Cell(readPos, 0 + 1 + RegQuads)
      /\ Remainder(readPos) # RingSize - 1 =>
           Remainder(readPos) + 1 = Cell(readPos, 0 + 2 + RegQuads)
  BY <1>1, <1>4, <1>5, CopyIs
<1>7. Remainder(readPos) \in Positions
  <2>1. 0 + 1 + RegQuads \in Positions
    BY Sizes DEF Positions
  <2> QED
    BY <1>1, <1>6, <2>1, CellIs
<1> QED
  BY <1>1, <1>2, <1>3, <1>6, <1>7, Sizes DEF HasRegs, HasRest

\* The oldest packet's registers come out, the ring stays as it is.
LEMMA CopyOutStep ==
    ASSUME IInv, CopyOut PROVE IInv'
<1>1. /\ UNCHANGED <<readPos, writePos, sent, ee, got>> /\ gs = "idle" /\ gs' = "remainder"
      /\ memory' = [q \in Quads |-> IF q < RingSize THEN memory[q]
                       ELSE memory[CopyTarget(Wrapped(readPos + 1), q - RingSize)]]
  BY DEF CopyOut
<1>2. Published > 0 /\ Published \in Nat /\ Len(sent) \in Nat
  <2>1. Published \in Nat /\ Len(sent) \in Nat /\ readPos \in Positions
    BY Facts DEF IInv, Types
  <2>2. ASSUME Published = 0 PROVE FALSE
    <3>1. Before(0) = 0 /\ Cell(readPos, 0) = readPos
      BY <2>1, BeforeIs, CellZero
    <3> QED
      BY <2>2, <3>1 DEF IInv, Placed, CopyOut
  <2> QED
    BY <2>1, <2>2
<1>3. Published' = Published
  BY <1>1 DEF Published
<1>4. \A q \in Positions : q \in Quads /\ memory'[q] = memory[q]
  BY <1>1, Sizes DEF Positions, Quads
<1>5. ASSUME NEW i \in 0 .. RegQuads - 1
      PROVE  memory'[RingSize + i] = Content("reg", i, sent[1])
  <2>2. memory'[RingSize + i] = memory[CopyTarget(Wrapped(readPos + 1), i)]
    <3> DEFINE q == RingSize + i
    <3>1. q \in Quads /\ ~(q < RingSize) /\ q - RingSize = i
      BY Sizes DEF Quads
    <3> HIDE DEF q
    <3>2. memory'[q] = memory[CopyTarget(Wrapped(readPos + 1), i)]
      BY <1>1, <3>1
    <3> QED
      BY <3>2 DEF q
  <2>3. memory[CopyTarget(Wrapped(readPos + 1), i)] = Content("reg", i, sent[1])
    BY <1>2, Oldest
  <2> QED
    BY <2>2, <2>3
<1>6. Types'
  BY <1>1 DEF IInv, Types
<1>7. Placed'
  BY <1>1, <1>3 DEF IInv, Placed
<1>8. ASSUME NEW i \in 1 .. Len(sent)
      PROVE  /\ HasRegs(memory', readPos, Before(i - 1), sent[i])
             /\ i <= Published => HasRest(memory', readPos, Before(i - 1), sent[i])
  <2>1. i - 1 \in Nat /\ i - 1 < Len(sent)
    BY <1>2
  <2>2. Before(i - 1) \in Nat
    BY <2>1, BeforeIs
  <2>3. ASSUME NEW k \in 0 .. PacketQuads - 1
        PROVE  memory'[Cell(readPos, Before(i - 1) + k)] = memory[Cell(readPos, Before(i - 1) + k)]
    <3>1. Before(i - 1) + k \in Nat /\ Before(i - 1) + k < Before(Len(sent))
      BY <1>2, <2>1, EarlierIs
    <3>2. Before(Len(sent)) < RingSize /\ Before(Len(sent)) \in Nat /\ readPos \in Positions
      BY <1>2, BeforeIs DEF IInv, Placed, Types
    <3>3. Before(i - 1) + k \in Positions
      BY <3>1, <3>2, Sizes DEF Positions
    <3> QED
      BY <1>4, <3>2, <3>3, CellIs
  <2>4. HasRegs(memory, readPos, Before(i - 1), sent[i])
        /\ (i <= Published => HasRest(memory, readPos, Before(i - 1), sent[i]))
    BY <1>2 DEF IInv, Stored
  <2> QED
    BY <2>2, <2>3, <2>4, SameCells
<1>9. Stored'
  <2>1. \A i \in 1 .. Published : i \in 1 .. Len(sent) /\ i <= Published
    BY <1>2, Facts
  <2> QED
    BY <1>1, <1>3, <1>8, <2>1 DEF Stored
<1>10. Taken'
  BY <1>1, <1>2, <1>3, <1>5 DEF IInv, Taken
<1> QED
  BY <1>6, <1>7, <1>9, <1>10 DEF IInv

\* With its last two quadwords it is the frame that was sent.
LEMMA TakeRemainderStep ==
    ASSUME IInv, TakeRemainder PROVE IInv'
<1>1. /\ UNCHANGED <<memory, readPos, writePos, sent, ee>>
      /\ gs = "remainder" /\ gs' = "advance"
      /\ got' = <<Head(sent), [regs |-> [i \in 0 .. RegQuads - 1 |-> memory[RingSize + i]],
                               csr |-> memory[Remainder(readPos)],
                               written |-> memory[Remainder(readPos) + 1]]>>
  BY DEF TakeRemainder
<1>2. Published' = Published /\ Published > 0
  BY <1>1 DEF Published, IInv, Taken
<1>3. sent # <<>> /\ Head(sent) = sent[1]
  <2>1. Len(sent) > 0 /\ sent \in Seq(Frames)
    BY <1>2, Oldest DEF IInv, Types
  <2> QED
    BY <2>1
<1>4. [regs |-> [i \in 0 .. RegQuads - 1 |-> memory[RingSize + i]],
       csr |-> memory[Remainder(readPos)],
       written |-> memory[Remainder(readPos) + 1]] = Frame(sent[1])
  <2>1. [i \in 0 .. RegQuads - 1 |-> memory[RingSize + i]]
        = [i \in 0 .. RegQuads - 1 |-> Content("reg", i, sent[1])]
    BY <1>1 DEF IInv, Taken
  <2> QED
    BY <1>2, <2>1, Oldest DEF Frame
<1>5. Types'
  BY <1>1 DEF IInv, Types
<1>6. Placed'
  BY <1>1, <1>2 DEF IInv, Placed
<1>7. Stored'
  BY <1>1, <1>2 DEF IInv, Stored
<1>8. Taken'
  BY <1>1, <1>2, <1>3, <1>4 DEF Taken
<1> QED
  BY <1>5, <1>6, <1>7, <1>8 DEF IInv

\* The room given back is the oldest packet's alone.
LEMMA AdvanceStep ==
    ASSUME IInv, Advance PROVE IInv'
<1> DEFINE n == Len(sent)
           r == readPos
           s == Cell(r, PacketQuads)
<1>1. /\ gs = "advance" /\ gs' = "idle" /\ sent' = Tail(sent) /\ got' = <<>>
      /\ UNCHANGED <<writePos, ee>> /\ readPos' = s
      /\ memory' = [q \in Quads |->
                      IF \E k \in 0 .. PacketQuads - 1 : q = Cell(r, k) THEN Blank ELSE memory[q]]
  BY DEF Advance, Cell
<1>2. /\ Published > 0 /\ Published \in Nat /\ Published <= n /\ n \in Nat /\ n > 0
      /\ r \in Positions /\ sent \in Seq(Frames) /\ Before(n) < RingSize
      /\ PacketQuads \in Positions
  <2>1. Published > 0
    BY <1>1 DEF IInv, Taken
  <2>2. Published \in Nat /\ Published <= n /\ n \in Nat
    BY Facts
  <2>3. r \in Positions /\ sent \in Seq(Frames) /\ Before(n) < RingSize
    BY DEF IInv, Types, Placed
  <2>4. PacketQuads \in Positions
    BY Sizes DEF Positions
  <2> QED
    BY <2>1, <2>2, <2>3, <2>4
<1>3. /\ sent' \in Seq(Frames) /\ Len(sent') = n - 1 /\ n - 1 \in Nat
      /\ \A i \in 1 .. n - 1 : sent'[i] = sent[i + 1]
  <2>1. sent # <<>>
    BY <1>2, EmptySeq
  <2> QED
    BY <1>1, <1>2, <2>1, HeadTailProperties
<1>4. Published' = Published - 1 /\ Published - 1 \in Nat
  BY <1>1, <1>2, <1>3 DEF Published
<1>5. ASSUME NEW i \in Nat, i < n
      PROVE  /\ Before(i) \in Nat /\ Before(i + 1) = PacketQuads + Before(i)
             /\ Before(i + 1) <= Before(n)
             /\ Cell(s, Before(i)) = Cell(r, Before(i + 1))
  <2>1. Before(i) \in Nat /\ Before(i + 1) = Before(i) + PacketQuads /\ i + 1 \in Nat
    BY <1>5, BeforeIs
  <2>2. Before(i + 1) <= Before(n)
    <3>1. i + 1 \in 0 .. n
      BY <1>2, <1>5
    <3> QED
      BY <3>1, Facts
  <2>6. Before(n) \in Nat
    BY <1>2, BeforeIs
  <2>3. PacketQuads + Before(i) < RingSize /\ Before(n) \in Nat
    BY <1>2, <2>1, <2>2, <2>6, Sizes
  <2>4. Cell(s, Before(i)) = Cell(r, PacketQuads + Before(i))
    BY <1>2, <2>1, <2>3, CellOfCell, Sizes
  <2>5. PacketQuads + Before(i) = Before(i + 1)
    BY <2>1, Sizes
  <2> QED
    BY <2>1, <2>2, <2>4, <2>5
<1>6. ASSUME NEW i \in Nat, i + 1 < n, NEW k \in 0 .. PacketQuads - 1
      PROVE  /\ Cell(s, Before(i) + k) = Cell(r, Before(i + 1) + k)
             /\ memory'[Cell(r, Before(i + 1) + k)] = memory[Cell(r, Before(i + 1) + k)]
  <2>1. /\ i < n /\ i + 1 \in Nat
    BY <1>2, <1>6
  <2>2. /\ Before(i) \in Nat /\ Before(i + 1) = PacketQuads + Before(i)
        /\ Before(i + 1) + k \in Nat /\ Before(i + 1) + k < Before(n)
    BY <1>2, <1>5, <1>6, <2>1, EarlierIs
  <2>3. Before(n) \in Nat /\ k \in Nat /\ PacketQuads \in Nat /\ RingSize \in Nat
    BY <1>2, BeforeIs, Sizes
  <2>4. /\ Before(i) + k \in Nat /\ PacketQuads + (Before(i) + k) < RingSize
        /\ PacketQuads + (Before(i) + k) = Before(i + 1) + k
    BY <1>2, <2>2, <2>3
  <2>5. Cell(s, Before(i) + k) = Cell(r, Before(i + 1) + k)
    <3> DEFINE e == Before(i) + k
    <3>1. e \in Nat /\ PacketQuads + e < RingSize
      BY <2>4
    <3> HIDE DEF e
    <3>2. Cell(s, e) = Cell(r, PacketQuads + e)
      BY <1>2, <2>3, <3>1, CellOfCell
    <3> QED
      BY <2>4, <3>2 DEF e
  <2>6. Before(i + 1) + k \in Positions
    BY <1>2, <2>2, <2>3 DEF Positions
  <2>7. ASSUME NEW j \in 0 .. PacketQuads - 1 PROVE Cell(r, Before(i + 1) + k) # Cell(r, j)
    <3>1. j \in Positions /\ j # Before(i + 1) + k
      BY <2>2, <2>3, Sizes DEF Positions
    <3> QED
      BY <1>2, <2>6, <3>1, CellsDiffer
  <2>8. Cell(r, Before(i + 1) + k) \in Quads
    BY <1>2, <2>6, CellIs
  <2>9. memory'[Cell(r, Before(i + 1) + k)] = memory[Cell(r, Before(i + 1) + k)]
    BY <1>1, <2>7, <2>8
  <2> QED
    BY <2>5, <2>9
<1>7. Types'
  <2>1. s \in Positions
    BY <1>2, CellIs
  <2>2. ee' = "remainder" => sent' # <<>>
    <3>1. ASSUME ee = "remainder" PROVE n - 1 > 0
      BY <1>2, <3>1 DEF Published
    <3>2. sent' = <<>> => Len(sent') = 0
      BY EmptySeq
    <3> QED
      BY <1>1, <1>3, <3>1, <3>2
  <2> QED
    BY <1>1, <1>3, <2>1, <2>2 DEF IInv, Types
<1>8. Placed'
  <2>1. Published - 1 < n /\ Published - 1 + 1 = Published
    BY <1>2
  <2>2. Cell(s, Before(Published - 1)) = Cell(r, Before(Published))
    BY <1>4, <1>5, <2>1
  <2>3. Before(n - 1) < RingSize
    <3>3. n - 1 \in 0 .. n
      BY <1>2
    <3>1. n - 1 \in 0 .. n /\ Before(n) \in Nat
      BY <1>2, <3>3, BeforeIs
    <3>2. Before(n - 1) \in Nat /\ Before(n - 1) <= Before(n)
      BY <3>1, Facts
    <3> QED
      BY <1>2, <3>1, <3>2, Sizes
  <2> QED
    BY <1>1, <1>3, <1>4, <2>2, <2>3 DEF IInv, Placed
<1>9. ASSUME NEW i \in 1 .. n - 1
      PROVE  /\ HasRegs(memory', s, Before(i - 1), sent[i + 1])
             /\ i < Published => HasRest(memory', s, Before(i - 1), sent[i + 1])
  <2>1. /\ i - 1 \in Nat /\ i - 1 + 1 = i /\ i < n /\ i \in Nat /\ i - 1 < n
        /\ i + 1 \in 1 .. n /\ i + 1 - 1 = i
        /\ (i < Published => i + 1 \in 1 .. Published)
    BY <1>2
  <2>2. Before(i - 1) \in Nat /\ Before(i) \in Nat
    BY <2>1, BeforeIs
  <2>3. \A k \in 0 .. PacketQuads - 1 :
          /\ Cell(s, Before(i - 1) + k) = Cell(r, Before(i - 1 + 1) + k)
          /\ memory'[Cell(r, Before(i - 1 + 1) + k)] = memory[Cell(r, Before(i - 1 + 1) + k)]
    BY <1>6, <2>1
  <2>4. HasRegs(memory, r, Before(i + 1 - 1), sent[i + 1])
        /\ (i < Published => HasRest(memory, r, Before(i + 1 - 1), sent[i + 1]))
    BY <2>1 DEF IInv, Stored
  <2> QED
    BY <2>1, <2>2, <2>3, <2>4, SameCells
<1>10. Stored'
  <2>1. \A i \in 1 .. Published - 1 : i \in 1 .. n - 1 /\ i < Published
    BY <1>2
  <2> QED
    BY <1>1, <1>3, <1>4, <1>9, <2>1 DEF Stored
<1>11. Taken'
  BY <1>1 DEF Taken
<1> QED
  BY <1>7, <1>8, <1>10, <1>11 DEF IInv

\* Every step keeps the invariant.
LEMMA IInvStep ==
    ASSUME AnyStart = FALSE, IInv, [Next]_vars PROVE IInv'
<1>1. CASE PostSimple
  BY <1>1, PostSimpleStep
<1>2. ASSUME NEW f \in Frames, CopyIn(f) PROVE IInv'
  BY <1>2, CopyInStep
<1>3. CASE PutRemainder
  BY <1>3, PutRemainderStep
<1>4. CASE CopyOut
  BY <1>4, CopyOutStep
<1>5. CASE TakeRemainder
  BY <1>5, TakeRemainderStep
<1>6. CASE Advance
  BY <1>6, AdvanceStep
<1>7. CASE UNCHANGED vars
  <2>1. UNCHANGED <<memory, readPos, writePos, sent, ee, gs, got>>
    BY <1>7 DEF vars
  <2>2. Published' = Published
    BY <2>1 DEF Published
  <2>3. Types' /\ Placed'
    BY <2>1, <2>2 DEF IInv, Types, Placed
  <2>4. Stored' /\ Taken'
    BY <2>1, <2>2 DEF IInv, Stored, Taken
  <2> QED
    BY <2>3, <2>4 DEF IInv
<1> QED
  BY <1>1, <1>2, <1>3, <1>4, <1>5, <1>6, <1>7 DEF Next

-----------------------------------------------------------------------------
(* The theorems *)

\* The inductive invariant.
THEOREM PacketInvariant == AnyStart = FALSE => (Spec => []IInv)
<1> SUFFICES ASSUME AnyStart = FALSE PROVE Spec => []IInv
  OBVIOUS
<1>1. Init => IInv
  BY IInvInit
<1>2. IInv /\ [Next]_vars => IInv'
  BY IInvStep
<1> QED
  BY <1>1, <1>2, PTL DEF Spec

\* Wherever in the ring a packet begins, as long as csr, imr and the count are
\* not parted by its end, the GS thread is given the frame that was sent
\* (MTGS.cpp:227-257, 485-503).
THEOREM FrameAlwaysArrives == AnyStart = FALSE => (Spec => []FrameArrives)
<1> SUFFICES ASSUME AnyStart = FALSE PROVE Spec => []FrameArrives
  OBVIOUS
<1>1. IInv => FrameArrives
  <2> SUFFICES ASSUME IInv, got # <<>> PROVE got[2] = Frame(got[1])
    BY DEF FrameArrives
  <2>1. got = <<sent[1], Frame(sent[1])>>
    BY DEF IInv, Taken
  <2> QED
    BY <2>1
<1> QED
  BY <1>1, PacketInvariant, PTL

\* The EE thread's two steps write in the ring alone, so the registers behind it
\* change only when the GS thread takes a packet over (MTGS.cpp:246-254).
THEOREM EeKeepsRegs == AnyStart = FALSE => (Spec => RegsKeptByEe)
<1> SUFFICES ASSUME AnyStart = FALSE PROVE Spec => RegsKeptByEe
  OBVIOUS
<1> DEFINE Kept ==
             (\E q \in RingSize .. RingSize + RegQuads - 1 : memory'[q] # memory[q]) => gs' # gs
<1>1. IInv /\ [Next]_vars => [Kept]_vars
  <2> SUFFICES ASSUME IInv, Next, NEW q \in RingSize .. RingSize + RegQuads - 1,
                      memory'[q] # memory[q]
               PROVE  gs' # gs
    OBVIOUS
  <2>1. q \in Quads /\ q \notin Positions
    BY Sizes DEF Quads, Positions
  <2>2. CASE PostSimple
    BY <2>2 DEF PostSimple
  <2>3. ASSUME NEW f \in Frames, CopyIn(f) PROVE FALSE
    <3> DEFINE data == Wrapped(writePos + 1)
    <3>1. data \in Positions
      <4>1. writePos \in Positions /\ 1 \in Positions
        BY Sizes DEF IInv, Types, Positions
      <4> QED
        BY <4>1, CellIs DEF Cell
    <3>2. ~ \E i \in 0 .. RegQuads - 1 : q = CopyTarget(data, i)
      <4> HIDE DEF data
      <4> SUFFICES ASSUME NEW i \in 0 .. RegQuads - 1 PROVE q # CopyTarget(data, i)
        OBVIOUS
      <4>1. CopyTarget(data, i) < RingSize
        BY <3>1, Sizes DEF CopyTarget, Positions
      <4> QED
        BY <4>1, Sizes
    <3>3. memory'[q] = memory[q]
      BY <2>1, <2>3, <3>2 DEF CopyIn
    <3> QED
      BY <3>3
  <2>4. ASSUME PutRemainder PROVE FALSE
    <3> DEFINE d == Before(Len(sent) - 1)
    <3>1. /\ Len(sent) - 1 \in Nat /\ Len(sent) \in Nat /\ Len(sent) - 1 + 1 = Len(sent)
          /\ Published = Len(sent) - 1 /\ readPos \in Positions
          /\ memory = [p \in Quads |-> memory[p]]
      BY <2>4, Facts, EmptySeq DEF PutRemainder, IInv, Types, Published
    <3>2. d \in Nat /\ d + PacketQuads < RingSize /\ writePos = Cell(readPos, d)
      BY <3>1, BeforeIs DEF IInv, Placed
    <3>3. Remainder(writePos) = Cell(readPos, d + 1 + RegQuads)
          /\ Remainder(writePos) # RingSize - 1
      <4>1. HasRegs(memory, readPos, d, sent[Len(sent)])
        <5>1. Len(sent) \in 1 .. Len(sent)
          BY <3>1
        <5> QED
          BY <5>1 DEF IInv, Stored
      <4> QED
        BY <3>1, <3>2, <4>1, CopyIs DEF HasRegs
    <3>4. d + 1 + RegQuads \in Positions
      BY <3>2, Sizes DEF Positions
    <3>5. Remainder(writePos) \in Positions
      BY <3>1, <3>3, <3>4, CellIs
    <3>6. q # Remainder(writePos) /\ q # Remainder(writePos) + 1
      BY <3>3, <3>5, Sizes DEF Positions
    <3>7. memory'[q] = memory[q]
      BY <2>1, <2>4, <3>1, <3>6 DEF PutRemainder
    <3> QED
      BY <3>7
  <2>5. CASE CopyOut
    BY <2>5 DEF CopyOut
  <2>6. CASE TakeRemainder
    BY <2>6 DEF TakeRemainder
  <2>7. CASE Advance
    BY <2>7 DEF Advance
  <2> QED
    BY <2>2, <2>3, <2>4, <2>5, <2>6, <2>7 DEF Next
<1> QED
  BY <1>1, PacketInvariant, PTL DEF Spec, RegsKeptByEe
====
