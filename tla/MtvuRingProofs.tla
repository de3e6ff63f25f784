---- MODULE MtvuRingProofs ----
(***************************************************************************)
(* The ring of the VU1 thread for every size of it and of its packets: the *)
(* packets between the two published positions are the queue, equal        *)
(* positions mean that it is empty, and WaitVU means that it is done.      *)
(***************************************************************************)
EXTENDS MtvuRing, SequenceTheorems, TLAPS

Packet == [kind : Kinds \union {"null"}, start : Positions]
EndOf(p) == IF p.kind = "null" THEN 0 ELSE p.start + Size[p.kind]

\* The packets of q follow each other from r to w.
Chain(q, r, w) ==
    /\ r = (IF q = <<>> THEN w ELSE q[1].start)
    /\ \A i \in 1 .. Len(q) :
        EndOf(q[i]) = IF i = Len(q) THEN w ELSE q[i + 1].start

\* A packet is whole in the buffer b.
Whole(p, b) ==
    /\ b[p.start] = p.kind
    /\ \A k \in Words(p.start, p.kind) \ {p.start} : b[k] = "data"

Held(q, b) == \A i \in 1 .. Len(q) : Whole(q[i], b)

\* The first c packets lie behind r, the c-th is the NULL packet that leads to
\* 0; the others lie in front of w, which is in front of r if c is not 0.
InOrder(q, r, w, c) ==
    /\ c \in 0 .. Len(q)
    /\ \A i \in 1 .. Len(q) : (q[i].kind = "null") <=> (i = c)
    /\ \A i, j \in 1 .. Len(q) :
        i < j /\ (j <= c \/ c < i) => q[i].start + Sizes(q[i].kind) <= q[j].start
    /\ \A i \in 1 .. Len(q) : c < i => q[i].start + Sizes(q[i].kind) <= w
    /\ c = 0 => r <= w
    /\ c # 0 => w < r

Ring(q, b, r, w) ==
    Chain(q, r, w) /\ Held(q, b) /\ \E c \in 0 .. Len(q) : InOrder(q, r, w, c)

-----------------------------------------------------------------------------
(* Facts about such a queue *)

\* A packet has a word at least.
LEMMA SizesPositive ==
    \A k \in Kinds \union {"null"} : Sizes(k) \in Nat \ {0}
BY SizeAssumption, BufferAssumption DEF Sizes

\* Equal positions mean an empty queue.
LEMMA EqualIsEmpty ==
    ASSUME NEW q \in Seq(Packet), NEW r \in Positions, NEW c,
           Chain(q, r, r), InOrder(q, r, r, c)
    PROVE  q = <<>>
<1> SUFFICES ASSUME q # <<>> PROVE FALSE
  OBVIOUS
<1>1. Len(q) \in Nat \ {0} /\ q[1] \in Packet /\ r = q[1].start
  BY DEF Chain
<1>2. Sizes(q[1].kind) \in Nat \ {0} /\ q[1].start \in Int
  BY <1>1, SizesPositive DEF Packet, Positions
<1>3. c = 0 /\ c < 1
  BY <1>1 DEF InOrder, Positions
<1>4. q[1].start + Sizes(q[1].kind) <= r
  BY <1>1, <1>3 DEF InOrder
<1> QED
  BY <1>1, <1>2, <1>4 DEF Positions

\* What goes behind a queue whose end is w begins at w.
LEMMA AppendChain ==
    ASSUME NEW q \in Seq(Packet), NEW r \in Positions, NEW w \in Positions,
           NEW p \in Packet, p.start = w, Chain(q, r, w)
    PROVE  Chain(Append(q, p), r, EndOf(p))
<1> DEFINE a == Append(q, p)
<1>1. /\ Len(a) = Len(q) + 1 /\ Len(q) \in Nat
      /\ \A i \in 1 .. Len(q) : a[i] = q[i]
      /\ a[Len(q) + 1] = p
      /\ a # <<>>
  OBVIOUS
<1>2. r = a[1].start
  BY <1>1 DEF Chain
<1>3. ASSUME NEW i \in 1 .. Len(a)
      PROVE  EndOf(a[i]) = IF i = Len(a) THEN EndOf(p) ELSE a[i + 1].start
  <2> HIDE DEF a
  <2>1. CASE i = Len(q) + 1
    BY <1>1, <2>1
  <2>2. CASE i = Len(q) /\ i >= 1
    BY <1>1, <2>2 DEF Chain
  <2>3. CASE i < Len(q)
    BY <1>1, <2>3 DEF Chain
  <2> QED
    BY <1>1, <2>1, <2>2, <2>3
<1> QED
  BY <1>1, <1>2, <1>3 DEF Chain

\* The queue behind its first packet begins where that ends.
LEMMA TailOf ==
    ASSUME NEW q \in Seq(Packet), q # <<>>
    PROVE  LET t == SubSeq(q, 2, Len(q)) IN
           /\ t \in Seq(Packet) /\ Len(t) = Len(q) - 1 /\ Len(q) \in Nat \ {0}
           /\ \A i \in 1 .. Len(q) - 1 : t[i] = q[i + 1]
           /\ t = <<>> <=> Len(q) = 1
<1> DEFINE t == SubSeq(q, 2, Len(q))
<1>1. Len(q) \in Nat \ {0} /\ \A i \in 2 .. Len(q) : q[i] \in Packet
  OBVIOUS
<1>2. /\ t \in Seq(Packet)
      /\ Len(t) = IF 2 <= Len(q) THEN Len(q) - 2 + 1 ELSE 0
      /\ \A i \in 1 .. Len(q) - 2 + 1 : t[i] = q[2 + i - 1]
  BY <1>1, SubSeqProperties
<1> HIDE DEF t
<1>3. Len(t) = Len(q) - 1
  <2> DEFINE m == Len(q)
  <2>1. m \in Nat \ {0}
    BY <1>1
  <2>2. Len(t) = IF 2 <= m THEN m - 2 + 1 ELSE 0
    BY <1>2
  <2> HIDE DEF m
  <2>3. Len(t) = m - 1
    BY <2>1, <2>2
  <2> QED
    BY <2>3 DEF m
<1>4. ASSUME NEW i \in 1 .. Len(q) - 1 PROVE t[i] = q[i + 1]
  <2>1. Len(q) - 2 + 1 = Len(q) - 1 /\ 2 + i - 1 = i + 1
    BY <1>1
  <2> QED
    BY <1>2, <2>1
<1>5. t = <<>> <=> Len(t) = 0
  BY <1>2
<1> QED
  BY <1>1, <1>2, <1>3, <1>4, <1>5 DEF t

\* The rest of the queue still leads to w.
LEMMA TailChain ==
    ASSUME NEW q \in Seq(Packet), q # <<>>, NEW r, NEW w, Chain(q, r, w)
    PROVE  Chain(SubSeq(q, 2, Len(q)), EndOf(q[1]), w)
<1> DEFINE t == SubSeq(q, 2, Len(q))
<1>1. /\ Len(t) = Len(q) - 1 /\ Len(q) \in Nat \ {0}
      /\ \A i \in 1 .. Len(q) - 1 : t[i] = q[i + 1]
      /\ t = <<>> <=> Len(q) = 1
  BY TailOf
<1> HIDE DEF t
<1>2. EndOf(q[1]) = (IF t = <<>> THEN w ELSE t[1].start)
  BY <1>1 DEF Chain
<1>3. ASSUME NEW i \in 1 .. Len(t)
      PROVE  EndOf(t[i]) = IF i = Len(t) THEN w ELSE t[i + 1].start
  BY <1>1 DEF Chain
<1> QED
  BY <1>2, <1>3 DEF Chain, t

\* Behind its first packet a queue is in order, with one packet less behind r.
LEMMA TailInOrder ==
    ASSUME NEW q \in Seq(Packet), q # <<>>, NEW r \in Positions, NEW w \in Positions,
           NEW c, Chain(q, r, w), InOrder(q, r, w, c)
    PROVE  InOrder(SubSeq(q, 2, Len(q)), EndOf(q[1]), w, IF c = 0 THEN 0 ELSE c - 1)
<1> DEFINE t == SubSeq(q, 2, Len(q))
           d == IF c = 0 THEN 0 ELSE c - 1
<1>1. /\ t \in Seq(Packet) /\ Len(t) = Len(q) - 1 /\ Len(q) \in Nat \ {0}
      /\ \A i \in 1 .. Len(q) - 1 : t[i] = q[i + 1]
  BY TailOf
<1>2. \A i \in 1 .. Len(q) : q[i] \in Packet
  OBVIOUS
<1> HIDE DEF t
<1>3. d \in 0 .. Len(t) /\ (d = 0 <=> c \in {0, 1}) /\ (c # 0 => c = d + 1) /\ c \in Nat
  BY <1>1 DEF InOrder
<1> HIDE DEF d
<1>4. ASSUME NEW i \in 1 .. Len(t) PROVE (t[i].kind = "null") <=> (i = d)
  BY <1>1, <1>3 DEF InOrder, d
<1>5. ASSUME NEW i \in 1 .. Len(t), NEW j \in 1 .. Len(t), i < j, j <= d \/ d < i
      PROVE  t[i].start + Sizes(t[i].kind) <= t[j].start
  <2>1. i + 1 \in 1 .. Len(q) /\ j + 1 \in 1 .. Len(q) /\ i + 1 < j + 1
    BY <1>1, <1>5
  <2>2. j + 1 <= c \/ c < i + 1
    BY <1>3, <1>5, <1>1
  <2> QED
    BY <1>1, <2>1, <2>2 DEF InOrder
<1>6. ASSUME NEW i \in 1 .. Len(t), d < i
      PROVE  t[i].start + Sizes(t[i].kind) <= w
  BY <1>1, <1>3, <1>6 DEF InOrder
<1>7. q[1].start \in Int /\ q[1].start = r /\ r \in Int /\ w \in Int
  BY <1>1, <1>2 DEF Packet, Positions, Chain
<1>8. d = 0 => EndOf(q[1]) <= w
  <2>1. CASE c = 0
    BY <1>1, <1>2, <1>7, <2>1 DEF InOrder, EndOf, Sizes
  <2>2. CASE c = 1
    BY <1>1, <2>2 DEF InOrder, EndOf, Positions
  <2> QED
    BY <1>3, <2>1, <2>2
<1>9. d # 0 => w < EndOf(q[1])
  <2> SUFFICES ASSUME d # 0 PROVE w < EndOf(q[1])
    OBVIOUS
  <2>1. c > 1 /\ c <= Len(q) /\ q[1].kind # "null" /\ 2 \in 1 .. Len(q)
    BY <1>1, <1>3 DEF InOrder
  <2>2. EndOf(q[1]) = q[1].start + Sizes(q[1].kind) /\ Sizes(q[1].kind) \in Nat
    BY <1>1, <1>2, <2>1, SizesPositive DEF EndOf, Sizes, Packet
  <2> QED
    BY <1>7, <2>1, <2>2 DEF InOrder
<1> QED
  BY <1>3, <1>4, <1>5, <1>6, <1>8, <1>9 DEF InOrder, t, d

\* A packet of data behind a queue, in front of r if the queue has wrapped.
LEMMA AppendInOrder ==
    ASSUME NEW q \in Seq(Packet), NEW r \in Positions, NEW w \in Positions, NEW c,
           NEW p \in Packet, p.start = w, p.kind # "null",
           EndOf(p) \in Positions, r <= w \/ EndOf(p) < r,
           InOrder(q, r, w, c)
    PROVE  InOrder(Append(q, p), r, EndOf(p), c)
<1> DEFINE a == Append(q, p)
<1>1. /\ Len(a) = Len(q) + 1 /\ Len(q) \in Nat
      /\ \A i \in 1 .. Len(q) : a[i] = q[i] /\ q[i] \in Packet
      /\ a[Len(q) + 1] = p
  OBVIOUS
<1> HIDE DEF a
<1>2. /\ Sizes(p.kind) \in Nat \ {0} /\ EndOf(p) = p.start + Sizes(p.kind)
      /\ p.start \in Int /\ w \in Int /\ r \in Int
  BY SizesPositive DEF EndOf, Sizes, Packet, Positions
<1>3. c \in 0 .. Len(q) /\ c \in 0 .. Len(a)
  BY <1>1 DEF InOrder
<1>4. ASSUME NEW i \in 1 .. Len(a) PROVE (a[i].kind = "null") <=> (i = c)
  <2>1. CASE i \in 1 .. Len(q)
    BY <1>1, <2>1 DEF InOrder
  <2>2. CASE i = Len(q) + 1
    BY <1>1, <1>3, <2>2
  <2> QED
    BY <1>1, <2>1, <2>2
<1>5. ASSUME NEW i \in 1 .. Len(a), NEW j \in 1 .. Len(a), i < j, j <= c \/ c < i
      PROVE  a[i].start + Sizes(a[i].kind) <= a[j].start
  <2>1. i \in 1 .. Len(q)
    BY <1>1, <1>5
  <2>2. CASE j \in 1 .. Len(q)
    BY <1>1, <1>5, <2>1, <2>2 DEF InOrder
  <2>3. CASE j = Len(q) + 1
    BY <1>1, <1>2, <1>3, <1>5, <2>1, <2>3 DEF InOrder
  <2> QED
    BY <1>1, <2>2, <2>3
<1>6. ASSUME NEW i \in 1 .. Len(a), c < i
      PROVE  a[i].start + Sizes(a[i].kind) <= EndOf(p)
  <2>1. CASE i \in 1 .. Len(q)
    <3>1. q[i].start + Sizes(q[i].kind) <= w
      BY <1>6, <2>1 DEF InOrder
    <3>2. q[i].start \in Int /\ Sizes(q[i].kind) \in Int
      BY <1>1, <2>1, SizesPositive DEF Packet, Positions
    <3> QED
      BY <1>1, <1>2, <2>1, <3>1, <3>2
  <2>2. CASE i = Len(q) + 1
    BY <1>1, <1>2, <2>2
  <2> QED
    BY <1>1, <2>1, <2>2
<1>7. (c = 0 => r <= EndOf(p)) /\ (c # 0 => EndOf(p) < r)
  BY <1>2 DEF InOrder
<1> QED
  BY <1>3, <1>4, <1>5, <1>6, <1>7 DEF InOrder, a

\* A NULL packet behind a queue that has none, with the reader past 0.
LEMMA AppendNullInOrder ==
    ASSUME NEW q \in Seq(Packet), NEW r \in Positions, NEW w \in Positions, NEW c,
           NEW p \in Packet, p.start = w, p.kind = "null", r <= w, r # 0,
           InOrder(q, r, w, c)
    PROVE  InOrder(Append(q, p), r, 0, Len(q) + 1)
<1> DEFINE a == Append(q, p)
<1>1. /\ Len(a) = Len(q) + 1 /\ Len(q) \in Nat
      /\ \A i \in 1 .. Len(q) : a[i] = q[i]
      /\ a[Len(q) + 1] = p
  OBVIOUS
<1> HIDE DEF a
<1>2. c = 0 /\ 0 < r
  BY DEF InOrder, Positions
<1>3. ASSUME NEW i \in 1 .. Len(a) PROVE (a[i].kind = "null") <=> (i = Len(q) + 1)
  BY <1>1, <1>2 DEF InOrder
<1>4. ASSUME NEW i \in 1 .. Len(a), NEW j \in 1 .. Len(a), i < j
      PROVE  a[i].start + Sizes(a[i].kind) <= a[j].start
  <2>1. i \in 1 .. Len(q)
    BY <1>1, <1>4
  <2>2. CASE j \in 1 .. Len(q)
    BY <1>1, <1>2, <1>4, <2>1, <2>2 DEF InOrder
  <2>3. CASE j = Len(q) + 1
    BY <1>1, <1>2, <2>1, <2>3 DEF InOrder
  <2> QED
    BY <1>1, <2>2, <2>3
<1>5. Len(q) + 1 \in 0 .. Len(a) /\ Len(q) + 1 # 0
  BY <1>1
<1>6. \A i \in 1 .. Len(a) : ~(Len(q) + 1 < i)
  BY <1>1
<1> QED
  BY <1>2, <1>3, <1>4, <1>5, <1>6 DEF InOrder, a

\* What is written where the queue has nothing leaves its packets whole.
LEMMA HeldOutside ==
    ASSUME NEW q \in Seq(Packet), NEW r \in Positions, NEW w \in Positions, NEW c,
           NEW n \in Nat, NEW b, NEW e,
           Chain(q, r, w), InOrder(q, r, w, c), Held(q, b),
           r <= w \/ w + n < r,
           \A i \in Positions : ~(w <= i /\ i < w + n) => e[i] = b[i]
    PROVE  Held(q, e)
<1> SUFFICES ASSUME NEW i \in 1 .. Len(q) PROVE Whole(q[i], e)
  BY DEF Held
<1>1. /\ q[i] \in Packet /\ q[1] \in Packet /\ 1 \in 1 .. Len(q) /\ Len(q) \in Nat
      /\ r = q[1].start
  BY DEF Chain
<1>2. /\ \A j \in {1, i} : q[j].start \in Nat /\ Sizes(q[j].kind) \in Nat \ {0}
      /\ w \in Nat /\ r \in Nat
  BY <1>1, SizesPositive DEF Packet, Positions
<1>3. \A k \in Words(q[i].start, q[i].kind) : k \in Nat /\ q[i].start <= k
          /\ k < q[i].start + Sizes(q[i].kind)
  BY <1>2 DEF Words
<1>4. Words(q[i].start, q[i].kind) \subseteq Positions
  <2>1. CASE c < i
    <3>1. q[i].start + Sizes(q[i].kind) <= w
      BY <2>1 DEF InOrder
    <3> QED
      BY <1>2, <1>3, <3>1, BufferAssumption DEF Positions
  <2>2. CASE i = c
    <3>1. q[i].kind = "null" /\ q[i].start \in Positions
      BY <1>1, <2>2 DEF InOrder, Packet
    <3> QED
      BY <3>1 DEF Words, Sizes, Positions
  <2>3. CASE i < c
    <3>1. c \in 1 .. Len(q) /\ q[c] \in Packet
      BY <2>3 DEF InOrder
    <3>2. q[i].start + Sizes(q[i].kind) <= q[c].start /\ q[c].start \in Positions
      BY <2>3, <3>1 DEF InOrder, Packet
    <3> QED
      BY <1>2, <1>3, <3>2, BufferAssumption DEF Positions
  <2> QED
    BY <2>1, <2>2, <2>3 DEF InOrder
<1>5. \A k \in Words(q[i].start, q[i].kind) : e[k] = b[k]
  <2>1. CASE c < i
    BY <1>2, <1>3, <1>4, <2>1 DEF InOrder
  <2>2. CASE i <= c
    <3>1. c # 0 /\ w + n < r
      BY <2>2 DEF InOrder, Positions
    <3>2. r <= q[i].start
      <4>1. CASE i = 1
        BY <1>1, <1>2, <4>1
      <4>2. CASE i # 1
        BY <1>1, <1>2, <2>2, <4>2 DEF InOrder
      <4> QED
        BY <4>1, <4>2
    <3> QED
      BY <1>2, <1>3, <1>4, <3>1, <3>2
  <2> QED
    BY <2>1, <2>2 DEF InOrder
<1>6. q[i].start \in Words(q[i].start, q[i].kind)
  <2>1. q[i].start = q[i].start + 0 /\ 0 \in 0 .. Sizes(q[i].kind) - 1
    BY <1>2
  <2> QED
    BY <2>1 DEF Words
<1>7. Whole(q[i], b)
  BY DEF Held
<1> QED
  BY <1>5, <1>6, <1>7 DEF Whole

-----------------------------------------------------------------------------
(* The inductive invariant *)

WithPacket == {"roomnull", "kicknull", "null", "commitnull", "room", "kickroom", "write", "commit"}
EePlaces == WithPacket \union {"closed", "idle", "kick", "wait", "synced", "closekick", "join"}
VuPlaces == {"none", "main", "shutdown?", "drain", "commit", "kill", "exited"}

Types ==
    /\ buffer \in [Positions -> Kinds \union {"null", "data", "free"}]
    /\ atoRead \in Positions /\ mRead \in Positions
    /\ atoWrite \in Positions /\ mWrite \in Positions
    /\ sent \in Seq(Packet)
    /\ Event!TypeOK
    /\ shutdown \in BOOLEAN
    /\ kind \in Kinds \union {NoKind}
    /\ ee \in EePlaces
    /\ vu \in VuPlaces

RingInv == Ring(sent, buffer, atoRead, atoWrite)

\* How far the EE thread is with a packet, and the room it has found for it.
EeProgress ==
    /\ ee \in WithPacket => kind \in Kinds
    /\ ee \notin {"commitnull", "commit"} => mWrite = atoWrite
    /\ ee = "commitnull" => mWrite = 0 /\ buffer[atoWrite] = "null"
    /\ ee = "commit" => /\ mWrite = atoWrite + Size[kind]
                        /\ Whole([kind |-> kind, start |-> atoWrite], buffer)
    /\ ee \in {"roomnull", "kicknull", "null"} => atoWrite + Size[kind] > BufferSize - 1
    /\ ee \in {"null", "commitnull"} => atoRead # 0 /\ atoRead <= atoWrite
    /\ ee \in {"room", "kickroom", "write", "commit"} => atoWrite + Size[kind] <= BufferSize - 1
    /\ ee \in {"write", "commit"} => atoRead <= atoWrite \/ atoWrite + Size[kind] < atoRead

VuProgress ==
    /\ vu # "commit" => mRead = atoRead
    /\ vu = "commit" => sent # <<>> /\ mRead = EndOf(sent[1])

\* Where the VU thread is goes with the state of semaEvent, and the EE thread's
\* waits, Close and Open with where the VU thread is.
Threads ==
    /\ vu \in {"shutdown?", "drain", "commit", "kill"} => worker = "running"
    /\ vu = "main" => worker # "dead"
    /\ vu = "exited" => worker = "dead"
    /\ vu = "none" => worker # "waiting"
    /\ vu = "none" <=> ee = "closed"
    /\ waiter # "idle" <=> ee = "wait"
    /\ shutdown => ee \in {"closekick", "join", "closed"}
    /\ vu \in {"kill", "exited"} => shutdown

\* What is published is in front of the VU thread, or is about to be told of.
Told ==
    sent # <<>> => \/ pending
                   \/ vu \in {"shutdown?", "drain", "commit"}
                   \/ ee \in {"room", "kickroom", "write", "commit", "kick"}
                   \/ ee \in {"closekick", "join", "closed"}

\* A WaitVU that was let go, or has returned, leaves the VU thread asleep.
Quiet ==
    waiter = "released" \/ ee = "synced" =>
        sent = <<>> /\ vu = "main" /\ worker = "waiting" /\ ~pending

IInv == Types /\ RingInv /\ EeProgress /\ VuProgress /\ Threads /\ Told /\ Quiet

-----------------------------------------------------------------------------
(* Every step keeps it *)

\* An empty ring at 0.
LEMMA EmptyRing == \A b : Ring(<<>>, b, 0, 0)
BY DEF Ring, Chain, Held, InOrder

\* It holds at the start ...
LEMMA IInvInit == Init => IInv
<1> SUFFICES ASSUME Init PROVE IInv
  OBVIOUS
<1>1. Types
  <2>1. 0 \in Positions /\ buffer \in [Positions -> Kinds \union {"null", "data", "free"}]
    BY BufferAssumption DEF Init, Positions
  <2>2. sent \in Seq(Packet)
    BY DEF Init
  <2>3. Event!TypeOK /\ shutdown \in BOOLEAN
    BY DEF Init, Event!Init, Event!TypeOK
  <2>4. kind \in Kinds \union {NoKind} /\ ee \in EePlaces /\ vu \in VuPlaces
    BY DEF Init, EePlaces, VuPlaces
  <2> QED
    BY <2>1, <2>2, <2>3, <2>4 DEF Init, Types
<1>2. RingInv
  BY EmptyRing DEF Init, RingInv
<1>3. EeProgress /\ VuProgress /\ Told
  BY DEF Init, EeProgress, VuProgress, Told, WithPacket
<1>4. Threads /\ Quiet
  BY DEF Init, Threads, Quiet, Event!Init
<1> QED
  BY <1>1, <1>2, <1>3, <1>4 DEF IInv

\* The VU thread takes the packet the queue begins with.
LEMMA FirstOfRing ==
    ASSUME NEW q \in Seq(Packet), NEW b, NEW r \in Positions, NEW w \in Positions,
           Ring(q, b, r, w), r # w
    PROVE  /\ q # <<>> /\ q[1] \in Packet
           /\ q[1].start = r /\ b[r] = q[1].kind
           /\ EndOf(q[1]) \in Positions
<1>1. q # <<>>
  BY DEF Ring, Chain
<1>2. 1 \in 1 .. Len(q) /\ Len(q) \in Nat /\ \A i \in 1 .. Len(q) : q[i] \in Packet
  BY <1>1
<1>3. q[1].start = r
  BY <1>1 DEF Ring, Chain
<1>4. b[r] = q[1].kind
  BY <1>2, <1>3 DEF Ring, Held, Whole
<1>5. EndOf(q[1]) \in Positions
  <2>1. EndOf(q[1]) = IF 1 = Len(q) THEN w ELSE q[2].start
    <3>1. Chain(q, r, w) /\ 1 + 1 = 2
      BY DEF Ring
    <3> QED
      BY <1>2, <3>1 DEF Chain
  <2>2. 1 # Len(q) => 2 \in 1 .. Len(q)
    BY <1>2
  <2> QED
    BY <1>2, <2>1, <2>2 DEF Packet
<1> QED
  BY <1>1, <1>2, <1>3, <1>4, <1>5

\* The ring when its first packet is given back.
LEMMA RingAdvances ==
    ASSUME NEW q \in Seq(Packet), NEW b, NEW r \in Positions, NEW w \in Positions,
           Ring(q, b, r, w), q # <<>>
    PROVE  /\ Ring(SubSeq(q, 2, Len(q)), b, EndOf(q[1]), w)
           /\ SubSeq(q, 2, Len(q)) \in Seq(Packet)
           /\ \/ r <= w /\ EndOf(q[1]) <= w /\ r < EndOf(q[1])
              \/ w < r /\ r <= EndOf(q[1])
              \/ w < r /\ EndOf(q[1]) <= w
<1> DEFINE t == SubSeq(q, 2, Len(q))
<1>1. PICK c \in 0 .. Len(q) : InOrder(q, r, w, c)
  BY DEF Ring
<1>2. /\ t \in Seq(Packet) /\ Len(t) = Len(q) - 1 /\ Len(q) \in Nat \ {0}
      /\ \A i \in 1 .. Len(q) - 1 : t[i] = q[i + 1]
  BY TailOf
<1>3. Chain(t, EndOf(q[1]), w)
  BY TailChain DEF Ring
<1>4. InOrder(t, EndOf(q[1]), w, IF c = 0 THEN 0 ELSE c - 1)
  BY <1>1, TailInOrder DEF Ring
<1> HIDE DEF t
<1>5. Held(t, b)
  BY <1>2 DEF Ring, Held
<1>6. (IF c = 0 THEN 0 ELSE c - 1) \in 0 .. Len(t)
  BY <1>4 DEF InOrder
<1>7. Ring(t, b, EndOf(q[1]), w)
  BY <1>3, <1>4, <1>5, <1>6 DEF Ring
<1>8. /\ q[1] \in Packet /\ q[1].start = r /\ r \in Nat /\ w \in Nat
      /\ Sizes(q[1].kind) \in Nat \ {0}
  <2>1. q[1] \in Packet /\ q[1].start = r
    BY <1>2 DEF Ring, Chain
  <2> QED
    BY <2>1, SizesPositive DEF Packet, Positions
<1>9. CASE c = 0
  <2>1. q[1].kind # "null" /\ r <= w /\ r + Sizes(q[1].kind) <= w
    BY <1>1, <1>2, <1>8, <1>9 DEF InOrder
  <2> QED
    BY <1>2, <1>7, <1>8, <2>1 DEF EndOf, Sizes, t
<1>10. CASE c = 1
  <2>1. q[1].kind = "null" /\ w < r
    BY <1>1, <1>2, <1>10 DEF InOrder
  <2> QED
    BY <1>2, <1>7, <1>8, <2>1 DEF EndOf, t
<1>11. CASE c > 1
  <2>1. q[1].kind # "null" /\ w < r
    BY <1>1, <1>2, <1>11 DEF InOrder
  <2> QED
    BY <1>2, <1>7, <1>8, <2>1 DEF EndOf, Sizes, t
<1> QED
  BY <1>1, <1>9, <1>10, <1>11 DEF InOrder

\* The ring when a packet of data is published behind it.
LEMMA RingGrows ==
    ASSUME NEW q \in Seq(Packet), NEW b, NEW r \in Positions, NEW w \in Positions,
           NEW p \in Packet, p.start = w, p.kind # "null", Whole(p, b),
           EndOf(p) \in Positions, r <= w \/ EndOf(p) < r, Ring(q, b, r, w)
    PROVE  Ring(Append(q, p), b, r, EndOf(p))
<1>1. PICK c \in 0 .. Len(q) : InOrder(q, r, w, c)
  BY DEF Ring
<1>2. Chain(Append(q, p), r, EndOf(p))
  BY AppendChain DEF Ring
<1>3. InOrder(Append(q, p), r, EndOf(p), c)
  BY <1>1, AppendInOrder
<1>4. Held(Append(q, p), b)
  BY DEF Ring, Held
<1> QED
  BY <1>2, <1>3, <1>4 DEF Ring, InOrder

\* The ring when a NULL packet is published behind it.
LEMMA RingGrowsNull ==
    ASSUME NEW q \in Seq(Packet), NEW b, NEW r \in Positions, NEW w \in Positions,
           NEW p \in Packet, p.start = w, p.kind = "null", Whole(p, b),
           r <= w, r # 0, Ring(q, b, r, w)
    PROVE  Ring(Append(q, p), b, r, 0)
<1>1. PICK c \in 0 .. Len(q) : InOrder(q, r, w, c)
  BY DEF Ring
<1>2. Chain(Append(q, p), r, 0)
  BY AppendChain DEF Ring, EndOf
<1>3. InOrder(Append(q, p), r, 0, Len(q) + 1)
  BY <1>1, AppendNullInOrder
<1>4. Held(Append(q, p), b)
  BY DEF Ring, Held
<1> QED
  BY <1>2, <1>3, <1>4 DEF Ring, InOrder

\* No packet of the ring reaches into the n words that are written behind it.
LEMMA RingUntouched ==
    ASSUME NEW q \in Seq(Packet), NEW b, NEW e, NEW r \in Positions, NEW w \in Positions,
           NEW n \in Nat, Ring(q, b, r, w), r <= w \/ w + n < r,
           \A i \in Positions : ~(w <= i /\ i < w + n) => e[i] = b[i]
    PROVE  Ring(q, e, r, w)
<1>1. PICK c \in 0 .. Len(q) : InOrder(q, r, w, c)
  BY DEF Ring
<1>2. Held(q, e)
  BY <1>1, HeldOutside DEF Ring
<1> QED
  BY <1>1, <1>2 DEF Ring

\* The EE thread moves on without touching the ring or the VU thread.
LEMMA KeptByChoice ==
    ASSUME MayLap = FALSE, IInv, (\E k \in Kinds : StartPacket(k)) \/ NullRoom \/ Room
    PROVE  IInv'
<1> USE DEF IInv
<1>1. /\ UNCHANGED <<buffer, posVars, sent, semVars, shutdown, vu>>
      /\ ee \in {"idle", "roomnull", "room"} /\ ee' \in WithPacket \ {"commitnull", "commit"}
      /\ kind' \in Kinds
  BY DEF StartPacket, NullRoom, Room, Goto, EeProgress, WithPacket
<1>2. Types'
  BY <1>1 DEF Types, posVars, semVars, Event!TypeOK, EePlaces
<1>3. RingInv'
  BY <1>1 DEF RingInv, posVars
<1>4. VuProgress' /\ Threads' /\ Quiet'
  BY <1>1 DEF VuProgress, Threads, Quiet, posVars, semVars, WithPacket
<1>5. Told'
  BY <1>1 DEF Told, semVars, StartPacket, NullRoom, Room, Goto
<1>6. EeProgress'
  <2>1. CASE \E k \in Kinds : StartPacket(k)
    <3>1. PICK k \in Kinds : StartPacket(k)
      BY <2>1
    <3>2. Size[k] \in Nat /\ mWrite \in Nat /\ mWrite = atoWrite /\ BufferSize \in Nat
      BY <3>1, SizeAssumption, BufferAssumption DEF StartPacket, EeProgress, Types, Positions
    <3> QED
      BY <3>1, <3>2, <1>1 DEF StartPacket, Wraps, EeProgress, posVars, WithPacket
  <2>2. CASE NullRoom
    <3>1. ee = "roomnull" /\ kind' = kind /\ kind \in Kinds /\ mWrite = atoWrite
      BY <2>2 DEF NullRoom, Goto, EeProgress, WithPacket
    <3>2. /\ Size[kind] \in Nat /\ Size[kind] <= SafetyNet + 2
          /\ atoRead \in Nat /\ atoWrite \in Nat /\ atoRead <= BufferSize - 1
          /\ BufferSize \in Nat /\ SafetyNet \in Nat
      BY <3>1, SizeAssumption, BufferAssumption DEF Types, Positions
    <3>3. atoWrite + Size[kind] > BufferSize - 1
      BY <3>1 DEF EeProgress
    <3>4. HasRoom(1) => atoRead <= atoWrite /\ atoRead # 0
      BY <2>2, <3>1, <3>2, <3>3 DEF NullRoom, HasRoom
    <3> QED
      BY <2>2, <3>1, <3>3, <3>4, <1>1 DEF NullRoom, Goto, EeProgress, posVars, WithPacket
  <2>3. CASE Room
    <3>1. ee = "room" /\ kind' = kind /\ kind \in Kinds /\ mWrite = atoWrite
      BY <2>3 DEF Room, Goto, EeProgress, WithPacket
    <3>2. Size[kind] \in Nat /\ atoRead \in Nat /\ atoWrite \in Nat /\ SafetyNet \in Nat
      BY <3>1, SizeAssumption, BufferAssumption DEF Types, Positions
    <3>3. HasRoom(Size[kind]) => atoRead <= atoWrite \/ atoWrite + Size[kind] < atoRead
      BY <3>1, <3>2 DEF HasRoom
    <3>4. atoWrite + Size[kind] <= BufferSize - 1
      BY <3>1 DEF EeProgress
    <3> QED
      BY <2>3, <3>1, <3>3, <3>4, <1>1 DEF Room, Goto, EeProgress, posVars, WithPacket
  <2> QED
    BY <2>1, <2>2, <2>3
<1> QED
  BY <1>2, <1>3, <1>4, <1>5, <1>6

\* The EE thread tells the VU thread, waits for it, opens or closes it.
LEMMA KeptBySignal ==
    ASSUME IInv, KickStart \/ WaitVUNow \/ WaitVU \/ WaitVUReturn \/ Synced \/ Close \/ Join
    PROVE  IInv'
<1> USE DEF IInv
<1>1. /\ UNCHANGED <<buffer, posVars, sent>>
      /\ ee \in {"kicknull", "kickroom", "kick", "idle", "wait", "synced", "closekick", "join"}
      /\ ee' \in {"roomnull", "room", "idle", "synced", "wait", "closekick", "join", "closed"}
      /\ ee' = "roomnull" => ee = "kicknull" /\ kind' = kind
      /\ ee' = "room" => ee = "kickroom" /\ kind' = kind
      /\ kind' \in {kind, NoKind}
  BY DEF KickStart, WaitVUNow, WaitVU, WaitVUReturn, Synced, Close, Join, Goto
<1>2. Event!TypeOK'
  BY DEF KickStart, WaitVUNow, WaitVU, WaitVUReturn, Synced, Close, Join, semVars, Types,
         Event!TypeOK, Event!Notify, Event!StartWaitEmpty, Event!ReturnEmpty
<1>3. shutdown' \in BOOLEAN /\ vu' \in VuPlaces
  BY DEF KickStart, WaitVUNow, WaitVU, WaitVUReturn, Synced, Close, Join, Types, VuPlaces
<1>4. Types'
  BY <1>1, <1>2, <1>3 DEF Types, posVars, EePlaces, WithPacket
<1>5. RingInv'
  BY <1>1 DEF RingInv, posVars
<1>6. EeProgress'
  BY <1>1 DEF EeProgress, posVars, WithPacket
<1>7. VuProgress'
  BY <1>1 DEF VuProgress, posVars, KickStart, WaitVUNow, WaitVU, WaitVUReturn, Synced, Close, Join
<1>8. Threads' /\ Told' /\ Quiet'
  <2>1. CASE KickStart
    <3>1. /\ ee \in {"kicknull", "kickroom", "kick"} /\ ee' \in {"roomnull", "room", "idle"}
          /\ UNCHANGED <<sent, worker, waiter, shutdown, vu>>
          /\ pending' = (worker # "dead")
      BY <2>1 DEF KickStart, Goto, Event!Notify
    <3>2. ~shutdown /\ vu \notin {"none", "kill", "exited"} /\ worker # "dead"
      BY <3>1 DEF Threads, Types, VuPlaces
    <3> QED
      BY <3>1, <3>2 DEF Threads, Told, Quiet
  <2>2. CASE WaitVUNow
    <3>1. /\ ee = "idle" /\ worker # "running" /\ ~pending
          /\ ee' = "synced" /\ UNCHANGED <<sent, pending, worker, waiter, shutdown, vu>>
      BY <2>2 DEF WaitVUNow, Goto, semVars
    <3>2. vu = "main" /\ worker = "waiting"
      BY <3>1 DEF Threads, Types, VuPlaces, Event!TypeOK
    <3>3. sent = <<>>
      BY <3>1, <3>2 DEF Told
    <3> QED
      BY <3>1, <3>2, <3>3 DEF Threads, Told, Quiet
  <2>7. CASE Synced
    BY <2>7 DEF Synced, Goto, Threads, Told, Quiet, semVars
  <2>3. CASE WaitVU
    BY <2>3 DEF WaitVU, Goto, Event!StartWaitEmpty, Threads, Told, Quiet
  <2>4. CASE WaitVUReturn
    BY <2>4 DEF WaitVUReturn, Goto, Event!ReturnEmpty, Threads, Told, Quiet
  <2>5. CASE Close
    BY <2>5 DEF Close, Goto, Event!Notify, Threads, Told, Quiet, semVars
  <2>6. CASE Join
    BY <2>6 DEF Join, Goto, Threads, Told, Quiet, semVars
  <2> QED
    BY <2>1, <2>2, <2>3, <2>4, <2>5, <2>6, <2>7
<1> QED
  BY <1>4, <1>5, <1>6, <1>7, <1>8

\* The positions go back to 0, by Reset or when the VU thread is opened.
LEMMA KeptByReset ==
    ASSUME IInv, Reset \/ Open
    PROVE  IInv'
<1> USE DEF IInv
<1>1. /\ UNCHANGED buffer /\ sent' = <<>> /\ kind' = NoKind /\ ee' = "idle"
      /\ atoRead' = 0 /\ mRead' = 0 /\ atoWrite' = 0 /\ mWrite' = 0
  BY DEF Reset, Open, Goto
<1>2. Event!TypeOK'
  BY DEF Reset, Open, semVars, Types, Event!TypeOK, Event!Reset
<1>3. shutdown' \in BOOLEAN /\ vu' \in VuPlaces
  BY DEF Reset, Open, Types, VuPlaces
<1>4. 0 \in Positions /\ <<>> \in Seq(Packet)
  BY BufferAssumption DEF Positions
<1>5. Types'
  BY <1>1, <1>2, <1>3, <1>4 DEF Types, EePlaces
<1>6. RingInv'
  BY <1>1, EmptyRing DEF RingInv
<1>7. EeProgress' /\ Told'
  BY <1>1 DEF EeProgress, WithPacket, Told
<1>8. VuProgress' /\ Threads' /\ Quiet'
  <2>1. CASE Reset
    BY <2>1, <1>1 DEF Reset, Goto, VuProgress, Threads, Quiet, semVars
  <2>2. CASE Open
    BY <2>2, <1>1 DEF Open, Goto, VuProgress, Threads, Quiet, semVars, Event!Reset, Types, Event!TypeOK
  <2> QED
    BY <2>1, <2>2
<1> QED
  BY <1>5, <1>6, <1>7, <1>8

\* The EE thread writes a packet where the ring has nothing ...
LEMMA KeptByWrite ==
    ASSUME IInv, WriteNull \/ WritePacket
    PROVE  IInv'
<1> USE DEF IInv
<1>1. /\ UNCHANGED <<atoRead, mRead, atoWrite, sent, semVars, shutdown, vu, kind>>
      /\ kind \in Kinds /\ mWrite = atoWrite
      /\ ee \in {"null", "write"} /\ ee' = (IF ee = "null" THEN "commitnull" ELSE "commit")
  BY DEF WriteNull, WritePacket, Goto, EeProgress, WithPacket
<1>2. /\ Size[kind] \in Nat \ {0} /\ BufferSize \in Nat
      /\ atoRead \in Nat /\ atoWrite \in Nat /\ atoWrite \in Positions
  BY <1>1, SizeAssumption, BufferAssumption DEF Types, Positions
<1>3. kind # "null"
  BY <1>1, SizeAssumption
<1>4. CASE WriteNull
  <2>1. /\ ee = "null" /\ mWrite' = 0 /\ buffer' = [buffer EXCEPT ![atoWrite] = "null"]
        /\ atoRead # 0 /\ atoRead <= atoWrite
    BY <1>1, <1>4 DEF WriteNull, Goto, EeProgress
  <2>2. Types'
    BY <1>1, <1>2, <2>1 DEF Types, semVars, Event!TypeOK, EePlaces, WithPacket, Positions
  <2>3. buffer'[atoWrite] = "null"
        /\ \A i \in Positions : ~(atoWrite <= i /\ i < atoWrite + 1) => buffer'[i] = buffer[i]
    BY <1>2, <2>1 DEF Types, Positions
  <2>4. RingInv'
    BY <1>1, <1>2, <2>1, <2>3, RingUntouched DEF RingInv, Types
  <2>5. EeProgress'
    BY <1>1, <2>1, <2>3 DEF EeProgress, WithPacket
  <2> QED
    BY <1>1, <2>1, <2>2, <2>4, <2>5 DEF VuProgress, Threads, Told, Quiet, semVars
<1>5. CASE WritePacket
  <2>1. /\ ee = "write" /\ mWrite' = atoWrite + Size[kind]
        /\ buffer' = [p \in Positions |->
                        IF p = atoWrite THEN kind
                        ELSE IF p \in Words(atoWrite, kind) THEN "data" ELSE buffer[p]]
        /\ atoWrite + Size[kind] <= BufferSize - 1
        /\ atoRead <= atoWrite \/ atoWrite + Size[kind] < atoRead
    BY <1>1, <1>5 DEF WritePacket, Goto, EeProgress
  <2>2. Types'
    <3>1. buffer' \in [Positions -> Kinds \union {"null", "data", "free"}]
      BY <1>1, <2>1 DEF Types
    <3>2. mWrite' \in Positions
      BY <1>2, <2>1 DEF Positions
    <3> QED
      BY <1>1, <2>1, <3>1, <3>2 DEF Types, semVars, Event!TypeOK, EePlaces, WithPacket
  <2>3. \A i : i \in Words(atoWrite, kind) <=>
                 i \in Nat /\ atoWrite <= i /\ i < atoWrite + Size[kind]
    <3>1. SUFFICES ASSUME NEW i \in Nat, atoWrite <= i, i < atoWrite + Size[kind]
                   PROVE  i \in Words(atoWrite, kind)
      BY <1>2, <1>3 DEF Words, Sizes
    <3>2. i = atoWrite + (i - atoWrite) /\ i - atoWrite \in 0 .. Size[kind] - 1
      BY <1>2, <3>1
    <3> QED
      BY <1>3, <3>2 DEF Words, Sizes
  <2>4. Words(atoWrite, kind) \subseteq Positions
    BY <1>2, <2>1, <2>3 DEF Positions
  <2>5. \A i \in Positions :
            ~(atoWrite <= i /\ i < atoWrite + Size[kind]) => buffer'[i] = buffer[i]
    <3> SUFFICES ASSUME NEW i \in Positions, ~(atoWrite <= i /\ i < atoWrite + Size[kind])
                 PROVE  buffer'[i] = buffer[i]
      OBVIOUS
    <3>1. i # atoWrite /\ i \notin Words(atoWrite, kind)
      BY <1>2, <2>3 DEF Positions
    <3> QED
      BY <2>1, <3>1
  <2>6. RingInv'
    BY <1>1, <1>2, <2>1, <2>5, RingUntouched DEF RingInv, Types
  <2>7. Whole([kind |-> kind, start |-> atoWrite], buffer')
    BY <1>2, <2>1, <2>4 DEF Whole
  <2>8. EeProgress'
    BY <1>1, <2>1, <2>7 DEF EeProgress, WithPacket
  <2> QED
    BY <1>1, <2>1, <2>2, <2>6, <2>8 DEF VuProgress, Threads, Told, Quiet, semVars
<1> QED
  BY <1>4, <1>5

\* ... and publishes it.
LEMMA KeptByCommit ==
    ASSUME IInv, CommitWrite
    PROVE  IInv'
<1> USE DEF IInv
<1>1. /\ UNCHANGED <<buffer, atoRead, mRead, mWrite, semVars, shutdown, vu, kind>>
      /\ atoWrite' = mWrite /\ kind \in Kinds
      /\ ee \in {"commitnull", "commit"} /\ ee' = (IF ee = "commitnull" THEN "room" ELSE "kick")
      /\ sent' = Append(sent, [kind |-> IF ee = "commitnull" THEN "null" ELSE kind,
                               start |-> atoWrite])
  BY DEF CommitWrite, Goto, EeProgress, WithPacket
<1> DEFINE p == [kind |-> IF ee = "commitnull" THEN "null" ELSE kind, start |-> atoWrite]
<1>2. /\ p \in Packet /\ sent \in Seq(Packet) /\ sent' = Append(sent, p)
      /\ atoRead \in Positions /\ atoWrite \in Positions /\ mWrite \in Positions
      /\ Size[kind] \in 1 .. BufferSize - 1 /\ kind # "null"
  BY <1>1, SizeAssumption DEF Types, Packet
<1>3. p.start = atoWrite /\ (p.kind = "null" <=> ee = "commitnull") /\ (ee = "commit" => p.kind = kind)
  BY <1>1, <1>2
<1> HIDE DEF p
<1>4. sent' \in Seq(Packet) /\ sent' # <<>> /\ (sent # <<>> => sent'[1] = sent[1])
  BY <1>2
<1>5. Types'
  BY <1>1, <1>2, <1>4 DEF Types, semVars, Event!TypeOK, EePlaces, WithPacket
<1>6. RingInv'
  <2>1. CASE ee = "commitnull"
    <3>1. mWrite = 0 /\ buffer[atoWrite] = "null" /\ atoRead # 0 /\ atoRead <= atoWrite
      BY <2>1 DEF EeProgress
    <3>2. Words(p.start, p.kind) = {atoWrite}
      BY <1>2, <1>3, <2>1 DEF Words, Sizes, Positions
    <3>3. Whole(p, buffer)
      BY <1>3, <2>1, <3>1, <3>2 DEF Whole
    <3> QED
      BY <1>1, <1>2, <1>3, <2>1, <3>1, <3>3, RingGrowsNull DEF RingInv
  <2>2. CASE ee = "commit"
    <3>1. /\ mWrite = atoWrite + Size[kind] /\ Whole(p, buffer)
          /\ atoRead <= atoWrite \/ atoWrite + Size[kind] < atoRead
      BY <2>2 DEF EeProgress, p
    <3>2. EndOf(p) = mWrite
      BY <1>2, <1>3, <2>2, <3>1 DEF EndOf
    <3> QED
      BY <1>1, <1>2, <1>3, <2>2, <3>1, <3>2, RingGrows DEF RingInv
  <2> QED
    BY <1>1, <2>1, <2>2
<1>7. EeProgress'
  <2>1. ee = "commitnull" => mWrite = 0 /\ 0 + Size[kind] <= BufferSize - 1
    BY <1>2, BufferAssumption DEF EeProgress
  <2> QED
    BY <1>1, <2>1 DEF EeProgress, WithPacket
<1>8. VuProgress'
  BY <1>1, <1>4 DEF VuProgress
<1>9. Threads' /\ Told' /\ Quiet'
  BY <1>1 DEF Threads, Told, Quiet, semVars
<1> QED
  BY <1>5, <1>6, <1>7, <1>8, <1>9

\* The VU thread waits, is told, and goes to the ring or away.
LEMMA KeptByVuThread ==
    ASSUME IInv, VuWaitForWork \/ VuCheckShutdown \/ VuDrained \/ VuKill
    PROVE  IInv'
<1> USE DEF IInv
<1>1. /\ UNCHANGED <<buffer, posVars, sent, shutdown, ee, kind>>
      /\ vu \in {"main", "shutdown?", "drain", "kill"}
      /\ vu' \in {"main", "shutdown?", "drain", "kill", "exited"}
  BY DEF VuWaitForWork, VuCheckShutdown, VuDrained, VuKill, VuGoto
<1>2. Event!TypeOK'
  BY DEF VuWaitForWork, VuCheckShutdown, VuDrained, VuKill, semVars, Types, Event!TypeOK,
         Event!StartWait, Event!Wake, Event!Take, Event!Kill, Event!Released
<1>3. Types'
  BY <1>1, <1>2 DEF Types, posVars, VuPlaces
<1>4. RingInv' /\ EeProgress' /\ VuProgress'
  BY <1>1 DEF RingInv, EeProgress, VuProgress, posVars
<1>5. CASE VuWaitForWork
  <2>1. CASE Event!StartWait
    <3>1. /\ worker = "running" /\ ~pending /\ worker' = "waiting" /\ ~pending'
          /\ waiter' = (IF waiter = "waiting" THEN "released" ELSE waiter)
          /\ vu = "main" /\ vu' = "main"
      BY <1>5, <2>1 DEF VuWaitForWork, Event!StartWait, Event!Released, Event!Take
    <3>2. ee = "wait" => sent = <<>>
      BY <3>1 DEF Told
    <3> QED
      BY <1>1, <1>3, <1>4, <3>1, <3>2 DEF Threads, Told, Quiet
  <2>2. CASE Event!Wake \/ Event!Take
    <3>1. /\ pending /\ worker' = "running" /\ waiter' = waiter /\ vu = "main"
          /\ (vu' = "main" /\ pending') \/ vu' = "shutdown?"
      BY <1>5, <2>2 DEF VuWaitForWork, Event!Wake, Event!Take, Event!StartWait
    <3> QED
      BY <1>1, <1>3, <1>4, <3>1 DEF Threads, Told, Quiet
  <2> QED
    BY <1>5, <2>1, <2>2 DEF VuWaitForWork
<1>6. CASE VuCheckShutdown
  BY <1>1, <1>3, <1>4, <1>6 DEF VuCheckShutdown, VuGoto, Threads, Told, Quiet, semVars
<1>7. CASE VuDrained
  <2>1. sent = <<>>
    BY <1>7, EqualIsEmpty DEF VuDrained, RingInv, Ring, Types
  <2> QED
    BY <1>1, <1>3, <1>4, <1>7, <2>1 DEF VuDrained, VuGoto, Threads, Told, Quiet, semVars
<1>8. CASE VuKill
  BY <1>1, <1>3, <1>4, <1>8 DEF VuKill, VuGoto, Event!Kill, Event!Released, Threads, Told, Quiet
<1> QED
  BY <1>5, <1>6, <1>7, <1>8

\* The VU thread takes a packet and gives its room back.
LEMMA KeptByVuPacket ==
    ASSUME IInv, VuExecute \/ VuCommit
    PROVE  IInv'
<1> USE DEF IInv
<1>1. /\ UNCHANGED <<buffer, atoWrite, mWrite, semVars, shutdown, ee, kind>>
      /\ vu \in {"drain", "commit"}
  BY DEF VuExecute, VuCommit, VuGoto
<1>2. sent \in Seq(Packet) /\ atoRead \in Positions /\ atoWrite \in Positions
  BY DEF Types
<1>3. waiter # "released" /\ ee # "synced" /\ (waiter # "idle" <=> ee = "wait")
  BY <1>1 DEF Quiet, Threads
<1>4. CASE VuExecute
  <2>1. /\ sent # <<>> /\ sent[1] \in Packet /\ buffer[atoRead] = sent[1].kind
        /\ sent[1].start = atoRead /\ EndOf(sent[1]) \in Positions
    BY <1>2, <1>4, FirstOfRing DEF VuExecute, RingInv
  <2>2. sent[1].kind \in Kinds \union {"null"} /\ "null" \notin Kinds
    BY <2>1, SizeAssumption DEF Packet
  <2>3. /\ mRead = atoRead /\ vu = "drain" /\ vu' = "commit" /\ mRead' = EndOf(sent[1])
        /\ UNCHANGED <<atoRead, sent>>
    BY <1>4, <2>1, <2>2 DEF VuExecute, VuGoto, VuProgress, EndOf
  <2>4. Types'
    BY <1>1, <2>1, <2>3 DEF Types, semVars, Event!TypeOK, VuPlaces
  <2>5. RingInv' /\ EeProgress' /\ VuProgress'
    BY <1>1, <2>1, <2>3 DEF RingInv, EeProgress, VuProgress
  <2> QED
    BY <1>1, <1>3, <2>3, <2>4, <2>5 DEF Threads, Told, Quiet, semVars
<1>5. CASE VuCommit
  <2>1. /\ sent # <<>> /\ mRead = EndOf(sent[1]) /\ UNCHANGED mRead
        /\ vu = "commit" /\ vu' = "drain"
        /\ atoRead' = EndOf(sent[1]) /\ sent' = SubSeq(sent, 2, Len(sent))
    BY <1>5 DEF VuCommit, VuGoto, VuProgress
  <2>2. /\ Ring(sent', buffer, atoRead', atoWrite) /\ sent' \in Seq(Packet)
        /\ \/ atoRead <= atoWrite /\ atoRead' <= atoWrite /\ atoRead < atoRead'
           \/ atoWrite < atoRead /\ atoRead <= atoRead'
           \/ atoWrite < atoRead /\ atoRead' <= atoWrite
    BY <1>2, <2>1, RingAdvances DEF RingInv
  <2>3. Types'
    BY <1>1, <2>1, <2>2 DEF Types, semVars, Event!TypeOK, VuPlaces
  <2>4. RingInv' /\ VuProgress'
    BY <1>1, <2>1, <2>2 DEF RingInv, VuProgress
  <2>5. EeProgress'
    <3>1. atoRead \in Nat /\ atoRead' \in Nat /\ atoWrite \in Nat /\ (ee \in WithPacket => Size[kind] \in Nat)
      BY <1>2, <2>3, SizeAssumption DEF Positions, Types, EeProgress
    <3>2. atoRead <= atoWrite => atoRead' # 0 /\ atoRead' <= atoWrite
      BY <2>2, <3>1
    <3>3. ee \in {"write", "commit"} => atoRead' <= atoWrite \/ atoWrite + Size[kind] < atoRead'
      BY <2>2, <3>1 DEF EeProgress, WithPacket
    <3> QED
      BY <1>1, <3>2, <3>3 DEF EeProgress
  <2> QED
    BY <1>1, <1>3, <2>1, <2>3, <2>4, <2>5 DEF Threads, Told, Quiet, semVars
<1> QED
  BY <1>4, <1>5

\* ... and every step keeps it, lapping excepted.
LEMMA IInvStep ==
    ASSUME MayLap = FALSE, IInv, [Next]_vars
    PROVE  IInv'
<1>1. CASE EeStep
  BY <1>1, KeptByChoice, KeptBySignal, KeptByWrite, KeptByCommit DEF EeStep
<1>2. CASE EeChoice
  BY <1>2, KeptByChoice, KeptBySignal, KeptByReset DEF EeChoice
<1>3. CASE VuStep
  BY <1>3, KeptByVuThread, KeptByVuPacket DEF VuStep
<1>4. CASE UNCHANGED vars
  <2>1. Types'
    BY <1>4 DEF vars, posVars, semVars, IInv, Types, Event!TypeOK
  <2>2. RingInv' /\ EeProgress' /\ VuProgress' /\ Threads' /\ Told' /\ Quiet'
    BY <1>4 DEF vars, posVars, semVars, IInv, RingInv, EeProgress, VuProgress, Threads, Told, Quiet
  <2> QED
    BY <2>1, <2>2 DEF IInv
<1> QED
  BY <1>1, <1>2, <1>3, <1>4 DEF Next

\* What the invariant says of the packets and the published positions.
LEMMA RingIsQueue == IInv => RingIsTheQueue
<1> SUFFICES ASSUME IInv PROVE RingIsTheQueue
  OBVIOUS
<1>1. sent \in Seq(Packet) /\ vu # "lost" /\ DOMAIN sent = 1 .. Len(sent)
  BY DEF IInv, Types, VuPlaces
<1>2. Chain(sent, atoRead, atoWrite) /\ Held(sent, buffer)
  BY DEF IInv, RingInv, Ring
<1> QED
  BY <1>1, <1>2 DEF RingIsTheQueue, Chain, Held, Whole, EndOf

\* What it says of equal positions.
LEMMA EqualEmpty == IInv => EqualMeansEmpty
BY EqualIsEmpty DEF IInv, Types, RingInv, Ring, EqualMeansEmpty

-----------------------------------------------------------------------------
(* The theorems.  MayLap = FALSE: the EE thread does not come round to a     *)
(* reader on 0; what happens when it does is shown by a run of TLC.          *)

\* The invariant holds in every state of the two threads.
THEOREM Invariance == MayLap = FALSE => (Spec => []IInv)
<1> SUFFICES ASSUME MayLap = FALSE PROVE Spec => []IInv
  OBVIOUS
<1>1. IInv /\ [Next]_vars => IInv'
  BY IInvStep
<1> QED
  BY <1>1, IInvInit, PTL DEF Spec

\* Every position stays inside the buffer, whatever is written and executed.
THEOREM TypeCorrect == MayLap = FALSE => (Spec => []TypeOK)
<1> SUFFICES ASSUME MayLap = FALSE PROVE Spec => []TypeOK
  OBVIOUS
<1>1. IInv => TypeOK
  BY DEF IInv, Types, TypeOK, Packet, EePlaces, WithPacket, VuPlaces
<1> QED
  BY <1>1, Invariance, PTL

\* The buffer holds the packets that were published, in order and whole, until
\* the VU thread gives their room back (ReserveSpace and ExecuteRingBuffer).
THEOREM RingCorrect == MayLap = FALSE => (Spec => []RingIsTheQueue)
<1> SUFFICES ASSUME MayLap = FALSE PROVE Spec => []RingIsTheQueue
  OBVIOUS
<1> QED
  BY RingIsQueue, Invariance, PTL

\* A full ring is never taken for an empty one (MTVU.h:18).
THEOREM EqualCorrect == MayLap = FALSE => (Spec => []EqualMeansEmpty)
<1> SUFFICES ASSUME MayLap = FALSE PROVE Spec => []EqualMeansEmpty
  OBVIOUS
<1> QED
  BY EqualEmpty, Invariance, PTL

\* When WaitVU returns, every packet is executed and the VU thread is asleep.
THEOREM WaitVUCorrect == MayLap = FALSE => (Spec => []WaitVUMeansDone)
<1> SUFFICES ASSUME MayLap = FALSE PROVE Spec => []WaitVUMeansDone
  OBVIOUS
<1>1. IInv => WaitVUMeansDone
  BY DEF IInv, Quiet, VuProgress, WaitVUMeansDone
<1> QED
  BY <1>1, Invariance, PTL
====
