---- MODULE MtgsProofs ----
(***************************************************************************)
(* The GS thread and its ring for every size of the ring and of a vsync    *)
(* packet and every limit, each ResetGS(true) following a WaitGS: the ring *)
(* is the queue, no Post is lost or left over, WaitGS means done, and the  *)
(* two threads agree on whether the renderer is open.                      *)
(***************************************************************************)
EXTENDS Mtgs, SequenceTheorems, FiniteSetTheorems, FunctionTheorems, TLAPS

Packet == [cmd : AllCmds, start : Positions]

\* How far p lies in front of r.
Off(r, p) == IF r <= p THEN p - r ELSE p - r + RingBufferSize

EndOf(p) == Wrap(p.start + Size(p.cmd))

\* The packets of q follow each other from r to w ...
Chain(q, r, w) ==
    /\ r = (IF q = <<>> THEN w ELSE q[1].start)
    /\ \A i \in 1 .. Len(q) :
        EndOf(q[i]) = (IF i = Len(q) THEN w ELSE q[i + 1].start)

\* ... and come round at most once.
InOrder(q, r, w) ==
    /\ \A i, j \in 1 .. Len(q) :
        i < j => Off(r, q[i].start) + Size(q[i].cmd) <= Off(r, q[j].start)
    /\ \A i \in 1 .. Len(q) : Off(r, q[i].start) + Size(q[i].cmd) <= Off(r, w)

\* A packet is whole in the ring b.
Whole(p, b) ==
    /\ b[p.start] = p.cmd
    /\ \A k \in Slots(p.start, p.cmd) \ {p.start} : b[k] = "data"

Ring(q, b, r, w) ==
    /\ Chain(q, r, w)
    /\ InOrder(q, r, w)
    /\ \A i \in 1 .. Len(q) : Whole(q[i], b)

Vsyncs(q) == {i \in 1 .. Len(q) : q[i].cmd = "vsync"}
Sending == {"stall", "sigon", "sigevent", "sigwait", "sigread", "spinevent", "spin", "write",
            "publish", "event", "vscount", "vslisten", "vswait"}
Waiting == {"waitevent", "wait", "waiting", "synced", "resetvs"}
EePlaces == Sending \union Waiting \union
            {"idle", "open", "opennotify", "openwait", "shutclose", "closenotify", "closewait",
             "shutnotify", "join"}

\* The places of the GS thread outside and inside of MainLoop.
Outside == {"reset", "entry", "entryshut", "entrywait"}
InPacket == {"process", "vssub", "vslisten", "vspost", "advance"}
Draining == InPacket \union {"checkopen", "drain", "signal", "signalcount", "signaloff", "signalpost"}
MainLoop == Draining \union {"main", "valve", "valvepos", "valvepost", "valvevs", "valvevspost"}
GsPlaces == Outside \union MainLoop \union
            {"none", "opening", "openpost", "exit", "kill", "closing", "closepost", "exited"}

Types ==
    /\ ring \in [Positions -> AllCmds \union {"data", "free"}]
    /\ readPos \in Positions /\ writePos \in Positions
    /\ sent \in Seq(Packet)
    /\ Event!TypeOK
    /\ sig \in [enable : BOOLEAN, pos : Int, posts : Nat]
    /\ vs \in [queued : Int, listener : BOOLEAN, posts : Nat]
    /\ gate \in [open : BOOLEAN, shutdown : BOOLEAN, done : Nat, thread : BOOLEAN]
    /\ gsOpen \in BOOLEAN
    /\ ee \in EePlaces
    /\ cmd \in AllCmds \union {"none"}
    /\ gs \in GsPlaces
    /\ cur \in AllCmds \union {"none"}

RingInv == Ring(sent, ring, readPos, writePos)

\* The packet the EE thread has in hand, and the room it has found for it.
EeHand ==
    /\ ee \in (Sending \ {"vslisten", "vswait"}) \union {"resetvs"} => cmd \in AllCmds
    /\ ee = "vscount" => cmd = "vsync"
    /\ ee \in {"write", "publish"} => Off(readPos, writePos) + Size(cmd) < RingBufferSize
    /\ ee = "publish" => Whole([cmd |-> cmd, start |-> writePos], ring)

\* The packet the GS thread has in hand is the oldest.
GsHand ==
    /\ gs \in InPacket => sent # <<>> /\ sent[1].cmd = cur
    /\ gs \in {"vssub", "vslisten", "vspost"} => cur = "vsync"

\* Which places of the two threads go together, with which flags.
NoThread ==
    /\ ee = "idle" /\ gs = "none"
    /\ ~gate.thread /\ ~gate.open /\ ~gsOpen /\ gate.done = 0
Closed ==
    /\ ee \in {"idle", "open"} /\ gs \in Outside
    /\ gate.thread /\ ~gate.shutdown /\ ~gate.open /\ ~gsOpen /\ gate.done = 0
Opening ==
    /\ ee \in {"opennotify", "openwait"}
    /\ gate.thread /\ ~gate.shutdown
    /\ \/ gs \in Outside \union {"opening"} /\ gate.open /\ ~gsOpen /\ gate.done = 0
       \/ gs = "openpost" /\ gate.open = gsOpen /\ gate.done = 0
       \/ gs \in MainLoop /\ gate.open /\ gsOpen /\ gate.done = 1
       \/ gs \in Outside /\ ~gate.open /\ ~gsOpen /\ gate.done = 1
Opened ==
    /\ ee \in Sending \union Waiting \union {"idle", "shutclose"} /\ gs \in MainLoop
    /\ gate.thread /\ (gate.shutdown <=> ee = "shutclose")
    /\ gate.open /\ gsOpen /\ gate.done = 0
Closing ==
    /\ ee \in {"closenotify", "closewait"}
    /\ gate.thread /\ ~gate.open
    /\ \/ gs \in MainLoop \union {"exit", "kill", "closing"} /\ gsOpen /\ gate.done = 0
       \/ gs = "closepost" /\ ~gsOpen /\ gate.done = 0
       \/ gs \in Outside /\ ~gsOpen /\ gate.done = 1
       \/ gs = "exited" /\ gate.shutdown /\ ~gsOpen /\ gate.done = 1
ShutDown ==
    /\ ee \in {"shutnotify", "join"} /\ gs \in Outside \union {"exited"}
    /\ gate.thread /\ gate.shutdown /\ ~gate.open /\ ~gsOpen /\ gate.done = 0
Handshake == NoThread \/ Closed \/ Opening \/ Opened \/ Closing \/ ShutDown

\* Where the GS thread is goes with the state of s_sem_event.
WorkerMatches ==
    /\ gs \in {"closing", "closepost", "reset", "exited"} => worker = "dead"
    /\ gs \in {"main", "entrywait"} => worker # "dead"
    /\ gs = "none" => worker # "waiting"
    /\ gs \notin {"none", "closing", "closepost", "reset", "exited", "main", "entrywait"}
        => worker = "running"
    /\ waiter # "idle" <=> ee = "waiting"

\* In WaitGS what is in the ring is in front of the GS thread; once WaitGS was
\* let go there is nothing in it.
Told == ee \in {"wait", "waiting"} /\ sent # <<>> => pending \/ gs \in Draining
Quiet ==
    waiter = "released" \/ ee \in {"synced", "resetvs"} => sent = <<>> /\ gs \notin InPacket

\* Frames are counted, and none is dropped when the renderer is closed.
Frames ==
    /\ vs.queued
        + (IF ee \in {"event", "vscount"} /\ cmd = "vsync" THEN 1 ELSE 0)
        + (IF gs \in {"vslisten", "vspost", "advance"} /\ cur = "vsync" THEN 1 ELSE 0)
        = Cardinality(Vsyncs(sent))
    /\ ee \in {"shutclose", "closenotify", "closewait"} =>
        \A i \in 1 .. Len(sent) : sent[i].cmd # "vsync"

\* The Posts of s_sem_OnRingReset and s_sem_Vsync, and what is left to count.
Posts ==
    /\ (IF sig.enable /\ gs # "signaloff" THEN 1 ELSE 0)
         + (IF gs \in {"signaloff", "signalpost", "valvepos", "valvepost"} THEN 1 ELSE 0)
         + sig.posts
         = (IF ee \in {"sigevent", "sigwait"} THEN 1 ELSE 0)
    /\ (IF vs.listener THEN 1 ELSE 0)
         + (IF gs \in {"vspost", "valvevspost"} THEN 1 ELSE 0) + vs.posts
         = (IF ee = "vswait" THEN 1 ELSE 0)
    /\ gs = "signalcount" => sig.enable
    /\ gs \in {"signaloff", "signalpost", "valvepost"} => sig.pos <= 0
    /\ sig.posts > 0 \/ ee = "sigread" => sig.pos <= 0

IInv ==
    /\ Types /\ RingInv /\ EeHand /\ GsHand /\ Handshake /\ WorkerMatches
    /\ Told /\ Quiet /\ Frames /\ Posts

-----------------------------------------------------------------------------
(* Distances on the ring *)

\* A packet has a quadword at least and does not fill the ring.
LEMMA SizeType == \A c : Size(c) \in Nat /\ 0 < Size(c) /\ Size(c) < RingBufferSize
BY RingAssumption DEF Size

\* The mask brings back a position that ran off the ring.
LEMMA WrapIs ==
    ASSUME NEW p \in 0 .. 2 * RingBufferSize - 1
    PROVE  Wrap(p) = IF p < RingBufferSize THEN p ELSE p - RingBufferSize
<1>1. RingBufferSize \in Nat /\ RingBufferSize > 0
  BY RingAssumption
<1>2. CASE p < RingBufferSize
  BY <1>1, <1>2 DEF Wrap
<1>3. CASE p >= RingBufferSize
  BY <1>1, <1>3 DEF Wrap
<1> QED
  BY <1>1, <1>2, <1>3

\* Going n on from p goes n away from r.
LEMMA OffStep ==
    ASSUME NEW r \in Positions, NEW p \in Positions, NEW n \in Nat,
           Off(r, p) + n < RingBufferSize
    PROVE  /\ Wrap(p + n) \in Positions
           /\ Off(r, Wrap(p + n)) = Off(r, p) + n
<1>1. RingBufferSize \in Nat /\ RingBufferSize > 0 /\ p \in Nat /\ r \in Nat
      /\ p < RingBufferSize /\ r < RingBufferSize
  BY RingAssumption DEF Positions
<1>2. p + n \in 0 .. 2 * RingBufferSize - 1
  BY <1>1 DEF Off
<1> DEFINE x == p + n
<1>3. x \in 0 .. 2 * RingBufferSize - 1
  BY <1>2
<1> HIDE DEF x
<1>4. Wrap(x) = IF x < RingBufferSize THEN x ELSE x - RingBufferSize
  BY <1>3, WrapIs
<1> QED
  BY <1>1, <1>4 DEF Off, Positions, x

\* Moving r on by n brings it n nearer to what is at least n away.
LEMMA OffMove ==
    ASSUME NEW r \in Positions, NEW p \in Positions, NEW n \in Nat, n <= Off(r, p)
    PROVE  /\ Wrap(r + n) \in Positions
           /\ Off(Wrap(r + n), p) = Off(r, p) - n
<1>1. RingBufferSize \in Nat /\ RingBufferSize > 0 /\ p \in Nat /\ r \in Nat
      /\ p < RingBufferSize /\ r < RingBufferSize
  BY RingAssumption DEF Positions
<1>2. r + n \in 0 .. 2 * RingBufferSize - 1
  BY <1>1 DEF Off
<1> DEFINE x == r + n
<1>3. x \in 0 .. 2 * RingBufferSize - 1
  BY <1>2
<1> HIDE DEF x
<1>4. Wrap(x) = IF x < RingBufferSize THEN x ELSE x - RingBufferSize
  BY <1>3, WrapIs
<1> QED
  BY <1>1, <1>4 DEF Off, Positions, x

\* A distance is less than the ring, and nothing from r to itself.
LEMMA OffType ==
    ASSUME NEW r \in Positions, NEW p \in Positions
    PROVE  Off(r, p) \in Nat /\ Off(r, p) < RingBufferSize /\ Off(r, r) = 0
BY RingAssumption DEF Off, Positions

\* The quadwords of a packet, as distances from r.
LEMMA SlotsLie ==
    ASSUME NEW r \in Positions, NEW p \in Positions, NEW c,
           Off(r, p) + Size(c) <= RingBufferSize, NEW k \in Slots(p, c)
    PROVE  /\ k \in Positions
           /\ Off(r, p) <= Off(r, k) /\ Off(r, k) < Off(r, p) + Size(c)
<1>1. PICK n \in 0 .. Size(c) - 1 : k = Wrap(p + n)
  BY DEF Slots
<1>2. Size(c) \in Nat /\ Off(r, p) \in Nat /\ RingBufferSize \in Nat
  BY SizeType, OffType, RingAssumption
<1>3. n \in Nat /\ n < Size(c) /\ Off(r, p) + n < RingBufferSize
  BY <1>2
<1>4. k \in Positions /\ Off(r, k) = Off(r, p) + n
  BY <1>1, <1>3, OffStep
<1> QED
  BY <1>2, <1>3, <1>4

\* The tag is one of a packet's quadwords.
LEMMA StartInSlots ==
    ASSUME NEW p \in Positions, NEW c
    PROVE  p \in Slots(p, c)
<1>1. Wrap(p + 0) = p /\ 0 \in 0 .. Size(c) - 1
  BY SizeType, WrapIs, RingAssumption DEF Positions
<1> QED
  BY <1>1 DEF Slots

-----------------------------------------------------------------------------
(* Facts about a queue of packets *)

\* What lies in a queue, in numbers.
LEMMA Lies ==
    ASSUME NEW q \in Seq(Packet), NEW r \in Positions, NEW w \in Positions,
           InOrder(q, r, w), NEW i \in 1 .. Len(q)
    PROVE  /\ q[i] \in Packet /\ q[i].start \in Positions
           /\ Off(r, q[i].start) \in Nat
           /\ Off(r, q[i].start) + Size(q[i].cmd) <= Off(r, w)
           /\ Off(r, q[i].start) + Size(q[i].cmd) < RingBufferSize
<1>1. q[i] \in Packet
  OBVIOUS
<1>2. q[i].start \in Positions
  BY <1>1 DEF Packet
<1>3. Off(r, q[i].start) + Size(q[i].cmd) <= Off(r, w)
  BY DEF InOrder
<1>4. Off(r, w) \in Nat /\ Off(r, w) < RingBufferSize /\ Off(r, q[i].start) \in Nat
  BY <1>2, OffType
<1> QED
  BY <1>1, <1>2, <1>3, <1>4, SizeType, RingAssumption

\* The queue begins at r.
LEMMA FirstOfRing ==
    ASSUME NEW q \in Seq(Packet), NEW b, NEW r, NEW w, Ring(q, b, r, w), r # w
    PROVE  q # <<>> /\ 1 \in 1 .. Len(q) /\ q[1] \in Packet /\ q[1].start = r /\ b[r] = q[1].cmd
<1>1. q # <<>>
  BY DEF Ring, Chain
<1>2. 1 \in 1 .. Len(q) /\ Len(q) \in Nat
  BY <1>1
<1>3. q[1] \in Packet /\ q[1].start = r
  BY <1>1, <1>2 DEF Ring, Chain
<1> QED
  BY <1>1, <1>2, <1>3 DEF Ring, Whole

\* Equal positions mean an empty queue: the ring is never filled.
LEMMA EqualIsEmpty ==
    ASSUME NEW q \in Seq(Packet), NEW b, NEW r \in Positions, Ring(q, b, r, r)
    PROVE  q = <<>>
<1> SUFFICES ASSUME q # <<>> PROVE FALSE
  OBVIOUS
<1>1. 1 \in 1 .. Len(q) /\ q[1].start = r
  BY DEF Ring, Chain
<1>2. Off(r, q[1].start) + Size(q[1].cmd) <= Off(r, r)
  BY <1>1 DEF Ring, InOrder
<1> QED
  BY <1>1, <1>2, OffType, SizeType

\* The queue behind its first packet.
LEMMA TailOf ==
    ASSUME NEW q \in Seq(Packet), q # <<>>
    PROVE  LET t == SubSeq(q, 2, Len(q)) IN
           /\ t \in Seq(Packet) /\ Len(t) = Len(q) - 1 /\ Len(q) \in Nat \ {0}
           /\ \A i \in 1 .. Len(q) - 1 : t[i] = q[i + 1]
           /\ t = <<>> <=> Len(q) = 1
<1> DEFINE t == SubSeq(q, 2, Len(q))
           m == Len(q)
<1>1. m \in Nat \ {0} /\ \A i \in 2 .. m : q[i] \in Packet
  OBVIOUS
<1>2. /\ t \in Seq(Packet)
      /\ Len(t) = IF 2 <= m THEN m - 2 + 1 ELSE 0
      /\ \A i \in 1 .. m - 2 + 1 : t[i] = q[2 + i - 1]
  BY <1>1, SubSeqProperties
<1>3. t = <<>> <=> Len(t) = 0
  BY <1>2
<1> HIDE DEF t, m
<1>4. Len(t) = m - 1
  BY <1>1, <1>2
<1>5. ASSUME NEW i \in 1 .. m - 1 PROVE t[i] = q[i + 1]
  <2>1. m - 2 + 1 = m - 1 /\ 2 + i - 1 = i + 1
    BY <1>1
  <2> QED
    BY <1>2, <2>1
<1>6. t = <<>> <=> m = 1
  BY <1>1, <1>3, <1>4
<1> QED
  BY <1>1, <1>2, <1>4, <1>5, <1>6 DEF t, m

\* Writing where the queue has nothing leaves its packets whole.
LEMMA RingUntouched ==
    ASSUME NEW q \in Seq(Packet), NEW b, NEW e, NEW r \in Positions, NEW w \in Positions,
           NEW c, Off(r, w) + Size(c) < RingBufferSize, Ring(q, b, r, w),
           \A k \in Positions \ Slots(w, c) : e[k] = b[k]
    PROVE  Ring(q, e, r, w)
<1> SUFFICES ASSUME NEW i \in 1 .. Len(q) PROVE Whole(q[i], e)
  BY DEF Ring
<1>1. /\ q[i].start \in Positions /\ Off(r, q[i].start) \in Nat
      /\ Off(r, q[i].start) + Size(q[i].cmd) <= Off(r, w)
      /\ Off(r, q[i].start) + Size(q[i].cmd) < RingBufferSize
  BY Lies DEF Ring
<1>2. RingBufferSize \in Nat /\ Off(r, w) \in Nat /\ Size(c) \in Nat /\ Size(q[i].cmd) \in Nat
  BY RingAssumption, OffType, SizeType
<1>3. ASSUME NEW k \in Slots(q[i].start, q[i].cmd) PROVE e[k] = b[k]
  <2>1. k \in Positions /\ Off(r, k) < Off(r, q[i].start) + Size(q[i].cmd)
    BY <1>1, <1>2, <1>3, SlotsLie
  <2>2. k \in Slots(w, c) => Off(r, w) <= Off(r, k)
    BY <1>2, SlotsLie
  <2>3. Off(r, k) \in Nat
    BY <2>1, OffType
  <2> QED
    BY <1>1, <1>2, <2>1, <2>2, <2>3
<1>4. q[i].start \in Slots(q[i].start, q[i].cmd)
  BY <1>1, StartInSlots
<1>5. Whole(q[i], b)
  BY DEF Ring
<1> QED
  BY <1>3, <1>4, <1>5 DEF Whole

\* A packet is published behind the queue.
LEMMA RingGrows ==
    ASSUME NEW q \in Seq(Packet), NEW b, NEW r \in Positions, NEW w \in Positions,
           NEW p \in Packet, p.start = w, Whole(p, b),
           Off(r, w) + Size(p.cmd) < RingBufferSize, Ring(q, b, r, w)
    PROVE  Ring(Append(q, p), b, r, EndOf(p)) /\ EndOf(p) \in Positions
<1> DEFINE a == Append(q, p)
<1>1. /\ Len(a) = Len(q) + 1 /\ Len(q) \in Nat /\ a # <<>>
      /\ \A i \in 1 .. Len(q) : a[i] = q[i]
      /\ a[Len(q) + 1] = p
  OBVIOUS
<1> HIDE DEF a
<1>2. EndOf(p) \in Positions /\ Off(r, EndOf(p)) = Off(r, w) + Size(p.cmd)
  BY SizeType, OffStep DEF EndOf
<1>3. Off(r, w) \in Nat /\ Size(p.cmd) \in Nat
  BY OffType, SizeType
<1>4. Chain(a, r, EndOf(p))
  <2>1. r = a[1].start
    BY <1>1 DEF Ring, Chain
  <2>2. ASSUME NEW i \in 1 .. Len(a)
        PROVE  EndOf(a[i]) = IF i = Len(a) THEN EndOf(p) ELSE a[i + 1].start
    <3>1. CASE i = Len(q) + 1
      BY <1>1, <3>1
    <3>2. CASE i = Len(q) /\ i >= 1
      BY <1>1, <3>2 DEF Ring, Chain
    <3>3. CASE i < Len(q)
      BY <1>1, <3>3 DEF Ring, Chain
    <3> QED
      BY <1>1, <3>1, <3>2, <3>3
  <2> QED
    BY <1>1, <2>1, <2>2 DEF Chain
<1>5. \A i \in 1 .. Len(q) : /\ Off(r, q[i].start) \in Nat /\ Size(q[i].cmd) \in Nat
                             /\ Off(r, q[i].start) + Size(q[i].cmd) <= Off(r, w)
  BY Lies, SizeType DEF Ring
<1>6. InOrder(a, r, EndOf(p))
  <2>1. ASSUME NEW i \in 1 .. Len(a), NEW j \in 1 .. Len(a), i < j
        PROVE  Off(r, a[i].start) + Size(a[i].cmd) <= Off(r, a[j].start)
    <3>1. i \in 1 .. Len(q)
      BY <1>1, <2>1
    <3>2. CASE j \in 1 .. Len(q)
      BY <1>1, <2>1, <3>1, <3>2 DEF Ring, InOrder
    <3>3. CASE j = Len(q) + 1
      BY <1>1, <1>5, <3>1, <3>3
    <3> QED
      BY <1>1, <3>2, <3>3
  <2>2. ASSUME NEW i \in 1 .. Len(a)
        PROVE  Off(r, a[i].start) + Size(a[i].cmd) <= Off(r, EndOf(p))
    <3>1. CASE i \in 1 .. Len(q)
      BY <1>1, <1>2, <1>3, <1>5, <3>1
    <3>2. CASE i = Len(q) + 1
      BY <1>1, <1>2, <1>3, <3>2
    <3> QED
      BY <1>1, <3>1, <3>2
  <2> QED
    BY <2>1, <2>2 DEF InOrder
<1>7. \A i \in 1 .. Len(a) : Whole(a[i], b)
  <2> SUFFICES ASSUME NEW i \in 1 .. Len(a) PROVE Whole(a[i], b)
    OBVIOUS
  <2>1. i \in 1 .. Len(q) \/ i = Len(q) + 1
    BY <1>1
  <2> QED
    BY <1>1, <2>1 DEF Ring
<1> QED
  BY <1>2, <1>4, <1>6, <1>7 DEF Ring, a

\* The first packet is executed and its quadwords are given back.
LEMMA RingAdvances ==
    ASSUME NEW q \in Seq(Packet), NEW b, NEW e, NEW r \in Positions, NEW w \in Positions,
           q # <<>>, Ring(q, b, r, w),
           \A k \in Positions \ Slots(r, q[1].cmd) : e[k] = b[k]
    PROVE  /\ EndOf(q[1]) = Wrap(r + Size(q[1].cmd)) /\ EndOf(q[1]) \in Positions
           /\ Ring(SubSeq(q, 2, Len(q)), e, EndOf(q[1]), w)
           /\ Off(EndOf(q[1]), w) = Off(r, w) - Size(q[1].cmd)
           /\ Size(q[1].cmd) <= Off(r, w)
<1> DEFINE t == SubSeq(q, 2, Len(q))
           s == Size(q[1].cmd)
<1>1. /\ t \in Seq(Packet) /\ Len(t) = Len(q) - 1 /\ Len(q) \in Nat \ {0}
      /\ \A i \in 1 .. Len(q) - 1 : t[i] = q[i + 1]
      /\ t = <<>> <=> Len(q) = 1
  BY TailOf
<1>2. 1 \in 1 .. Len(q) /\ q[1].start = r
  BY <1>1 DEF Ring, Chain
<1>3. s \in Nat /\ Off(r, r) = 0 /\ Off(r, w) \in Nat /\ RingBufferSize \in Nat
  BY SizeType, OffType, RingAssumption
<1> HIDE DEF t, s
<1>4. s <= Off(r, w) /\ s < RingBufferSize
  BY <1>2, <1>3, Lies DEF Ring, s
<1>5. EndOf(q[1]) = Wrap(r + s) /\ EndOf(q[1]) \in Positions
      /\ Off(EndOf(q[1]), w) = Off(r, w) - s
  BY <1>2, <1>3, <1>4, OffMove DEF EndOf, s
<1>6. ASSUME NEW i \in 1 .. Len(t)
      PROVE  /\ i + 1 \in 1 .. Len(q) /\ t[i] = q[i + 1] /\ t[i].start \in Positions
             /\ Off(r, t[i].start) \in Nat /\ s <= Off(r, t[i].start)
             /\ Size(t[i].cmd) \in Nat
             /\ Off(r, t[i].start) + Size(t[i].cmd) <= Off(r, w)
             /\ Off(r, t[i].start) + Size(t[i].cmd) < RingBufferSize
             /\ Off(EndOf(q[1]), t[i].start) = Off(r, t[i].start) - s
  <2>1. i + 1 \in 1 .. Len(q) /\ t[i] = q[i + 1] /\ 1 < i + 1
    BY <1>1
  <2>2. /\ t[i].start \in Positions /\ Off(r, t[i].start) \in Nat
        /\ Off(r, t[i].start) + Size(t[i].cmd) <= Off(r, w)
        /\ Off(r, t[i].start) + Size(t[i].cmd) < RingBufferSize
    BY <2>1, Lies DEF Ring
  <2>3. Off(r, q[1].start) + s <= Off(r, t[i].start)
    BY <1>2, <2>1 DEF Ring, InOrder, s
  <2>4. s <= Off(r, t[i].start)
    BY <1>2, <1>3, <2>3
  <2> QED
    BY <1>3, <1>5, <2>1, <2>2, <2>4, OffMove, SizeType
<1>7. Chain(t, EndOf(q[1]), w)
  <2>1. EndOf(q[1]) = IF t = <<>> THEN w ELSE t[1].start
    BY <1>1, <1>2 DEF Ring, Chain
  <2>2. ASSUME NEW i \in 1 .. Len(t)
        PROVE  EndOf(t[i]) = IF i = Len(t) THEN w ELSE t[i + 1].start
    <3>1. EndOf(q[i + 1]) = IF i + 1 = Len(q) THEN w ELSE q[i + 1 + 1].start
      BY <1>6 DEF Ring, Chain
    <3>2. i # Len(t) => t[i + 1] = q[i + 1 + 1]
      BY <1>1
    <3> QED
      BY <1>1, <1>6, <3>1, <3>2
  <2> QED
    BY <2>1, <2>2 DEF Chain
<1>8. InOrder(t, EndOf(q[1]), w)
  <2>1. ASSUME NEW i \in 1 .. Len(t), NEW j \in 1 .. Len(t), i < j
        PROVE  Off(EndOf(q[1]), t[i].start) + Size(t[i].cmd) <= Off(EndOf(q[1]), t[j].start)
    <3>1. i + 1 < j + 1
      BY <1>1, <2>1
    <3>2. Off(r, t[i].start) + Size(t[i].cmd) <= Off(r, t[j].start)
      BY <1>6, <3>1 DEF Ring, InOrder
    <3> QED
      BY <1>3, <1>6, <3>2
  <2>2. \A i \in 1 .. Len(t) : Off(EndOf(q[1]), t[i].start) + Size(t[i].cmd) <= Off(EndOf(q[1]), w)
    BY <1>3, <1>5, <1>6
  <2> QED
    BY <2>1, <2>2 DEF InOrder
<1>9. ASSUME NEW i \in 1 .. Len(t) PROVE Whole(t[i], e)
  <2>1. ASSUME NEW k \in Slots(t[i].start, t[i].cmd) PROVE e[k] = b[k]
    <3>4. /\ t[i].start \in Positions
          /\ Off(r, t[i].start) + Size(t[i].cmd) <= RingBufferSize
      BY <1>3, <1>6
    <3>1. k \in Positions /\ Off(r, t[i].start) <= Off(r, k)
      BY <2>1, <3>4, SlotsLie
    <3>2. k \in Slots(r, q[1].cmd) => Off(r, k) < s
      BY <1>3, <1>4, SlotsLie DEF s
    <3>3. Off(r, k) \in Nat
      BY <3>1, OffType
    <3> QED
      BY <1>3, <1>6, <3>1, <3>2, <3>3
  <2>2. t[i].start \in Slots(t[i].start, t[i].cmd)
    BY <1>6, StartInSlots
  <2>3. Whole(t[i], b)
    BY <1>6 DEF Ring
  <2> QED
    BY <2>1, <2>2, <2>3 DEF Whole
<1> QED
  BY <1>4, <1>5, <1>7, <1>8, <1>9 DEF Ring, t, s

\* An empty ring.
LEMMA EmptyRing == \A b, p : Ring(<<>>, b, p, p)
BY DEF Ring, Chain, InOrder

\* The vsync packets of a queue, when one is put behind it or taken off.
LEMMA VsyncsType ==
    ASSUME NEW q \in Seq(Packet)
    PROVE  /\ IsFiniteSet(Vsyncs(q)) /\ Cardinality(Vsyncs(q)) \in Nat
           /\ (\A i \in 1 .. Len(q) : q[i].cmd # "vsync") => Cardinality(Vsyncs(q)) = 0
<1>1. IsFiniteSet(1 .. Len(q))
  BY FS_Interval
<1>2. Vsyncs(q) \in SUBSET (1 .. Len(q))
  BY DEF Vsyncs
<1>3. IsFiniteSet(Vsyncs(q))
  BY <1>1, <1>2, FS_Subset
<1>4. (\A i \in 1 .. Len(q) : q[i].cmd # "vsync") => Vsyncs(q) = {}
  BY DEF Vsyncs
<1> QED
  BY <1>3, <1>4, FS_CardinalityType, FS_EmptySet

\* A packet put behind the queue counts if it is a frame (PostVsyncStart).
LEMMA VsyncsGrow ==
    ASSUME NEW q \in Seq(Packet), NEW p \in Packet
    PROVE  Cardinality(Vsyncs(Append(q, p)))
             = Cardinality(Vsyncs(q)) + (IF p.cmd = "vsync" THEN 1 ELSE 0)
<1> DEFINE a == Append(q, p)
           n == Len(q) + 1
<1>1. /\ Len(a) = n /\ n \in Nat /\ n \notin 1 .. Len(q) /\ 1 .. n = (1 .. Len(q)) \union {n}
      /\ \A i \in 1 .. Len(q) : a[i] = q[i]
      /\ a[n] = p
  OBVIOUS
<1> HIDE DEF a, n
<1>2. n \notin Vsyncs(q)
  BY <1>1 DEF Vsyncs
<1>3. CASE p.cmd = "vsync"
  <2>1. Vsyncs(a) = Vsyncs(q) \union {n}
    BY <1>1, <1>3 DEF Vsyncs
  <2> QED
    BY <1>2, <1>3, <2>1, VsyncsType, FS_AddElement DEF a
<1>4. CASE p.cmd # "vsync"
  <2>1. Vsyncs(a) = Vsyncs(q)
    BY <1>1, <1>4 DEF Vsyncs
  <2> QED
    BY <1>4, <2>1, VsyncsType DEF a
<1> QED
  BY <1>3, <1>4

\* A packet taken off the queue counted if it was a frame (MainLoop).
LEMMA VsyncsShrink ==
    ASSUME NEW q \in Seq(Packet), q # <<>>
    PROVE  Cardinality(Vsyncs(SubSeq(q, 2, Len(q))))
             = Cardinality(Vsyncs(q)) - (IF q[1].cmd = "vsync" THEN 1 ELSE 0)
<1> DEFINE t == SubSeq(q, 2, Len(q))
           S == Vsyncs(t)
           T == Vsyncs(q) \ {1}
           f == [i \in S |-> i + 1]
<1>1. /\ t \in Seq(Packet) /\ Len(t) = Len(q) - 1 /\ Len(q) \in Nat \ {0}
      /\ \A i \in 1 .. Len(q) - 1 : t[i] = q[i + 1]
  BY TailOf
<1> HIDE DEF t
<1>2. S \subseteq 1 .. Len(t) /\ \A i \in S : i + 1 \in T
  BY <1>1 DEF Vsyncs
<1>3. \A j \in T : j - 1 \in S /\ (j - 1) + 1 = j
  <2> SUFFICES ASSUME NEW j \in T PROVE j - 1 \in S /\ (j - 1) + 1 = j
    OBVIOUS
  <2>1. j \in 2 .. Len(q) /\ q[j].cmd = "vsync"
    BY <1>1 DEF Vsyncs
  <2>2. j - 1 \in 1 .. Len(q) - 1 /\ (j - 1) + 1 = j
    BY <1>1, <2>1
  <2>3. t[j - 1] = q[j]
    BY <1>1, <2>2
  <2> QED
    BY <1>1, <2>1, <2>2, <2>3 DEF Vsyncs
<1> HIDE DEF S, T
<1>4. f \in [S -> T]
  BY <1>2
<1>5. \A i, j \in S : f[i] = f[j] => i = j
  BY <1>2
<1>6. \A j \in T : \E i \in S : f[i] = j
  BY <1>3
<1>7. f \in Bijection(S, T)
  BY <1>4, <1>5, <1>6, Fun_IsBij
<1>8. IsFiniteSet(S) /\ IsFiniteSet(Vsyncs(q))
  BY <1>1, VsyncsType DEF S
<1>9. Cardinality(S) = Cardinality(T)
  BY <1>7, <1>8, FS_Bijection DEF ExistsBijection
<1>10. Cardinality(T) = IF 1 \in Vsyncs(q) THEN Cardinality(Vsyncs(q)) - 1 ELSE Cardinality(Vsyncs(q))
  BY <1>8, FS_RemoveElement DEF T
<1>11. 1 \in Vsyncs(q) <=> q[1].cmd = "vsync"
  BY <1>1 DEF Vsyncs
<1> QED
  BY <1>9, <1>10, <1>11, VsyncsType DEF S, t

-----------------------------------------------------------------------------
(* The steps of the two threads, by what they touch *)

Sends ==
    \/ \E c \in Cmds : StartSend(c)
    \/ Stall \/ SignalOn \/ SignalEvent \/ RingSemWait \/ SignalReread \/ SpinEvent \/ SpinReread
    \/ SendEvent \/ VsyncCount \/ VsyncListen \/ VsyncSemWait
Waits == StartWaitGS \/ WaitGSEvent \/ WaitGSNow \/ WaitGSBlock \/ WaitGSWoken \/ WaitGSReturn
Flags == StartThread \/ AskOpen \/ AskClose \/ Shutdown \/ NotifyFlags \/ DoneWait \/ Join
Executes ==
    \/ GsReadTag \/ GsProcess \/ GsVsyncSub \/ GsVsyncListener \/ GsVsyncPost
    \/ GsSignal \/ GsSignalCount \/ GsSignalOff \/ GsSignalPost
    \/ GsDrained \/ GsValve \/ GsValvePos
Loops ==
    \/ GsEntry \/ GsEntryShutdown \/ GsWaitForWork \/ (\E opened \in BOOLEAN : GsOpen(opened))
    \/ GsOpenPost \/ GsClose \/ GsClosePost \/ GsReset \/ GsCheckForWork \/ GsCheckOpen \/ GsKill

\* These are all the steps there are.
LEMMA NextSplit ==
    Next => \/ Sends \/ Waits \/ Flags \/ WritePacket \/ Publish \/ ResetRing \/ ResetVsync
            \/ Executes \/ Loops \/ GsAdvance \/ GsExit
BY DEF Next, EeStep, EeChoice, GsStep, Sends, Waits, Flags, Executes, Loops

\* No stall, no Post of s_sem_OnRingReset made or on its way.
LEMMA NoPosts ==
    ASSUME IInv, ee \notin {"sigevent", "sigwait"}
    PROVE  /\ sig.posts = 0 /\ ~sig.enable
           /\ gs \notin {"signaloff", "signalpost", "valvepos", "valvepost"}
<1> DEFINE a == IF sig.enable /\ gs # "signaloff" THEN 1 ELSE 0
           b == IF gs \in {"signaloff", "signalpost", "valvepos", "valvepost"} THEN 1 ELSE 0
<1>1. a \in {0, 1} /\ b \in {0, 1} /\ sig.posts \in Nat
  BY DEF IInv, Types
<1>2. a + b + sig.posts = 0
  BY DEF IInv, Posts
<1>3. (a = 0 <=> ~(sig.enable /\ gs # "signaloff"))
      /\ (b = 0 <=> gs \notin {"signaloff", "signalpost", "valvepos", "valvepost"})
  OBVIOUS
<1> HIDE DEF a, b
<1>4. a = 0 /\ b = 0 /\ sig.posts = 0
  BY <1>1, <1>2
<1> QED
  BY <1>3, <1>4

\* The same of s_sem_Vsync.
LEMMA NoVsyncPosts ==
    ASSUME IInv, ee # "vswait"
    PROVE  vs.posts = 0 /\ ~vs.listener /\ gs \notin {"vspost", "valvevspost"}
<1> DEFINE a == IF vs.listener THEN 1 ELSE 0
           b == IF gs \in {"vspost", "valvevspost"} THEN 1 ELSE 0
<1>1. a \in {0, 1} /\ b \in {0, 1} /\ vs.posts \in Nat
  BY DEF IInv, Types
<1>2. a + b + vs.posts = 0
  BY DEF IInv, Posts
<1>3. (a = 0 <=> ~vs.listener) /\ (b = 0 <=> gs \notin {"vspost", "valvevspost"})
  OBVIOUS
<1> HIDE DEF a, b
<1>4. a = 0 /\ b = 0 /\ vs.posts = 0
  BY <1>1, <1>2
<1> QED
  BY <1>3, <1>4

\* The EE thread finds room for a packet, or has sent one.
LEMMA KeptBySends ==
    ASSUME IInv, Sends
    PROVE  IInv'
<1> USE DEF IInv
<1>1. /\ UNCHANGED <<ringVars, gate, gsOpen, gsVars, worker, waiter>>
      /\ pending' \in {pending, worker # "dead"}
  BY DEF Sends, StartSend, Stall, SignalOn, SignalEvent, RingSemWait, SignalReread, SpinEvent,
         SpinReread, SendEvent, VsyncCount, VsyncListen, VsyncSemWait, EeSetEvent, semVars,
         Event!Notify
<1>2. /\ ee \in (Sending \ {"write", "publish"}) \union {"idle"} /\ gate.open
      /\ ee' \in (Sending \ {"publish"}) \union {"idle"}
      /\ ee' = "stall" => cmd' \in AllCmds
      /\ ee' \notin {"stall", "idle"} => cmd' = cmd
      /\ ee = "idle" => ee' = "stall"
      /\ ee' = "stall" => ee = "idle"
      /\ ee' = "write" => HasRoom(cmd) /\ ee # "event"
      /\ ee' = "vscount" => cmd = "vsync" /\ ee = "event"
      /\ ee = "event" => ee' = (IF cmd = "vsync" THEN "vscount" ELSE "idle")
      /\ ee' # "event"
      /\ ee \in {"vslisten", "vswait"} => ee' \in {"vswait", "idle"}
      /\ ee \notin {"synced", "resetvs"}
  <2>1. ee \in Sending => gate.open
    BY DEF Handshake, NoThread, Closed, Opening, Opened, Closing, ShutDown, Sending
  <2>2. CASE \E c \in Cmds : StartSend(c)
    BY <2>2, CmdsAssumption DEF StartSend, Sending, AllCmds
  <2>3. CASE ~(\E c \in Cmds : StartSend(c))
    BY <2>1, <2>3 DEF Sends, Stall, SignalOn, SignalEvent, RingSemWait, SignalReread, SpinEvent,
         SpinReread, SendEvent, VsyncCount, VsyncListen, VsyncSemWait, EeSetEvent, EeGoto, Held, Sending
  <2> QED
    BY <2>2, <2>3
<1>3. sig' \in [enable : BOOLEAN, pos : Int, posts : Nat]
      /\ vs' \in [queued : Int, listener : BOOLEAN, posts : Nat]
  <2>1. /\ sig \in [enable : BOOLEAN, pos : Int, posts : Nat]
        /\ vs \in [queued : Int, listener : BOOLEAN, posts : Nat]
        /\ SomeDone(cmd) \in Int
    BY SizeType, RingAssumption DEF SomeDone, FreeRoom, Types, Positions
  <2>2. CASE UNCHANGED <<sig, vs>>
    BY <2>1, <2>2
  <2>3. CASE Stall
    BY <2>1, <2>3 DEF Stall
  <2>4. CASE SignalOn
    BY <2>1, <2>4 DEF SignalOn
  <2>5. CASE RingSemWait
    BY <2>1, <2>5 DEF RingSemWait
  <2>6. CASE SignalReread
    BY <2>1, <2>6 DEF SignalReread
  <2>7. CASE VsyncCount
    BY <2>1, <2>7 DEF VsyncCount
  <2>8. CASE VsyncListen
    BY <2>1, <2>8 DEF VsyncListen
  <2>9. CASE VsyncSemWait
    BY <2>1, <2>9 DEF VsyncSemWait
  <2> QED
    BY <2>2, <2>3, <2>4, <2>5, <2>6, <2>7, <2>8, <2>9
       DEF Sends, StartSend, SignalEvent, SpinEvent, SpinReread, SendEvent, EeSetEvent
<1>4. cmd' \in AllCmds \union {"none"}
  BY <1>2 DEF Types, Sends, EeSetEvent, EeGoto, Held, StartSend, Stall, SignalOn, SignalEvent,
         RingSemWait, SignalReread, SpinEvent, SpinReread, SendEvent, VsyncCount, VsyncListen, VsyncSemWait
<1>5. Types'
  BY <1>1, <1>2, <1>3, <1>4 DEF Types, ringVars, gsVars, EePlaces, Event!TypeOK
<1>6. RingInv'
  BY <1>1 DEF RingInv, ringVars
<1>7. EeHand'
  <2>1. HasRoom(cmd) => Off(readPos, writePos) + Size(cmd) < RingBufferSize
    BY SizeType, RingAssumption DEF HasRoom, FreeRoom, Off, Types, Positions
  <2> QED
    BY <1>1, <1>2, <2>1 DEF EeHand, ringVars, Sending
<1>8. GsHand'
  BY <1>1 DEF GsHand, ringVars, gsVars
<1>9. Handshake'
  <2>1. Opened
    BY <1>2 DEF Handshake, NoThread, Closed, Opening, Opened, Closing, ShutDown, Sending
  <2>2. Opened'
    BY <1>1, <1>2, <2>1 DEF Opened, gsVars, Sending, Waiting
  <2> QED
    BY <2>2 DEF Handshake
<1>10. WorkerMatches' /\ Told' /\ Quiet'
  BY <1>1, <1>2 DEF WorkerMatches, Told, Quiet, gsVars, ringVars, Sending
<1>11. Frames'
  <2>1. vs'.queued = vs.queued + (IF ee = "vscount" THEN 1 ELSE 0)
    BY DEF Types, Sends, StartSend, Stall, SignalOn, SignalEvent, RingSemWait, SignalReread, SpinEvent,
           SpinReread, SendEvent, VsyncCount, VsyncListen, VsyncSemWait, EeSetEvent, EeGoto
  <2>2. vs.queued \in Int /\ UNCHANGED <<sent, gs, cur>>
    BY <1>1 DEF Types, ringVars, gsVars
  <2>3. (IF ee' \in {"event", "vscount"} /\ cmd' = "vsync" THEN 1 ELSE 0)
          = (IF ee = "event" /\ cmd = "vsync" THEN 1 ELSE 0)
    BY <1>2
  <2>4. ee = "vscount" => cmd = "vsync"
    BY DEF EeHand
  <2>5. ee' \notin {"shutclose", "closenotify", "closewait"}
    BY <1>2 DEF Sending
  <2> QED
    BY <2>1, <2>2, <2>3, <2>4, <2>5 DEF Frames
<1>12. Posts'
  <2>0. /\ sig \in [enable : BOOLEAN, pos : Int, posts : Nat]
        /\ vs \in [queued : Int, listener : BOOLEAN, posts : Nat]
        /\ gs' = gs
    BY <1>1 DEF Types, gsVars
  <2>13. ee \in {"stall", "sigon"} =>
            /\ sig.posts = 0 /\ ~sig.enable
            /\ gs \notin {"signaloff", "signalpost", "valvepos", "valvepost"}
    BY NoPosts
  <2>1. CASE \E c \in Cmds : StartSend(c)
    BY <2>0, <2>1 DEF StartSend, Posts
  <2>2. CASE Stall
    <3>1. ee = "stall" /\ ee' \in {"write", "sigon", "spinevent"} /\ UNCHANGED vs
          /\ sig'.enable = sig.enable /\ sig'.posts = sig.posts
      BY <2>0, <2>2 DEF Stall, EeGoto
    <3>2. gs # "signalcount" /\ sig.posts = 0 /\ ~sig.enable
          /\ gs \notin {"signaloff", "signalpost", "valvepos", "valvepost"}
      BY <2>13, <3>1 DEF Posts
    <3>3. vs.posts = 0 /\ ~vs.listener /\ gs \notin {"vspost", "valvevspost"}
      BY <3>1, NoVsyncPosts
    <3> QED
      BY <2>0, <3>1, <3>2, <3>3 DEF Posts
  <2>3. CASE SignalOn
    <3>1. ee = "sigon" /\ ee' = "sigevent" /\ UNCHANGED vs
          /\ sig'.enable = TRUE /\ sig'.posts = sig.posts /\ sig'.pos = sig.pos
      BY <2>0, <2>3 DEF SignalOn, EeGoto
    <3> QED
      BY <2>0, <2>13, <3>1 DEF Posts
  <2>4. CASE SignalEvent
    BY <2>0, <2>4 DEF SignalEvent, EeGoto, EeSetEvent, Posts
  <2>5. CASE RingSemWait
    BY <2>0, <2>5 DEF RingSemWait, EeGoto, EeSetEvent, Posts
  <2>6. CASE SignalReread
    BY <2>0, <2>6 DEF SignalReread, EeGoto, EeSetEvent, Posts
  <2>7. CASE SpinEvent
    BY <2>0, <2>7 DEF SpinEvent, EeGoto, EeSetEvent, Posts
  <2>8. CASE SpinReread
    BY <2>0, <2>8 DEF SpinReread, EeGoto, EeSetEvent, Posts
  <2>9. CASE SendEvent
    BY <2>0, <2>9 DEF SendEvent, EeGoto, EeSetEvent, Posts
  <2>10. CASE VsyncCount
    BY <2>0, <2>10 DEF VsyncCount, EeGoto, EeSetEvent, Posts
  <2>11. CASE VsyncListen
    BY <2>0, <2>11 DEF VsyncListen, EeGoto, EeSetEvent, Posts
  <2>12. CASE VsyncSemWait
    BY <2>0, <2>12 DEF VsyncSemWait, EeGoto, EeSetEvent, Posts
  <2> QED
    BY <2>1, <2>2, <2>3, <2>4, <2>5, <2>6, <2>7, <2>8, <2>9, <2>10, <2>11, <2>12 DEF Sends
<1> QED
  BY <1>5, <1>6, <1>7, <1>8, <1>9, <1>10, <1>11, <1>12

\* The EE thread is in WaitGS.
LEMMA KeptByWaits ==
    ASSUME IInv, Waits
    PROVE  IInv'
<1> USE DEF IInv
<1>1. /\ UNCHANGED <<ringVars, sig, vs, gate, gsOpen, gsVars, worker>>
      /\ pending' \in {pending, worker # "dead"}
  BY DEF Waits, StartWaitGS, WaitGSEvent, WaitGSNow, WaitGSBlock, WaitGSWoken, WaitGSReturn,
         EeSetEvent, semVars, Event!Notify, Event!StartWaitEmpty, Event!ReturnEmpty
<1>2. Opened
  BY DEF Waits, StartWaitGS, WaitGSEvent, WaitGSNow, WaitGSBlock, WaitGSWoken, WaitGSReturn,
         EeSetEvent, EeGoto, Handshake, NoThread, Closed, Opening, Opened, Closing, ShutDown
<1>3. gs \in MainLoop /\ worker # "dead" /\ (worker # "running" => gs = "main")
      /\ (worker # "running" <=> worker = "waiting")
  BY <1>2 DEF Opened, WorkerMatches, MainLoop, Draining, InPacket, Types, Event!TypeOK
<1>4. /\ ee \in {"idle", "waitevent", "wait", "waiting", "synced"}
      /\ ee' \in {"idle", "waitevent", "wait", "waiting", "synced"}
      /\ cmd' \in {cmd, "none"}
  BY <1>3 DEF Waits, StartWaitGS, WaitGSEvent, WaitGSNow, WaitGSBlock, WaitGSWoken, WaitGSReturn,
         EeSetEvent, EeGoto, Held
<1>5. Event!TypeOK'
  BY <1>1 DEF Waits, StartWaitGS, WaitGSEvent, WaitGSNow, WaitGSBlock, WaitGSWoken, WaitGSReturn,
         EeSetEvent, semVars, Event!Notify, Event!StartWaitEmpty, Event!ReturnEmpty, Types, Event!TypeOK
<1>6. Types'
  BY <1>1, <1>4, <1>5 DEF Types, ringVars, gsVars, EePlaces, Waiting
<1>7. RingInv' /\ EeHand' /\ GsHand'
  BY <1>1, <1>4 DEF RingInv, EeHand, GsHand, ringVars, gsVars, Sending
<1>8. Handshake'
  <2>1. Opened'
    BY <1>1, <1>2, <1>4 DEF Opened, gsVars, Sending, Waiting
  <2> QED
    BY <2>1 DEF Handshake
<1>9. WorkerMatches'
  <2>1. waiter' # "idle" <=> ee' = "waiting"
    BY <1>4 DEF WorkerMatches, Waits, StartWaitGS, WaitGSEvent, WaitGSNow, WaitGSBlock, WaitGSWoken,
           WaitGSReturn, EeSetEvent, EeGoto, semVars, Event!Notify, Event!StartWaitEmpty, Event!ReturnEmpty
  <2> QED
    BY <1>1, <2>1 DEF WorkerMatches, gsVars
<1>10. Told' /\ Quiet'
  <2>1. CASE StartWaitGS \/ WaitGSReturn
    BY <2>1, <1>1 DEF StartWaitGS, WaitGSReturn, EeGoto, Told, Quiet, semVars, gsVars, ringVars
  <2>2. CASE WaitGSEvent
    <3>1. ee = "waitevent" /\ ee' = "wait" /\ pending' /\ UNCHANGED waiter
      BY <1>3, <2>2 DEF WaitGSEvent, EeSetEvent, Event!Notify
    <3> QED
      BY <1>1, <3>1 DEF Told, Quiet, gsVars, ringVars
  <2>3. CASE WaitGSNow
    <3>1. ee = "wait" /\ ee' = "synced" /\ gs = "main" /\ ~pending /\ UNCHANGED waiter
      BY <1>3, <2>3 DEF WaitGSNow, EeGoto, semVars
    <3>2. sent = <<>>
      BY <3>1 DEF Told, Draining, InPacket
    <3> QED
      BY <1>1, <3>1, <3>2 DEF Told, Quiet, gsVars, ringVars, InPacket
  <2>4. CASE WaitGSBlock
    <3>1. ee = "wait" /\ ee' = "waiting" /\ UNCHANGED pending /\ waiter' = "waiting"
      BY <2>4 DEF WaitGSBlock, EeGoto, Event!StartWaitEmpty
    <3> QED
      BY <1>1, <3>1 DEF Told, Quiet, gsVars, ringVars
  <2>5. CASE WaitGSWoken
    <3>1. ee = "waiting" /\ ee' = "synced" /\ waiter = "released" /\ waiter' = "idle"
      BY <1>3, <2>5 DEF WaitGSWoken, EeGoto, Event!ReturnEmpty
    <3> QED
      BY <1>1, <3>1 DEF Told, Quiet, gsVars, ringVars
  <2> QED
    BY <2>1, <2>2, <2>3, <2>4, <2>5 DEF Waits
<1>11. Frames'
  BY <1>1, <1>4 DEF Frames, ringVars, gsVars
<1>12. Posts'
  BY <1>1, <1>4 DEF Posts, gsVars
<1> QED
  BY <1>6, <1>7, <1>8, <1>9, <1>10, <1>11, <1>12

\* The EE thread writes a packet where the ring has nothing ...
LEMMA KeptByWrite ==
    ASSUME IInv, WritePacket
    PROVE  IInv'
<1> USE DEF IInv
<1>1. /\ UNCHANGED <<readPos, writePos, sent, semVars, sig, vs, gate, gsOpen, gsVars>>
      /\ ee = "write" /\ ee' = "publish" /\ cmd' = cmd /\ cmd \in AllCmds
      /\ Off(readPos, writePos) + Size(cmd) < RingBufferSize
      /\ readPos \in Positions /\ writePos \in Positions /\ sent \in Seq(Packet)
  BY DEF WritePacket, EeGoto, Held, EeHand, Sending, Types
<1>2. ring' = [p \in Positions |-> IF p = writePos THEN cmd
                                   ELSE IF p \in Slots(writePos, cmd) THEN "data"
                                   ELSE ring[p]]
  BY DEF WritePacket
<1>3. writePos \in Slots(writePos, cmd)
  BY <1>1, StartInSlots
<1>4. Slots(writePos, cmd) \subseteq Positions
  <2>1. Off(readPos, writePos) + Size(cmd) <= RingBufferSize
    BY <1>1, OffType, SizeType, RingAssumption
  <2> QED
    BY <1>1, <2>1, SlotsLie
<1>5. Types'
  <2>1. ring' \in [Positions -> AllCmds \union {"data", "free"}]
    BY <1>1, <1>2 DEF Types
  <2> QED
    BY <1>1, <2>1 DEF Types, semVars, gsVars, Event!TypeOK, EePlaces, Sending
<1>6. RingInv'
  <2>1. \A k \in Positions \ Slots(writePos, cmd) : ring'[k] = ring[k]
    BY <1>2, <1>3
  <2> QED
    BY <1>1, <2>1, RingUntouched DEF RingInv
<1>7. EeHand'
  <2>1. Whole([cmd |-> cmd, start |-> writePos], ring')
    BY <1>1, <1>2, <1>4 DEF Whole
  <2> QED
    BY <1>1, <2>1 DEF EeHand
<1>8. GsHand' /\ WorkerMatches' /\ Told' /\ Quiet'
  BY <1>1 DEF GsHand, WorkerMatches, Told, Quiet, semVars, gsVars
<1>9. Handshake'
  <2>1. Opened
    BY <1>1 DEF Handshake, NoThread, Closed, Opening, Opened, Closing, ShutDown
  <2>2. Opened'
    BY <1>1, <2>1 DEF Opened, gsVars, Sending
  <2> QED
    BY <2>2 DEF Handshake
<1>10. Frames' /\ Posts'
  BY <1>1 DEF Frames, Posts, gsVars
<1> QED
  BY <1>5, <1>6, <1>7, <1>8, <1>9, <1>10

\* ... and publishes it.
LEMMA KeptByPublish ==
    ASSUME IInv, Publish
    PROVE  IInv'
<1> USE DEF IInv
<1> DEFINE p == [cmd |-> cmd, start |-> writePos]
<1>1. /\ UNCHANGED <<ring, readPos, semVars, sig, vs, gate, gsOpen, gsVars>>
      /\ ee = "publish" /\ cmd \in AllCmds
      /\ Off(readPos, writePos) + Size(cmd) < RingBufferSize
      /\ readPos \in Positions /\ writePos \in Positions /\ sent \in Seq(Packet)
      /\ sent' = Append(sent, p) /\ writePos' = Wrap(writePos + Size(cmd))
  BY DEF Publish, EeHand, Sending, Types
<1>2. /\ ee' \in {"waitevent", "event", "idle"}
      /\ ee' = "event" <=> KicksNow(cmd) /\ cmd # "fifo"
      /\ ee' = "event" => cmd' = cmd
      /\ cmd' \in AllCmds \union {"none"}
      /\ cmd = "vsync" => ee' = "event"
  BY <1>1 DEF Publish, Held, KicksNow
<1>3. p \in Packet /\ p.cmd = cmd /\ p.start = writePos /\ Whole(p, ring)
  BY <1>1 DEF Packet, EeHand
<1> HIDE DEF p
<1>4. Ring(sent', ring, readPos, writePos') /\ writePos' \in Positions /\ sent' \in Seq(Packet)
  <2>1. EndOf(p) = writePos'
    BY <1>1, <1>3 DEF EndOf
  <2>2. Ring(sent, ring, readPos, writePos) /\ Off(readPos, writePos) + Size(p.cmd) < RingBufferSize
    BY <1>1, <1>3 DEF RingInv
  <2>3. Ring(Append(sent, p), ring, readPos, EndOf(p)) /\ EndOf(p) \in Positions
    BY <1>1, <1>3, <2>2, RingGrows
  <2>4. Append(sent, p) \in Seq(Packet)
    BY <1>1, <1>3
  <2> QED
    BY <1>1, <2>1, <2>3, <2>4
<1>5. sent' # <<>> /\ (sent # <<>> => sent'[1] = sent[1])
  BY <1>1, <1>3
<1>6. Types'
  BY <1>1, <1>2, <1>4 DEF Types, semVars, gsVars, Event!TypeOK, EePlaces, Sending, Waiting
<1>7. RingInv'
  BY <1>1, <1>4 DEF RingInv
<1>8. EeHand'
  BY <1>1, <1>2 DEF EeHand, Sending
<1>9. GsHand'
  BY <1>1, <1>5 DEF GsHand, gsVars
<1>10. WorkerMatches' /\ Told' /\ Quiet'
  BY <1>1, <1>2 DEF WorkerMatches, Told, Quiet, semVars, gsVars
<1>11. Handshake'
  <2>1. Opened
    BY <1>1 DEF Handshake, NoThread, Closed, Opening, Opened, Closing, ShutDown
  <2>2. Opened'
    BY <1>1, <1>2, <2>1 DEF Opened, gsVars, Sending, Waiting
  <2> QED
    BY <2>2 DEF Handshake
<1>12. Frames'
  <2>1. Cardinality(Vsyncs(sent')) = Cardinality(Vsyncs(sent)) + (IF cmd = "vsync" THEN 1 ELSE 0)
    BY <1>1, <1>3, VsyncsGrow
  <2>2. vs.queued \in Int /\ Cardinality(Vsyncs(sent)) \in Nat
    BY <1>1, VsyncsType DEF Types
  <2>3. (IF ee' \in {"event", "vscount"} /\ cmd' = "vsync" THEN 1 ELSE 0)
          = (IF cmd = "vsync" THEN 1 ELSE 0)
    BY <1>2
  <2> QED
    BY <1>1, <1>2, <2>1, <2>2, <2>3 DEF Frames, gsVars
<1>13. Posts'
  BY <1>1, <1>2 DEF Posts, gsVars
<1> QED
  BY <1>6, <1>7, <1>8, <1>9, <1>10, <1>11, <1>12, <1>13

\* ResetGS(true) behind WaitGS: the ring is empty, and so is the count of frames.
LEMMA KeptByReset ==
    ASSUME ResetWaits = TRUE, IInv, ResetRing \/ ResetVsync
    PROVE  IInv'
<1> USE DEF IInv
<1>1. /\ UNCHANGED <<writePos, semVars, sig, gate, gsOpen, gsVars>>
      /\ ee \in {"synced", "resetvs"} /\ ee' = (IF ee = "synced" THEN "resetvs" ELSE "stall")
      /\ cmd' = (IF ee = "synced" THEN "reset" ELSE cmd) /\ cmd' \in AllCmds
  BY DEF ResetRing, ResetVsync, ringVars, EeGoto, Held, EeHand, AllCmds
<1>2. sent = <<>> /\ gs \notin InPacket
  BY <1>1 DEF Quiet
<1>3. readPos = writePos
  BY <1>2 DEF RingInv, Ring, Chain
<1>4. sent' = <<>> /\ readPos' = readPos /\ ring' \in [Positions -> AllCmds \union {"data", "free"}]
  BY <1>2, <1>3 DEF ResetRing, ResetVsync, ringVars, Freed, Types
<1>5. /\ vs' \in [queued : Int, listener : BOOLEAN, posts : Nat]
      /\ vs'.posts = vs.posts /\ (vs'.listener => vs.listener)
      /\ vs'.queued \in {vs.queued, 0}
  <2>1. vs \in [queued : Int, listener : BOOLEAN, posts : Nat]
    BY DEF Types
  <2>2. CASE ResetRing
    BY <2>1, <2>2 DEF ResetRing
  <2>3. CASE ResetVsync
    <3>1. vs' = [vs EXCEPT !.queued = 0, !.listener = FALSE]
      BY <2>3 DEF ResetVsync
    <3>2. vs' = [queued |-> 0, listener |-> FALSE, posts |-> vs.posts]
      BY <2>1, <3>1
    <3> QED
      BY <2>1, <3>2
  <2> QED
    BY <2>2, <2>3
<1>6. Types'
  BY <1>1, <1>4, <1>5 DEF Types, semVars, gsVars, Event!TypeOK, EePlaces, Sending, Waiting
<1>7. RingInv'
  BY <1>1, <1>3, <1>4, EmptyRing DEF RingInv
<1>8. EeHand' /\ GsHand'
  BY <1>1, <1>2 DEF EeHand, GsHand, gsVars, InPacket
<1>9. WorkerMatches' /\ Told' /\ Quiet'
  BY <1>1, <1>2, <1>4 DEF WorkerMatches, Told, Quiet, semVars, gsVars
<1>10. Handshake'
  <2>1. Opened
    BY <1>1 DEF Handshake, NoThread, Closed, Opening, Opened, Closing, ShutDown
  <2>2. Opened'
    BY <1>1, <2>1 DEF Opened, gsVars, Sending, Waiting
  <2> QED
    BY <2>2 DEF Handshake
<1>11. Frames'
  <2>1. Cardinality(Vsyncs(sent)) = 0 /\ vs.queued \in Int
    <3>1. sent \in Seq(Packet) /\ \A i \in 1 .. Len(sent) : sent[i].cmd # "vsync"
      BY <1>2 DEF Types
    <3> QED
      BY <3>1, VsyncsType DEF Types
  <2>2. vs.queued = 0
    <3>1. ee \notin {"event", "vscount"} /\ gs \notin {"vslisten", "vspost", "advance"}
      BY <1>1, <1>2 DEF InPacket
    <3> QED
      BY <2>1, <3>1 DEF Frames
  <2> QED
    BY <1>1, <1>2, <1>4, <1>5, <2>1, <2>2 DEF Frames, gsVars, InPacket
<1>12. Posts'
  <2>1. vs.posts = 0 /\ ~vs.listener /\ gs \notin {"vspost", "valvevspost"}
    BY <1>1, NoVsyncPosts
  <2> QED
    BY <1>1, <1>5, <2>1 DEF Posts, gsVars
<1> QED
  BY <1>6, <1>7, <1>8, <1>9, <1>10, <1>11, <1>12

\* The EE thread starts and joins the GS thread, opens and closes the renderer.
LEMMA KeptByFlags ==
    ASSUME IInv, Flags
    PROVE  IInv'
<1> USE DEF IInv
<1> DEFINE Places == {"idle", "open", "opennotify", "openwait", "synced", "shutclose",
                      "closenotify", "closewait", "shutnotify", "join"}
<1>1. /\ UNCHANGED <<ringVars, sig, vs, gsOpen, cur, waiter>>
      /\ ee \in Places /\ ee' \in Places \ {"synced"} /\ cmd' \in {cmd, "none"}
      /\ gs' \in {gs, "entry", "none"}
  BY DEF Flags, StartThread, AskOpen, AskClose, Shutdown, NotifyFlags, DoneWait, Join,
         EeGoto, Held, gsVars, semVars, Event!Notify, Event!Reset
<1>2. gate \in [open : BOOLEAN, shutdown : BOOLEAN, done : Nat, thread : BOOLEAN]
  BY DEF Types
<1>3. CASE StartThread
  <2>1. /\ ee = "idle" /\ ~gate.open /\ ~gate.thread /\ ee' = "open" /\ gs' = "entry"
        /\ gate' = [gate EXCEPT !.thread = TRUE, !.shutdown = FALSE]
    BY <1>3 DEF StartThread, EeGoto
  <2>2. gate' = [open |-> gate.open, shutdown |-> FALSE, done |-> gate.done, thread |-> TRUE]
    BY <1>2, <2>1
  <2>3. NoThread
    BY <2>1 DEF Handshake, NoThread, Closed, Opening, Opened, Closing, ShutDown
  <2>4. Closed'
    BY <1>1, <2>1, <2>2, <2>3 DEF NoThread, Closed, Outside
  <2>5. worker' = "running" /\ pending' = pending
    BY <1>3, <2>3 DEF StartThread, NoThread, WorkerMatches, Event!Reset, semVars, Types, Event!TypeOK
  <2>6. Types'
    BY <1>1, <1>2, <2>1, <2>2, <2>5 DEF Types, ringVars, Event!TypeOK, EePlaces, GsPlaces, Outside
  <2>7. RingInv' /\ EeHand' /\ GsHand' /\ WorkerMatches' /\ Told' /\ Quiet'
    BY <1>1, <2>1, <2>3, <2>5 DEF RingInv, EeHand, GsHand, WorkerMatches, Told, Quiet, NoThread,
         ringVars, Sending, InPacket
  <2>8. Frames' /\ Posts'
    BY <1>1, <2>1, <2>3 DEF Frames, Posts, NoThread, ringVars
  <2> QED
    BY <2>4, <2>6, <2>7, <2>8 DEF Handshake
<1>4. CASE AskOpen
  <2>1. /\ ee \in {"idle", "open"} /\ ee' = "opennotify" /\ UNCHANGED <<semVars, gs, cmd>>
        /\ (ee = "idle" => ~gate.open /\ gate.thread)
        /\ gate' = [gate EXCEPT !.open = TRUE]
    BY <1>4 DEF AskOpen, gsVars
  <2>2. gate' = [open |-> TRUE, shutdown |-> gate.shutdown, done |-> gate.done, thread |-> gate.thread]
    BY <1>2, <2>1
  <2>3. Closed
    BY <2>1 DEF Handshake, NoThread, Closed, Opening, Opened, Closing, ShutDown, Sending, Waiting
  <2>4. Opening'
    BY <1>1, <2>1, <2>2, <2>3 DEF Closed, Opening
  <2>6. Types'
    BY <1>1, <1>2, <2>1, <2>2 DEF Types, ringVars, semVars, Event!TypeOK, EePlaces
  <2>7. RingInv' /\ EeHand' /\ GsHand' /\ WorkerMatches' /\ Told' /\ Quiet'
    BY <1>1, <2>1 DEF RingInv, EeHand, GsHand, WorkerMatches, Told, Quiet, ringVars, semVars, Sending
  <2>8. Frames' /\ Posts'
    BY <1>1, <2>1 DEF Frames, Posts, ringVars
  <2> QED
    BY <2>4, <2>6, <2>7, <2>8 DEF Handshake
<1>5. CASE AskClose
  <2>1. /\ ee \in {"idle", "synced", "shutclose"} /\ ee' = "closenotify"
        /\ UNCHANGED <<semVars, gs, cmd>> /\ gate.open
        /\ (ee = "idle" => \A i \in DOMAIN sent : sent[i].cmd # "vsync")
        /\ gate' = [gate EXCEPT !.open = FALSE]
    BY <1>5 DEF AskClose, gsVars
  <2>2. gate' = [open |-> FALSE, shutdown |-> gate.shutdown, done |-> gate.done, thread |-> gate.thread]
    BY <1>2, <2>1
  <2>3. Opened
    BY <2>1 DEF Handshake, NoThread, Closed, Opening, Opened, Closing, ShutDown
  <2>4. Closing'
    BY <1>1, <2>1, <2>2, <2>3 DEF Opened, Closing
  <2>5. \A i \in 1 .. Len(sent) : sent[i].cmd # "vsync"
    BY <2>1 DEF Frames, Quiet, Types
  <2>6. Types'
    BY <1>1, <1>2, <2>1, <2>2 DEF Types, ringVars, semVars, Event!TypeOK, EePlaces
  <2>7. RingInv' /\ EeHand' /\ GsHand' /\ WorkerMatches' /\ Told' /\ Quiet'
    BY <1>1, <2>1 DEF RingInv, EeHand, GsHand, WorkerMatches, Told, Quiet, ringVars, semVars, Sending
  <2>8. Frames' /\ Posts'
    BY <1>1, <2>1, <2>5 DEF Frames, Posts, ringVars
  <2> QED
    BY <2>4, <2>6, <2>7, <2>8 DEF Handshake
<1>6. CASE Shutdown
  <2>1. /\ ee = "idle" /\ ee' = (IF gate.open THEN "shutclose" ELSE "shutnotify")
        /\ UNCHANGED <<semVars, gs>> /\ gate.thread
        /\ \A i \in DOMAIN sent : sent[i].cmd # "vsync"
        /\ gate' = [gate EXCEPT !.shutdown = TRUE]
    BY <1>6 DEF Shutdown, EeGoto, gsVars
  <2>2. gate' = [open |-> gate.open, shutdown |-> TRUE, done |-> gate.done, thread |-> gate.thread]
    BY <1>2, <2>1
  <2>3. IF gate.open THEN Opened ELSE Closed
    BY <2>1 DEF Handshake, NoThread, Closed, Opening, Opened, Closing, ShutDown
  <2>4. Handshake'
    BY <1>1, <2>1, <2>2, <2>3 DEF Opened, Closed, ShutDown, Handshake
  <2>5. \A i \in 1 .. Len(sent) : sent[i].cmd # "vsync"
    BY <2>1 DEF Types
  <2>6. Types'
    <3>1. ee' \in EePlaces /\ gs' = gs
      BY <2>1 DEF EePlaces
    <3>2. gate' \in [open : BOOLEAN, shutdown : BOOLEAN, done : Nat, thread : BOOLEAN]
      BY <1>2, <2>2
    <3> QED
      BY <1>1, <2>1, <3>1, <3>2 DEF Types, ringVars, semVars, Event!TypeOK
  <2>7. RingInv' /\ EeHand' /\ GsHand' /\ WorkerMatches' /\ Told' /\ Quiet'
    BY <1>1, <2>1 DEF RingInv, EeHand, GsHand, WorkerMatches, Told, Quiet, ringVars, semVars, Sending
  <2>8. Frames' /\ Posts'
    BY <1>1, <2>1, <2>5 DEF Frames, Posts, ringVars
  <2> QED
    BY <2>4, <2>6, <2>7, <2>8 DEF Handshake
<1>7. CASE NotifyFlags
  <2>1. /\ ee \in {"opennotify", "closenotify", "shutnotify"}
        /\ ee' = (CASE ee = "opennotify" -> "openwait" [] ee = "closenotify" -> "closewait"
                    [] OTHER -> "join")
        /\ UNCHANGED <<gate, gs, worker>> /\ pending' = (worker # "dead")
    BY <1>7 DEF NotifyFlags, EeGoto, gsVars, Event!Notify
  <2>4. Handshake'
    BY <1>1, <2>1 DEF Handshake, NoThread, Closed, Opening, Opened, Closing, ShutDown, Sending, Waiting
  <2>6. Types'
    BY <1>1, <1>2, <2>1 DEF Types, ringVars, Event!TypeOK, EePlaces
  <2>7. RingInv' /\ EeHand' /\ GsHand' /\ WorkerMatches' /\ Told' /\ Quiet'
    BY <1>1, <2>1 DEF RingInv, EeHand, GsHand, WorkerMatches, Told, Quiet, ringVars, Sending
  <2>8. Frames' /\ Posts'
    BY <1>1, <2>1 DEF Frames, Posts, ringVars
  <2> QED
    BY <2>4, <2>6, <2>7, <2>8
<1>8. CASE DoneWait
  <2>1. /\ ee \in {"openwait", "closewait"} /\ gate.done > 0
        /\ ee' = (IF ee = "closewait" /\ gate.shutdown THEN "shutnotify" ELSE "idle")
        /\ UNCHANGED <<gs, semVars>> /\ gate' = [gate EXCEPT !.done = @ - 1]
    BY <1>8 DEF DoneWait, EeGoto, gsVars
  <2>2. /\ gate' = [open |-> gate.open, shutdown |-> gate.shutdown, done |-> gate.done - 1,
                    thread |-> gate.thread]
        /\ gate.done - 1 \in Nat
    BY <1>2, <2>1
  <2>3. (ee = "openwait" => Opening) /\ (ee = "closewait" => Closing) /\ gate.done = 1
    BY <2>1 DEF Handshake, NoThread, Closed, Opening, Opened, Closing, ShutDown, Sending, Waiting
  <2>4. Handshake'
    <3>1. CASE ee = "openwait"
      <4>1. Opened' \/ Closed'
        BY <1>1, <2>1, <2>2, <2>3, <3>1 DEF Opening, Opened, Closed
      <4> QED
        BY <4>1 DEF Handshake
    <3>2. CASE ee = "closewait"
      <4>1. Closed' \/ ShutDown'
        BY <1>1, <2>1, <2>2, <2>3, <3>2 DEF Closing, Closed, ShutDown
      <4> QED
        BY <4>1 DEF Handshake
    <3> QED
      BY <2>1, <3>1, <3>2
  <2>6. Types'
    BY <1>1, <1>2, <2>1, <2>2 DEF Types, ringVars, semVars, Event!TypeOK, EePlaces
  <2>7. RingInv' /\ EeHand' /\ GsHand' /\ WorkerMatches' /\ Told' /\ Quiet'
    BY <1>1, <2>1 DEF RingInv, EeHand, GsHand, WorkerMatches, Told, Quiet, ringVars, semVars, Sending
  <2>8. Frames' /\ Posts'
    BY <1>1, <2>1 DEF Frames, Posts, ringVars
  <2> QED
    BY <2>4, <2>6, <2>7, <2>8
<1>9. CASE Join
  <2>1. /\ ee = "join" /\ ee' = "idle" /\ gs = "exited" /\ gs' = "none"
        /\ UNCHANGED semVars /\ gate' = [gate EXCEPT !.thread = FALSE]
    BY <1>9 DEF Join, EeGoto
  <2>2. gate' = [open |-> gate.open, shutdown |-> gate.shutdown, done |-> gate.done, thread |-> FALSE]
    BY <1>2, <2>1
  <2>3. ShutDown
    BY <2>1 DEF Handshake, NoThread, Closed, Opening, Opened, Closing, ShutDown, Sending, Waiting
  <2>4. NoThread'
    BY <1>1, <2>1, <2>2, <2>3 DEF ShutDown, NoThread
  <2>6. Types'
    BY <1>1, <1>2, <2>1, <2>2 DEF Types, ringVars, semVars, Event!TypeOK, EePlaces, GsPlaces
  <2>7. RingInv' /\ EeHand' /\ GsHand' /\ WorkerMatches' /\ Told' /\ Quiet'
    BY <1>1, <2>1 DEF RingInv, EeHand, GsHand, WorkerMatches, Told, Quiet, ringVars, semVars, Sending, InPacket
  <2>8. Frames' /\ Posts'
    BY <1>1, <2>1 DEF Frames, Posts, ringVars
  <2> QED
    BY <2>4, <2>6, <2>7, <2>8 DEF Handshake
<1> QED
  BY <1>3, <1>4, <1>5, <1>6, <1>7, <1>8, <1>9 DEF Flags

\* The GS thread executes the packet at s_ReadPos and reports what is done.
LEMMA KeptByExecutes ==
    ASSUME IInv, Executes
    PROVE  IInv'
<1> USE DEF IInv
<1>1. /\ UNCHANGED <<ringVars, semVars, gate, gsOpen, eeVars>>
      /\ gs \in MainLoop \ {"main", "checkopen", "advance"}
      /\ gs' \in (MainLoop \ {"checkopen"}) \union {"lost"}
      /\ gs' \in Draining \union {"lost"} \/ gs \notin Draining \/ (gs = "drain" /\ readPos = writePos)
      /\ gs' \in InPacket /\ gs \notin InPacket => gs = "drain" /\ readPos # writePos
      /\ gs \in InPacket => gs' \in InPacket /\ cur' = cur
      /\ gs' = "vssub" => cur = "vsync"
      /\ gs' = "vslisten" <=> gs = "vssub"
      /\ gs' = "vspost" => gs = "vslisten"
      /\ gs = "vssub" => gs' = "vslisten"
      /\ gs \in {"vslisten", "vspost"} => gs' \in {"vspost", "advance"}
      /\ gs = "process" => gs' = (IF cur = "vsync" THEN "vssub" ELSE "advance")
  BY DEF Executes, GsReadTag, GsProcess, GsVsyncSub, GsVsyncListener, GsVsyncPost, GsSignal,
         GsSignalCount, GsSignalOff, GsSignalPost, GsDrained, GsValve, GsValvePos, GsGoto,
         MainLoop, Draining, InPacket, AllCmds
<1>2. /\ sig \in [enable : BOOLEAN, pos : Int, posts : Nat]
      /\ vs \in [queued : Int, listener : BOOLEAN, posts : Nat]
      /\ Size(cur) \in Nat
  BY SizeType DEF Types
<1>3. gs = "drain" /\ readPos # writePos =>
        /\ sent # <<>> /\ sent[1].cmd = ring[readPos] /\ ring[readPos] \in AllCmds
        /\ gs' = "process" /\ cur' = ring[readPos]
  <2> SUFFICES ASSUME gs = "drain", readPos # writePos
               PROVE  /\ sent # <<>> /\ sent[1].cmd = ring[readPos] /\ ring[readPos] \in AllCmds
                      /\ gs' = "process" /\ cur' = ring[readPos]
    OBVIOUS
  <2>1. sent # <<>> /\ sent[1] \in Packet /\ ring[readPos] = sent[1].cmd
    BY FirstOfRing DEF RingInv, Types
  <2>2. ring[readPos] \in AllCmds
    BY <2>1 DEF Packet
  <2>3. GsReadTag
    BY DEF Executes, GsReadTag, GsProcess, GsVsyncSub, GsVsyncListener, GsVsyncPost, GsSignal,
         GsSignalCount, GsSignalOff, GsSignalPost, GsDrained, GsValve, GsValvePos, GsGoto
  <2> QED
    BY <2>1, <2>2, <2>3 DEF GsReadTag
<1>4. gs' \in MainLoop
  BY <1>1, <1>3 DEF Executes, GsReadTag, GsProcess, GsVsyncSub, GsVsyncListener, GsVsyncPost, GsSignal,
         GsSignalCount, GsSignalOff, GsSignalPost, GsDrained, GsValve, GsValvePos, GsGoto,
         MainLoop, Draining, InPacket
<1>5. cur' \in AllCmds \union {"none"}
  BY <1>3 DEF Types, Executes, GsReadTag, GsProcess, GsVsyncSub, GsVsyncListener, GsVsyncPost, GsSignal,
         GsSignalCount, GsSignalOff, GsSignalPost, GsDrained, GsValve, GsValvePos, GsGoto
<1>6. /\ sig' \in [enable : BOOLEAN, pos : Int, posts : Nat]
      /\ vs' \in [queued : Int, listener : BOOLEAN, posts : Nat]
  <2>1. CASE UNCHANGED <<sig, vs>>
    BY <1>2, <2>1
  <2>2. CASE GsVsyncSub
    BY <1>2, <2>2 DEF GsVsyncSub
  <2>3. CASE GsVsyncListener
    BY <1>2, <2>3 DEF GsVsyncListener
  <2>4. CASE GsVsyncPost
    BY <1>2, <2>4 DEF GsVsyncPost
  <2>5. CASE GsSignalCount
    BY <1>2, <2>5 DEF GsSignalCount
  <2>6. CASE GsSignalOff
    BY <1>2, <2>6 DEF GsSignalOff
  <2>7. CASE GsSignalPost
    BY <1>2, <2>7 DEF GsSignalPost
  <2>8. CASE GsValve
    BY <1>2, <2>8 DEF GsValve
  <2>9. CASE GsValvePos
    BY <1>2, <2>9 DEF GsValvePos
  <2> QED
    BY <2>1, <2>2, <2>3, <2>4, <2>5, <2>6, <2>7, <2>8, <2>9
       DEF Executes, GsReadTag, GsProcess, GsSignal, GsDrained
<1>7. Types'
  BY <1>1, <1>4, <1>5, <1>6 DEF Types, ringVars, semVars, eeVars, Event!TypeOK, GsPlaces
<1>8. RingInv' /\ EeHand'
  BY <1>1 DEF RingInv, EeHand, ringVars, eeVars
<1>9. GsHand'
  BY <1>1, <1>3 DEF GsHand, ringVars, InPacket
<1>10. Handshake'
  <2>1. Opening \/ Opened \/ Closing
    BY <1>1 DEF Handshake, NoThread, Closed, Opening, Opened, Closing, ShutDown,
         Outside, MainLoop, Draining, InPacket
  <2>2. Opening' \/ Opened' \/ Closing'
    BY <1>1, <1>4, <2>1 DEF Opening, Opened, Closing, eeVars,
         Outside, MainLoop, Draining, InPacket
  <2> QED
    BY <2>2 DEF Handshake
<1>11. WorkerMatches'
  BY <1>1, <1>4 DEF WorkerMatches, semVars, eeVars, MainLoop, Draining, InPacket
<1>12. Told'
  <2>1. readPos = writePos => sent = <<>>
    BY EqualIsEmpty DEF RingInv, Types
  <2>2. gs' # "lost"
    BY <1>4 DEF MainLoop, Draining, InPacket
  <2> QED
    BY <1>1, <2>1, <2>2 DEF Told, semVars, eeVars, ringVars
<1>13. Quiet'
  <2>1. sent = <<>> => readPos = writePos
    BY DEF RingInv, Ring, Chain
  <2> QED
    BY <1>1, <2>1 DEF Quiet, semVars, eeVars, ringVars
<1>14. Frames'
  <2>1. vs'.queued = vs.queued - (IF gs = "vssub" THEN 1 ELSE 0)
    BY <1>2 DEF Executes, GsReadTag, GsProcess, GsVsyncSub, GsVsyncListener, GsVsyncPost, GsSignal,
         GsSignalCount, GsSignalOff, GsSignalPost, GsDrained, GsValve, GsValvePos, GsGoto
  <2>2. (IF gs' \in {"vslisten", "vspost", "advance"} /\ cur' = "vsync" THEN 1 ELSE 0)
          = (IF gs \in {"vslisten", "vspost", "advance"} /\ cur = "vsync" THEN 1 ELSE 0)
            + (IF gs = "vssub" THEN 1 ELSE 0)
    BY <1>1, <1>3 DEF GsHand, InPacket
  <2> QED
    BY <1>1, <1>2, <2>1, <2>2 DEF Frames, ringVars, eeVars
<1>15. Posts'
  <2>0. ee' = ee
    BY <1>1 DEF eeVars
  <2>1. CASE GsReadTag
    BY <1>2, <2>0, <2>1 DEF GsReadTag, GsGoto, Posts
  <2>2. CASE GsProcess
    BY <1>2, <2>0, <2>2 DEF GsProcess, GsGoto, Posts
  <2>3. CASE GsVsyncSub
    BY <1>2, <2>0, <2>3 DEF GsVsyncSub, GsGoto, Posts
  <2>4. CASE GsVsyncListener
    <3>1. /\ gs \in {"vslisten", "valvevs"} /\ UNCHANGED sig
          /\ gs' \in (IF vs.listener THEN {"vspost", "valvevspost"} ELSE {"advance", "main"})
          /\ vs'.listener = FALSE /\ vs'.posts = vs.posts
      BY <1>2, <2>4 DEF GsVsyncListener, GsGoto
    <3> QED
      BY <1>2, <2>0, <3>1 DEF Posts
  <2>5. CASE GsVsyncPost
    BY <1>2, <2>0, <2>5 DEF GsVsyncPost, GsGoto, Posts
  <2>6. CASE GsSignal
    BY <1>2, <2>0, <2>6 DEF GsSignal, GsGoto, Posts
  <2>7. CASE GsSignalCount
    BY <1>2, <2>0, <2>7 DEF GsSignalCount, GsGoto, Posts
  <2>8. CASE GsSignalOff
    BY <1>2, <2>0, <2>8 DEF GsSignalOff, GsGoto, Posts
  <2>9. CASE GsSignalPost
    BY <1>2, <2>0, <2>9 DEF GsSignalPost, GsGoto, Posts
  <2>10. CASE GsDrained
    BY <1>2, <2>0, <2>10 DEF GsDrained, GsGoto, Posts
  <2>11. CASE GsValve
    BY <1>2, <2>0, <2>11 DEF GsValve, GsGoto, Posts
  <2>12. CASE GsValvePos
    BY <1>2, <2>0, <2>12 DEF GsValvePos, GsGoto, Posts
  <2> QED
    BY <2>1, <2>2, <2>3, <2>4, <2>5, <2>6, <2>7, <2>8, <2>9, <2>10, <2>11, <2>12 DEF Executes
<1> QED
  BY <1>7, <1>8, <1>9, <1>10, <1>11, <1>12, <1>13, <1>14, <1>15

\* The GS thread moves s_ReadPos past the packet it has executed.
LEMMA KeptByAdvance ==
    ASSUME IInv, GsAdvance
    PROVE  IInv'
<1> USE DEF IInv
<1> DEFINE e == EndOf(sent[1])
<1>1. /\ UNCHANGED <<writePos, semVars, sig, vs, gate, gsOpen, eeVars>>
      /\ gs = "advance" /\ gs' = "signal" /\ cur' = cur
      /\ readPos' = Wrap(readPos + Size(cur)) /\ ring' = Freed(Slots(readPos, cur))
      /\ sent' = SubSeq(sent, 2, Len(sent))
      /\ sent \in Seq(Packet) /\ sent # <<>> /\ sent[1].cmd = cur
      /\ readPos \in Positions /\ writePos \in Positions
  BY DEF GsAdvance, GsGoto, GsHand, InPacket, Types
<1>2. \A k \in Positions \ Slots(readPos, cur) : ring'[k] = ring[k]
  BY <1>1 DEF Freed
<1>3. /\ readPos' = e /\ e \in Positions /\ Ring(sent', ring', e, writePos)
      /\ Off(e, writePos) = Off(readPos, writePos) - Size(cur)
      /\ Size(cur) <= Off(readPos, writePos)
  <2>1. Ring(sent, ring, readPos, writePos)
    BY DEF RingInv
  <2> QED
    BY <1>1, <1>2, <2>1, RingAdvances
<1> HIDE DEF e
<1>4. sent' \in Seq(Packet) /\ Len(sent') = Len(sent) - 1 /\ Len(sent) \in Nat \ {0}
      /\ \A i \in 1 .. Len(sent) - 1 : sent'[i] = sent[i + 1]
  BY <1>1, TailOf
<1>5. ring' \in [Positions -> AllCmds \union {"data", "free"}]
  BY <1>1 DEF Freed, Types
<1>6. Types'
  BY <1>1, <1>3, <1>4, <1>5
     DEF Types, semVars, eeVars, Event!TypeOK, GsPlaces, MainLoop, Draining
<1>7. RingInv'
  BY <1>1, <1>3 DEF RingInv
<1>8. EeHand'
  <2>1. Off(readPos', writePos') = Off(readPos, writePos) - Size(cur)
        /\ Off(readPos, writePos) \in Nat /\ Size(cur) \in Nat /\ RingBufferSize \in Nat
    BY <1>1, <1>3, OffType, SizeType, RingAssumption
  <2>2. ASSUME ee \in {"write", "publish"}
        PROVE  Off(readPos', writePos') + Size(cmd) < RingBufferSize
    BY <2>1, <2>2, SizeType DEF EeHand
  <2>3. ASSUME ee = "publish" PROVE Whole([cmd |-> cmd, start |-> writePos], ring')
    <3>1. Whole([cmd |-> cmd, start |-> writePos], ring)
          /\ Off(readPos, writePos) + Size(cmd) <= RingBufferSize
      BY <2>1, <2>3, SizeType DEF EeHand
    <3>2. ASSUME NEW k \in Slots(writePos, cmd) PROVE ring'[k] = ring[k]
      <4>1. k \in Positions /\ Off(readPos, writePos) <= Off(readPos, k)
        BY <1>1, <3>1, <3>2, SlotsLie
      <4>2. SUFFICES ASSUME k \in Slots(readPos, cur) PROVE FALSE
        BY <1>2, <4>1
      <4>3. Off(readPos, readPos) + Size(cur) <= RingBufferSize /\ Off(readPos, readPos) = 0
        BY <1>1, <2>1, OffType, SizeType
      <4>4. Off(readPos, k) < Size(cur)
        BY <1>1, <2>1, <4>2, <4>3, SlotsLie
      <4> QED
        BY <1>3, <2>1, <4>1, <4>4, OffType, <1>1
    <3>3. writePos \in Slots(writePos, cmd)
      BY <1>1, StartInSlots
    <3> QED
      BY <3>1, <3>2, <3>3 DEF Whole
  <2> QED
    BY <1>1, <2>2, <2>3 DEF EeHand, eeVars
<1>9. GsHand' /\ WorkerMatches'
  BY <1>1 DEF GsHand, WorkerMatches, InPacket, semVars, eeVars
<1>10. Told'
  BY <1>1 DEF Told, Draining
<1>11. Quiet'
  BY <1>1 DEF Quiet, semVars, eeVars, InPacket
<1>12. Handshake'
  <2>1. Opening \/ Opened \/ Closing
    BY <1>1 DEF Handshake, NoThread, Closed, Opening, Opened, Closing, ShutDown,
         Outside, MainLoop, Draining, InPacket
  <2>2. Opening' \/ Opened' \/ Closing'
    BY <1>1, <2>1 DEF Opening, Opened, Closing, eeVars, Outside, MainLoop, Draining, InPacket
  <2> QED
    BY <2>2 DEF Handshake
<1>13. Frames'
  <2>1. Cardinality(Vsyncs(sent')) = Cardinality(Vsyncs(sent)) - (IF cur = "vsync" THEN 1 ELSE 0)
        /\ Cardinality(Vsyncs(sent)) \in Nat
    BY <1>1, VsyncsShrink, VsyncsType
  <2>2. vs.queued \in Int
    BY DEF Types
  <2>3. ee \in {"shutclose", "closenotify", "closewait"} =>
          \A i \in 1 .. Len(sent') : sent'[i].cmd # "vsync"
    <3> SUFFICES ASSUME ee \in {"shutclose", "closenotify", "closewait"}, NEW i \in 1 .. Len(sent')
                 PROVE  sent'[i].cmd # "vsync"
      OBVIOUS
    <3>1. i \in 1 .. Len(sent) - 1 /\ i + 1 \in 1 .. Len(sent)
      BY <1>4
    <3>2. sent'[i] = sent[i + 1]
      BY <1>4, <3>1
    <3> QED
      BY <3>1, <3>2 DEF Frames
  <2> QED
    BY <1>1, <2>1, <2>2, <2>3 DEF Frames, eeVars
<1>14. Posts'
  BY <1>1 DEF Posts, eeVars
<1> QED
  BY <1>6, <1>7, <1>8, <1>9, <1>10, <1>11, <1>12, <1>13, <1>14

\* The ring is dropped when the renderer is to be closed: no frame is in it.
LEMMA KeptByExit ==
    ASSUME IInv, GsExit
    PROVE  IInv'
<1> USE DEF IInv
<1>1. /\ UNCHANGED <<writePos, semVars, sig, vs, gate, gsOpen, eeVars>>
      /\ gs = "exit" /\ gs' = "kill" /\ cur' = cur
      /\ readPos' = writePos /\ ring' = Freed(Positions) /\ sent' = <<>>
  BY DEF GsExit, GsGoto
<1>2. Closing
  BY <1>1 DEF Handshake, NoThread, Closed, Opening, Opened, Closing, ShutDown,
       Outside, MainLoop, Draining, InPacket
<1>3. ee \in {"closenotify", "closewait"}
  BY <1>2 DEF Closing
<1>4. ring' \in [Positions -> AllCmds \union {"data", "free"}] /\ sent' \in Seq(Packet)
  BY <1>1 DEF Freed
<1>5. Types'
  BY <1>1, <1>4 DEF Types, semVars, eeVars, Event!TypeOK, GsPlaces
<1>6. RingInv'
  BY <1>1, EmptyRing DEF RingInv
<1>7. EeHand' /\ GsHand' /\ Told' /\ Quiet'
  BY <1>1, <1>3 DEF EeHand, GsHand, Told, Quiet, InPacket, Sending, eeVars, semVars
<1>8. Handshake'
  BY <1>1, <1>2 DEF Handshake, Closing, eeVars, MainLoop, Draining, InPacket, Outside
<1>9. WorkerMatches'
  BY <1>1 DEF WorkerMatches, semVars, eeVars
<1>10. Frames'
  <2>1. Cardinality(Vsyncs(sent)) = 0 /\ vs.queued \in Int
    <3>1. sent \in Seq(Packet) /\ \A i \in 1 .. Len(sent) : sent[i].cmd # "vsync"
      BY <1>3 DEF Types, Frames
    <3> QED
      BY <3>1, VsyncsType DEF Types
  <2>2. Cardinality(Vsyncs(sent')) = 0
    <3>1. \A i \in 1 .. Len(sent') : sent'[i].cmd # "vsync"
      BY <1>1
    <3> QED
      BY <1>4, <3>1, VsyncsType
  <2> QED
    BY <1>1, <1>3, <2>1, <2>2 DEF Frames, eeVars
<1>11. Posts'
  BY <1>1 DEF Posts, eeVars
<1> QED
  BY <1>5, <1>6, <1>7, <1>8, <1>9, <1>10, <1>11

\* The GS thread goes round outside of the drain loop.
LEMMA KeptByLoops ==
    ASSUME IInv, Loops
    PROVE  IInv'
<1> USE DEF IInv
<1> DEFINE Places == Outside \union {"main", "checkopen", "opening", "openpost", "closing",
                                     "closepost", "kill"}
           GateType == [open : BOOLEAN, shutdown : BOOLEAN, done : Nat, thread : BOOLEAN]
<1>1. /\ UNCHANGED <<ringVars, sig, vs, eeVars>> /\ cur' \in {cur, "none"}
      /\ gs \in Places /\ gs' \in Places \union {"drain", "exit", "exited"}
  BY DEF Loops, GsEntry, GsEntryShutdown, GsWaitForWork, GsOpen, GsOpenPost, GsClose, GsClosePost,
         GsReset, GsCheckForWork, GsCheckOpen, GsKill, GsGoto, gsVars, Outside
<1>2. gate \in GateType /\ gate.done \in Nat
  BY DEF Types
<1>3. Types' /\ RingInv' /\ EeHand' /\ GsHand' /\ Frames' /\ Posts'
  <2>1. Event!TypeOK'
    BY DEF Loops, GsEntry, GsEntryShutdown, GsWaitForWork, GsOpen, GsOpenPost, GsClose, GsClosePost,
         GsReset, GsCheckForWork, GsCheckOpen, GsKill, Types, Event!TypeOK, Event!Kill, Event!Take,
         Event!StartWait, Event!Wake, Event!PollEmpty, Event!Reset, Event!Released, semVars
  <2>2. gate' \in GateType /\ gsOpen' \in BOOLEAN
    <3>1. CASE \E opened \in BOOLEAN : GsOpen(opened)
      <4>1. PICK opened \in BOOLEAN : GsOpen(opened)
        BY <3>1
      <4>2. gate' = [open |-> opened, shutdown |-> gate.shutdown, done |-> gate.done,
                     thread |-> gate.thread]
        BY <1>2, <4>1 DEF GsOpen
      <4> QED
        BY <1>2, <4>1, <4>2 DEF GsOpen
    <3>2. CASE GsOpenPost \/ GsClosePost
      <4>1. gate' = [open |-> gate.open, shutdown |-> gate.shutdown, done |-> gate.done + 1,
                     thread |-> gate.thread]
        BY <1>2, <3>2 DEF GsOpenPost, GsClosePost
      <4> QED
        BY <1>2, <3>2, <4>1 DEF GsOpenPost, GsClosePost, Types
    <3>3. CASE UNCHANGED gate /\ gsOpen' \in {gsOpen, FALSE}
      BY <1>2, <3>3 DEF Types
    <3> QED
      BY <3>1, <3>2, <3>3 DEF Loops, GsEntry, GsEntryShutdown, GsWaitForWork, GsClose,
         GsReset, GsCheckForWork, GsCheckOpen, GsKill
  <2>3. Types'
    BY <1>1, <2>1, <2>2 DEF Types, ringVars, eeVars, GsPlaces, Outside, MainLoop, Draining
  <2>4. RingInv' /\ EeHand' /\ GsHand'
    BY <1>1 DEF RingInv, EeHand, GsHand, ringVars, eeVars, InPacket, Outside
  <2>5. Frames' /\ Posts'
    BY <1>1 DEF Frames, Posts, ringVars, eeVars, Outside
  <2> QED
    BY <2>3, <2>4, <2>5
<1>4. ASSUME Handshake', WorkerMatches', Told', Quiet' PROVE IInv'
  BY <1>3, <1>4
<1>5. CASE gs \in {"entry", "entryshut", "entrywait", "closing", "closepost", "reset", "kill",
                   "opening", "openpost"}
  <2>1. ee \notin {"waitevent", "wait", "waiting", "synced", "resetvs"} /\ waiter = "idle"
    BY <1>5 DEF Handshake, NoThread, Closed, Opening, Opened, Closing, ShutDown,
         WorkerMatches, Types, Event!TypeOK, Waiting, Sending, Outside, MainLoop, Draining, InPacket
  <2>2. ee' = ee
    BY <1>1 DEF eeVars
  <2>3. waiter' = "idle"
    BY <2>1 DEF Loops, GsEntry, GsEntryShutdown, GsWaitForWork, GsOpen, GsOpenPost, GsClose,
         GsClosePost, GsReset, GsCheckForWork, GsCheckOpen, GsKill, Event!Kill, Event!Take,
         Event!StartWait, Event!Wake, Event!PollEmpty, Event!Reset, Event!Released, semVars
  <2>4. Told' /\ Quiet'
    BY <2>1, <2>2, <2>3 DEF Told, Quiet
  <2>5. WorkerMatches'
    BY <1>5, <2>1, <2>2, <2>3 DEF WorkerMatches, Loops, GsEntry, GsEntryShutdown, GsWaitForWork,
         GsOpen, GsOpenPost, GsClose, GsClosePost, GsReset, GsCheckForWork, GsCheckOpen, GsKill,
         GsGoto, Event!Kill, Event!Take, Event!StartWait, Event!Wake, Event!Reset, semVars, gsVars
  <2>6. Handshake'
    <3>1. CASE GsEntry \/ GsEntryShutdown \/ GsWaitForWork \/ GsReset \/ GsKill
      <4>1. UNCHANGED <<gate, gsOpen, ee>> /\ gs \notin MainLoop
            /\ \/ gs \in Outside /\ gs' \in Outside
               \/ gs \in Outside /\ gs' = "opening" /\ gate.open
               \/ gs \in Outside /\ gs' = "exited" /\ gate.shutdown
               \/ gs = "kill" /\ gs' = "closing"
        BY <1>5, <2>2, <3>1 DEF GsEntry, GsEntryShutdown, GsWaitForWork, GsReset, GsKill, GsGoto,
             Outside, gsVars, MainLoop, Draining, InPacket
      <4>2. NoThread \/ Opened => FALSE
        BY <4>1 DEF NoThread, Opened, Outside, MainLoop, Draining, InPacket
      <4>3. CASE Closed
        BY <4>1, <4>3 DEF Handshake, Closed, Outside
      <4>4. CASE Opening
        <5>1. Opening'
          BY <4>1, <4>4 DEF Opening, Outside, MainLoop, Draining, InPacket
        <5> QED
          BY <5>1 DEF Handshake
      <4>5. CASE Closing
        <5>1. Closing'
          BY <4>1, <4>5 DEF Closing, Outside, MainLoop, Draining, InPacket
        <5> QED
          BY <5>1 DEF Handshake
      <4>6. CASE ShutDown
        BY <4>1, <4>6 DEF Handshake, ShutDown, Outside
      <4> QED
        BY <4>2, <4>3, <4>4, <4>5, <4>6 DEF Handshake
    <3>2. CASE \E opened \in BOOLEAN : GsOpen(opened)
      <4>1. PICK opened \in BOOLEAN : GsOpen(opened)
        BY <3>2
      <4>2. gate' = [open |-> opened, shutdown |-> gate.shutdown, done |-> gate.done,
                     thread |-> gate.thread]
        BY <1>2, <4>1 DEF GsOpen
      <4>3. gs = "opening" /\ gs' = "openpost" /\ gsOpen' = opened
        BY <4>1 DEF GsOpen, GsGoto
      <4>4. Opening
        BY <4>3 DEF Handshake, NoThread, Closed, Opening, Opened, Closing, ShutDown, Outside,
             MainLoop, Draining, InPacket
      <4>5. Opening'
        BY <2>2, <4>2, <4>3, <4>4 DEF Opening, Outside, MainLoop, Draining, InPacket
      <4> QED
        BY <4>5 DEF Handshake
    <3>3. CASE GsOpenPost
      <4>1. gate' = [open |-> gate.open, shutdown |-> gate.shutdown, done |-> gate.done + 1,
                     thread |-> gate.thread]
        BY <1>2, <3>3 DEF GsOpenPost
      <4>2. gs = "openpost" /\ gs' = (IF gsOpen THEN "main" ELSE "entry") /\ UNCHANGED gsOpen
        BY <3>3 DEF GsOpenPost, GsGoto
      <4>3. Opening
        BY <4>2 DEF Handshake, NoThread, Closed, Opening, Opened, Closing, ShutDown, Outside,
             MainLoop, Draining, InPacket
      <4>4. Opening'
        BY <1>2, <2>2, <4>1, <4>2, <4>3 DEF Opening, Outside, MainLoop, Draining, InPacket
      <4> QED
        BY <4>4 DEF Handshake
    <3>4. CASE GsClose
      <4>1. gs = "closing" /\ gs' = "closepost" /\ gsOpen' = FALSE /\ UNCHANGED gate
        BY <3>4 DEF GsClose, GsGoto
      <4>2. Closing
        BY <4>1 DEF Handshake, NoThread, Closed, Opening, Opened, Closing, ShutDown, Outside,
             MainLoop, Draining, InPacket
      <4>3. Closing'
        BY <2>2, <4>1, <4>2 DEF Closing, Outside, MainLoop, Draining, InPacket
      <4> QED
        BY <4>3 DEF Handshake
    <3>5. CASE GsClosePost
      <4>1. gate' = [open |-> gate.open, shutdown |-> gate.shutdown, done |-> gate.done + 1,
                     thread |-> gate.thread]
        BY <1>2, <3>5 DEF GsClosePost
      <4>2. gs = "closepost" /\ gs' = "reset" /\ UNCHANGED gsOpen
        BY <3>5 DEF GsClosePost, GsGoto
      <4>3. Closing
        BY <4>2 DEF Handshake, NoThread, Closed, Opening, Opened, Closing, ShutDown, Outside,
             MainLoop, Draining, InPacket
      <4>4. Closing'
        BY <1>2, <2>2, <4>1, <4>2, <4>3 DEF Closing, Outside, MainLoop, Draining, InPacket
      <4> QED
        BY <4>4 DEF Handshake
    <3> QED
      BY <1>5, <3>1, <3>2, <3>3, <3>4, <3>5 DEF Loops, GsCheckForWork, GsCheckOpen, GsGoto
  <2> QED
    BY <1>4, <2>4, <2>5, <2>6
<1>6. CASE gs \in {"main", "checkopen"}
  <2>1. UNCHANGED <<gate, gsOpen, ee, ringVars>>
        /\ gs' \in {"main", "checkopen", "drain", "exit"}
        /\ (gs' = "exit" => ~gate.open) /\ (gs' # "exit" => gs' \in MainLoop)
    BY <1>1, <1>6 DEF Loops, GsEntry, GsEntryShutdown, GsWaitForWork, GsOpen, GsOpenPost, GsClose,
         GsClosePost, GsReset, GsCheckForWork, GsCheckOpen, GsKill, GsGoto, eeVars, gsVars,
         MainLoop, Draining
  <2>2. Handshake'
    <3>1. Opening \/ Opened \/ Closing
      BY <1>6 DEF Handshake, NoThread, Closed, Opening, Opened, Closing, ShutDown,
           Outside, MainLoop, Draining, InPacket
    <3>2. Opening' \/ Opened' \/ Closing'
      BY <1>6, <2>1, <3>1 DEF Opening, Opened, Closing, Outside, MainLoop, Draining, InPacket
    <3> QED
      BY <3>2 DEF Handshake
  <2>3. \/ gs = "main" /\ gs' = "main" /\ Event!StartWait
        \/ gs = "main" /\ gs' = "main" /\ Event!Wake
        \/ gs = "main" /\ gs' = "checkopen" /\ (Event!Take \/ Event!PollEmpty)
        \/ gs = "checkopen" /\ gs' = (IF gate.open THEN "drain" ELSE "exit") /\ UNCHANGED semVars
    BY <1>6 DEF Loops, GsEntry, GsEntryShutdown, GsWaitForWork, GsOpen, GsOpenPost, GsClose,
         GsClosePost, GsReset, GsCheckForWork, GsCheckOpen, GsKill, GsGoto, gsVars
  <2>4. ee \in {"wait", "waiting"} => gate.open
    BY <1>6 DEF Handshake, NoThread, Closed, Opening, Opened, Closing, ShutDown
  <2>5. sent' = sent /\ gs' \notin InPacket /\ (gs = "main" => gs \notin Draining)
    BY <2>1 DEF ringVars, InPacket, Draining
  <2>6. WorkerMatches'
    BY <2>1, <2>3 DEF WorkerMatches, Event!StartWait, Event!Wake, Event!Take, Event!PollEmpty,
         Event!Released, semVars
  <2>7. Told'
    BY <2>1, <2>3, <2>4, <2>5 DEF Told, Draining, Event!StartWait, Event!Wake, Event!Take,
         Event!PollEmpty, semVars
  <2>8. Quiet'
    <3>1. waiter' = "released" => waiter = "released" \/ (waiter = "waiting" /\ gs = "main" /\ ~pending)
      BY <2>3 DEF Event!StartWait, Event!Wake, Event!Take, Event!PollEmpty, Event!Released, semVars
    <3>2. waiter = "waiting" /\ gs = "main" /\ ~pending => sent = <<>>
      BY <2>5 DEF WorkerMatches, Told
    <3> QED
      BY <2>1, <2>5, <3>1, <3>2 DEF Quiet
  <2> QED
    BY <1>4, <2>2, <2>6, <2>7, <2>8
<1> QED
  BY <1>1, <1>5, <1>6 DEF Outside

\* The invariant holds before the GS thread is started.
LEMMA IInvInit == Init => IInv
<1> SUFFICES ASSUME Init PROVE IInv
  OBVIOUS
<1> USE RingAssumption
<1>1. Types
  <2>1. readPos \in Positions /\ writePos \in Positions /\ sent \in Seq(Packet)
    BY DEF Init, Positions
  <2>2. ring \in [Positions -> AllCmds \union {"data", "free"}]
    BY DEF Init
  <2>3. /\ sig \in [enable : BOOLEAN, pos : Int, posts : Nat]
        /\ vs \in [queued : Int, listener : BOOLEAN, posts : Nat]
        /\ gate \in [open : BOOLEAN, shutdown : BOOLEAN, done : Nat, thread : BOOLEAN]
    BY DEF Init
  <2> QED
    BY <2>1, <2>2, <2>3 DEF Init, Types, Event!Init, Event!TypeOK, EePlaces, GsPlaces
<1>2. RingInv
  BY EmptyRing DEF Init, RingInv
<1>3. EeHand /\ GsHand /\ Told /\ Quiet
  BY DEF Init, EeHand, GsHand, Told, Quiet, Sending, InPacket, Event!Init
<1>4. Handshake
  BY DEF Init, Handshake, NoThread
<1>5. WorkerMatches
  BY DEF Init, WorkerMatches, Event!Init
<1>6. Frames
  <2>1. Cardinality(Vsyncs(sent)) = 0
    <3>1. sent \in Seq(Packet) /\ \A i \in 1 .. Len(sent) : sent[i].cmd # "vsync"
      BY DEF Init
    <3> QED
      BY <3>1, VsyncsType
  <2> QED
    BY <2>1 DEF Init, Frames
<1>7. Posts
  BY DEF Init, Posts
<1> QED
  BY <1>1, <1>2, <1>3, <1>4, <1>5, <1>6, <1>7 DEF IInv

\* Every step of both threads keeps the invariant.
LEMMA IInvStep == ResetWaits = TRUE /\ IInv /\ [Next]_vars => IInv'
<1> SUFFICES ASSUME ResetWaits = TRUE, IInv, [Next]_vars PROVE IInv'
  OBVIOUS
<1>1. CASE Next
  BY <1>1, NextSplit, KeptBySends, KeptByWaits, KeptByFlags, KeptByWrite, KeptByPublish,
     KeptByReset, KeptByExecutes, KeptByLoops, KeptByAdvance, KeptByExit
<1>2. CASE UNCHANGED vars
  <2>1. UNCHANGED <<ring, readPos, writePos, sent, pending, worker, waiter, sig, vs, gate, gsOpen,
                    ee, cmd, gs, cur>>
    BY <1>2 DEF vars, ringVars, semVars, eeVars, gsVars
  <2>2. Types' /\ RingInv' /\ EeHand' /\ GsHand'
    BY <2>1 DEF IInv, Types, RingInv, EeHand, GsHand, Event!TypeOK
  <2>3. Handshake' /\ WorkerMatches' /\ Told' /\ Quiet' /\ Frames' /\ Posts'
    BY <2>1 DEF IInv, Handshake, NoThread, Closed, Opening, Opened, Closing, ShutDown,
         WorkerMatches, Told, Quiet, Frames, Posts
  <2> QED
    BY <2>2, <2>3 DEF IInv
<1> QED
  BY <1>1, <1>2

-----------------------------------------------------------------------------
(* The theorems: ResetGS(true) only behind a WaitGS *)

\* The invariant holds in every reachable state.
THEOREM Invariance == ResetWaits = TRUE => (Spec => []IInv)
<1> SUFFICES ASSUME ResetWaits = TRUE PROVE Spec => []IInv
  OBVIOUS
<1>1. IInv /\ [Next]_vars => IInv'
  BY IInvStep
<1> QED
  BY <1>1, IInvInit, PTL DEF Spec

\* Whatever the sizes, the GS thread finds the packets that were sent, in
\* order, whole, and each once (GenericStall against MainLoop).
THEOREM RingCorrect == ResetWaits = TRUE => (Spec => []RingIsTheQueue)
<1> SUFFICES ASSUME ResetWaits = TRUE PROVE Spec => []RingIsTheQueue
  OBVIOUS
<1>1. IInv => RingIsTheQueue
  <2> SUFFICES ASSUME IInv PROVE RingIsTheQueue
    OBVIOUS
  <2>1. sent \in Seq(Packet) /\ DOMAIN sent = 1 .. Len(sent) /\ gs # "lost"
    BY DEF IInv, Types, GsPlaces, Outside, MainLoop, Draining, InPacket
  <2>2. Chain(sent, readPos, writePos) /\ \A i \in 1 .. Len(sent) : Whole(sent[i], ring)
    BY DEF IInv, RingInv, Ring
  <2>3. GsHand
    BY DEF IInv
  <2> QED
    BY <2>1, <2>2, <2>3 DEF RingIsTheQueue, Chain, Whole, EndOf, GsHand, InPacket
<1> QED
  BY <1>1, Invariance, PTL

\* s_QueuedFrameCount does not drift, however many frames are queued
\* (PostVsyncStart and MainLoop).
THEOREM FramesCorrect == ResetWaits = TRUE => (Spec => []QueuedFramesMatchRing)
<1> SUFFICES ASSUME ResetWaits = TRUE PROVE Spec => []QueuedFramesMatchRing
  OBVIOUS
<1>1. IInv => QueuedFramesMatchRing
  <2> SUFFICES ASSUME IInv PROVE QueuedFramesMatchRing
    OBVIOUS
  <2>1. DOMAIN sent = 1 .. Len(sent)
    BY DEF IInv, Types
  <2> QED
    BY <2>1 DEF IInv, Frames, Vsyncs, QueuedFramesMatchRing
<1> QED
  BY <1>1, Invariance, PTL

\* A stalled EE thread is owed exactly one Post and none is left for the next
\* stall, whatever the limits (GenericStall:752-791, PostVsyncStart:274-289).
THEOREM PostsCorrect == ResetWaits = TRUE => (Spec => []OnePostPerStall)
<1> SUFFICES ASSUME ResetWaits = TRUE PROVE Spec => []OnePostPerStall
  OBVIOUS
<1>1. IInv => OnePostPerStall
  <2> SUFFICES ASSUME IInv PROVE OnePostPerStall
    OBVIOUS
  <2>1. ee \in {"stall", "write"} => ~sig.enable
    BY NoPosts
  <2>2. Posts
    BY DEF IInv
  <2> QED
    BY <2>1, <2>2 DEF Posts, OnePostPerStall
<1> QED
  BY <1>1, Invariance, PTL

\* When WaitGS returns the ring is empty and the GS thread between packets.
THEOREM WaitGSCorrect == ResetWaits = TRUE => (Spec => []WaitGSMeansDone)
<1> SUFFICES ASSUME ResetWaits = TRUE PROVE Spec => []WaitGSMeansDone
  OBVIOUS
<1>1. IInv => WaitGSMeansDone
  BY DEF IInv, Types, Quiet, InPacket, EePlaces, Sending, Waiting, WaitGSMeansDone
<1> QED
  BY <1>1, Invariance, PTL

\* Between two calls both threads agree whether the renderer is open, and no
\* completion is left over (WaitForOpen and WaitForClose).
THEOREM HandshakeCorrect == ResetWaits = TRUE => (Spec => []OpenHandshake)
<1> SUFFICES ASSUME ResetWaits = TRUE PROVE Spec => []OpenHandshake
  OBVIOUS
<1>1. IInv => OpenHandshake
  BY DEF IInv, Handshake, NoThread, Closed, Opening, Opened, Closing, ShutDown, Sending, Waiting,
       Outside, MainLoop, Draining, InPacket, OpenHandshake
<1> QED
  BY <1>1, Invariance, PTL
====
