---- MODULE Sif ----
(***************************************************************************)
(* The SIF, the link between the console's two processors (Sif.h, Sif0.cpp, *)
(* Sif1.cpp): a DMA channel of the EE and one of the IOP with a fifo       *)
(* between them.  SIF0 carries packets from the IOP to the EE, SIF1 from   *)
(* the EE to the IOP; each processor starts its own end, at its own time,  *)
(* and is interrupted when its own end is done.                            *)
(*                                                                         *)
(* SIF0Dma and SIF1Dma run both ends by turns until neither can move.  The *)
(* two processors are emulated in one thread, so nothing else happens      *)
(* while they run; between two runs either processor does anything.        *)
(*                                                                         *)
(* A program is a ring of packets.  Chain mode, as the drivers use it, with *)
(* tags and amounts that match.  Left out: cycles, the flags of SBUS_F240, *)
(* stall control and TTE on SIF1.                                          *)
(*                                                                         *)
(* A definition named X_Y is X with a slip Y in it; no action uses it.     *)
(***************************************************************************)
EXTENDS Integers, Sequences

CONSTANTS
    W,            \* FIFO_SIF_W, words the fifo holds
    Packets,      \* packets of the program
    Words,        \* words of a packet
    Chunks,       \* quadwords of a tag in the EE's source chain
    Sif1Tie,      \* sif1ch.chcr.TIE, whether a tag's IRQ bit ends the chain
    Vif1Tie,      \* vif1ch.chcr.TIE, which dmaSIF1 looks at instead
    StaleBusy     \* whether a channel that was stopped, and so left busy, may be
                  \* started with the DMAC disabled

ASSUME FifoAssumption == W \in Nat /\ W % 4 = 0 /\ W >= 8
ASSUME PacketsAssumption == Packets \in Nat \ {0} /\ 8 * (Packets - 1) >= W
ASSUME AmountsAssumption == Words \subseteq Nat \ {0} /\ Chunks \subseteq Nat \ {0}
ASSUME FlagAssumption == {Sif1Tie, Vif1Tie, StaleBusy} \subseteq BOOLEAN

VARIABLES
    channel,      \* "sif0" or "sif1"
    packet,       \* the program, in the memory of the processor that sends
    fifo,         \* sifFifo
    ee,           \* sif_ee, the EE's channel registers, its pending interrupt
    iop,          \* sif_iop, the IOP's channel registers, its pending interrupt
    src,          \* SIF1: where in its memory the EE sends from
    got,          \* what has arrived of the packet being received
    dmac,         \* whether the EE's DMAC is enabled
    pass, did     \* place in SIF0Dma or SIF1Dma, and BusyCheck

vars == <<channel, packet, fifo, ee, iop, src, got, dmac, pass, did>>

Pkt == 0 .. Packets - 1
NoPkt == -1

\* Word at of a packet; the words of its tag come before the first, at -3 .. 0.
Word(p, at) == [pkt |-> p, at |-> at]
Slice(p, from, to) == [i \in 1 .. to - from + 1 |-> Word(p, from + i - 1)]
Tag(p) == Slice(p, -3, 0)
NoWord == Word(NoPkt, 0)

Sif0 == channel = "sif0"

\* Sizes that the direction allows: SIF1 counts in multiples of four words.
Sizes(c) == IF c = "sif0" THEN Words ELSE {w \in Words : w % 4 = 0}

Init ==
    /\ channel \in {"sif0", "sif1"}
    /\ packet \in [Pkt -> [words : Sizes(channel), eeEnd : BOOLEAN, iopEnd : BOOLEAN]]
    /\ \E p \in Pkt : packet[p].iopEnd
    /\ channel = "sif1" => \A p \in Pkt : ~packet[p].eeEnd
    /\ fifo = [data |-> [i \in 0 .. W - 1 |-> NoWord], readPos |-> 0, writePos |-> 0, size |-> 0]
    /\ ee = [str |-> FALSE, busy |-> FALSE, end |-> FALSE, qwc |-> 0, tag |-> "more",
             pkt |-> NoPkt, irq |-> FALSE, queued |-> FALSE]
    /\ iop = [tr |-> FALSE, busy |-> FALSE, end |-> FALSE, counter |-> 0, junk |-> 0,
              pkt |-> IF channel = "sif0" THEN Packets - 1 ELSE NoPkt, irq |-> FALSE]
    /\ src = Word(0, -3) /\ got = <<>>
    /\ dmac = TRUE
    /\ pass = "rest" /\ did = FALSE

-----------------------------------------------------------------------------
(* sifFifo *)

Least(a, b) == IF a < b THEN a ELSE b
Free(f) == W - f.size

Write(f, ws) ==
    [f EXCEPT !.data = [i \in 0 .. W - 1 |->
                           LET k == ((i - f.writePos) % W) + 1
                           IN  IF k <= Len(ws) THEN ws[k] ELSE f.data[i]],
              !.writePos = (@ + Len(ws)) % W,
              !.size = @ + Len(ws)]

Oldest(f, n) == [i \in 1 .. n |-> f.data[(f.readPos + i - 1) % W]]
Read(f, n) == [f EXCEPT !.readPos = (@ + n) % W, !.size = @ - n]

\* The words that fill up a packet's last quadword are those at the same places
\* of the quadword before it, which are still in the fifo's memory.
WriteJunk_LastWords(f, n) ==
    LET old == [i \in 1 .. 4 |-> f.data[(f.writePos - 4 + i - 1) % W]]
    IN  Write(f, SubSeq(old, 4 - n + 1, 4))
WriteJunk(f, n) ==
    LET prev == f.writePos - (4 + (4 - n))
        junk == [i \in 1 .. 4 |-> f.data[(prev + i - 1) % W]]
        wP0  == Least(W - f.writePos, n)
    IN  Write(f, SubSeq(junk, 4 - wP0 + 1, 4) \o SubSeq(junk, wP0 + 1, n))

-----------------------------------------------------------------------------
(* The processors, between two runs *)

Rest == pass = "rest"
FirstTurn == IF Sif0 THEN "junk" ELSE "ee"

\* dmaSIF1 finds out again whether the tag it stopped in was the last one.
EndsAgain_AnyTag(e) == ~Sif0 /\ e.qwc > 0
EndsAgain(e) == ~Sif0 /\ e.qwc > 0 /\ (e.tag = "end" \/ (e.tag = "irq" /\ Vif1Tie))

DmaSif(e) == [e EXCEPT !.busy = TRUE, !.end = EndsAgain(e)]

StartEe ==
    /\ Rest /\ ~ee.str
    /\ dmac \/ ~ee.busy \/ StaleBusy
    /\ LET e == [ee EXCEPT !.str = TRUE]
       IN  IF dmac THEN ee' = DmaSif(e) /\ pass' = FirstTurn
                   ELSE ee' = [e EXCEPT !.queued = TRUE] /\ UNCHANGED pass
    /\ UNCHANGED <<channel, packet, fifo, iop, src, got, dmac, did>>

\* A program may stop the channel and start it again with the same registers.
ForceStop ==
    /\ Rest /\ ee.str
    /\ ee' = [ee EXCEPT !.str = FALSE, !.irq = FALSE, !.queued = FALSE]
    /\ UNCHANGED <<channel, packet, fifo, iop, src, got, dmac, pass, did>>

DisableDmac ==
    /\ Rest /\ dmac /\ dmac' = FALSE
    /\ UNCHANGED <<channel, packet, fifo, ee, iop, src, got, pass, did>>

EnableDmac ==
    /\ Rest /\ ~dmac /\ dmac' = TRUE
    /\ IF ee.queued /\ ee.str
       THEN ee' = [DmaSif(ee) EXCEPT !.queued = FALSE] /\ pass' = FirstTurn
       ELSE UNCHANGED <<ee, pass>>
    /\ UNCHANGED <<channel, packet, fifo, iop, src, got, did>>

EeInterrupt ==
    /\ Rest /\ ee.irq /\ dmac
    /\ ee' = [ee EXCEPT !.irq = FALSE, !.str = FALSE]
    /\ UNCHANGED <<channel, packet, fifo, iop, src, got, dmac, pass, did>>

StartIop ==
    /\ Rest /\ ~iop.tr
    /\ iop' = [iop EXCEPT !.tr = TRUE, !.busy = TRUE, !.end = FALSE]
    /\ pass' = FirstTurn
    /\ UNCHANGED <<channel, packet, fifo, ee, src, got, dmac, did>>

IopInterrupt ==
    /\ Rest /\ iop.irq
    /\ iop' = [iop EXCEPT !.irq = FALSE, !.tr = FALSE]
    /\ UNCHANGED <<channel, packet, fifo, ee, src, got, dmac, pass, did>>

-----------------------------------------------------------------------------
(* The turns: SIF0 takes junk, IOP, EE; SIF1 takes EE, IOP *)

EeCanMove ==
    ee.busy /\ ((ee.end /\ ee.qwc = 0) \/ IF Sif0 THEN fifo.size >= 4 ELSE Free(fifo) > 0)
IopCanMove ==
    iop.busy /\ ((iop.end /\ iop.counter = 0) \/ IF Sif0 THEN Free(fifo) > 0 ELSE fifo.size >= 4)

JunkTurn_KeepsBusyCheck ==
    /\ pass = "junk" /\ pass' = "iop" /\ UNCHANGED did
    /\ IF iop.counter = 0 /\ iop.junk > 0 /\ Free(fifo) >= iop.junk
       THEN fifo' = WriteJunk(fifo, iop.junk) /\ iop' = [iop EXCEPT !.junk = 0]
       ELSE UNCHANGED <<fifo, iop>>
    /\ UNCHANGED <<channel, packet, ee, src, got, dmac>>
JunkTurn ==
    /\ pass = "junk" /\ pass' = "iop" /\ did' = FALSE
    /\ IF iop.counter = 0 /\ iop.junk > 0 /\ Free(fifo) >= iop.junk
       THEN fifo' = WriteJunk(fifo, iop.junk) /\ iop' = [iop EXCEPT !.junk = 0]
       ELSE UNCHANGED <<fifo, iop>>
    /\ UNCHANGED <<channel, packet, ee, src, got, dmac>>

EeTurn(moves) ==
    /\ pass = "ee" /\ EeCanMove = moves
    /\ did' = (moves \/ (Sif0 /\ did))
    /\ pass' = CASE ~Sif0 -> "iop" [] Sif0 /\ did' -> "junk" [] OTHER -> "rest"

IopTurn(moves) ==
    /\ pass = "iop" /\ IopCanMove = moves
    /\ did' = (moves \/ did)
    /\ pass' = CASE Sif0 -> "ee" [] ~Sif0 /\ did' -> "ee" [] OTHER -> "rest"

NoTurn ==
    /\ EeTurn(FALSE) \/ IopTurn(FALSE)
    /\ UNCHANGED <<channel, packet, fifo, ee, iop, src, got, dmac>>

\* HandleEETransfer of both directions finds STR cleared, or all sent.
EeStopped ==
    /\ EeTurn(TRUE) /\ ~ee.str
    /\ ee' = [ee EXCEPT !.busy = FALSE, !.end = FALSE]
    /\ UNCHANGED <<channel, packet, fifo, iop, src, got, dmac>>

IsLast_AtOnce == ee.end
IsLast == ee.qwc = 0 /\ ee.end

EndEE ==
    /\ EeTurn(TRUE) /\ ee.str /\ IsLast
    /\ ee' = [ee EXCEPT !.busy = FALSE, !.end = FALSE, !.irq = TRUE]
    /\ UNCHANGED <<channel, packet, fifo, iop, src, got, dmac>>

\* SIF0: the EE's tag comes through the fifo; what there is of its data with it.
ReadTag0(s) ==
    LET w == s.fifo.data[s.fifo.readPos]
        p == IF w.at = -3 THEN w.pkt ELSE NoPkt
    IN  [fifo |-> Read(s.fifo, 4), got |-> <<>>,
         ee |-> [s.ee EXCEPT !.pkt = p,
                             !.qwc = IF p = NoPkt THEN 0 ELSE (packet[p].words + 3) \div 4,
                             !.end = @ \/ (p # NoPkt /\ packet[p].eeEnd)]]

WriteToEe(s) ==
    LET n == Least(s.ee.qwc, s.fifo.size \div 4)
    IN  [fifo |-> Read(s.fifo, 4 * n), got |-> s.got \o Oldest(s.fifo, 4 * n),
         ee |-> [s.ee EXCEPT !.qwc = @ - n]]

HandleEe0 ==
    /\ Sif0 /\ EeTurn(TRUE) /\ ee.str /\ ~IsLast
    /\ LET now  == [fifo |-> fifo, ee |-> ee, got |-> got]
           read == IF ee.qwc = 0 THEN ReadTag0(now) ELSE now
           next == IF read.ee.qwc > 0 /\ read.fifo.size >= 4 THEN WriteToEe(read) ELSE read
       IN  fifo' = next.fifo /\ ee' = next.ee /\ got' = next.got
    /\ UNCHANGED <<channel, packet, iop, src, dmac>>

\* SIF1: a tag in the EE's memory; an IRQ ends the chain as well, with TIE set.
Ending(tag) == tag = "end" \/ (tag = "irq" /\ Sif1Tie)

ProcessEETag1(n, tag) ==
    /\ ~Sif0 /\ EeTurn(TRUE) /\ ee.str /\ ~IsLast /\ ee.qwc = 0
    /\ ee' = [ee EXCEPT !.qwc = n, !.tag = tag, !.end = Ending(tag)]
    /\ UNCHANGED <<channel, packet, fifo, iop, src, got, dmac>>

\* What the EE sends: each packet with the IOP's tag in front of it.
After(w) == IF w.at = packet[w.pkt].words THEN Word((w.pkt + 1) % Packets, -3)
            ELSE Word(w.pkt, w.at + 1)
Path(n) == LET at[i \in 0 .. n] == IF i = 0 THEN src ELSE After(at[i - 1]) IN at
FromMemory(n) == [i \in 1 .. n |-> Path(n)[i - 1]]

Room == Free(fifo) \div 4

WriteEEtoFifo ==
    /\ ~Sif0 /\ EeTurn(TRUE) /\ ee.str /\ ~IsLast /\ ee.qwc > 0
    /\ LET n == Least(ee.qwc, Room)
       IN  /\ fifo' = Write(fifo, FromMemory(4 * n))
           /\ src' = Path(4 * n)[4 * n]
           /\ ee' = [ee EXCEPT !.qwc = @ - n]
    /\ UNCHANGED <<channel, packet, iop, got, dmac>>

EndOfIop(i) == [i EXCEPT !.busy = FALSE, !.end = FALSE, !.irq = TRUE]

EndIOP0 ==
    /\ Sif0 /\ IopTurn(TRUE) /\ iop.counter = 0 /\ iop.end
    /\ iop' = EndOfIop(iop)
    /\ UNCHANGED <<channel, packet, fifo, ee, src, got, dmac>>

\* The IOP sends the EE's tag, and notes how much its last quadword falls short.
JunkNeeded_None(n) == 0
JunkNeeded(n) == (4 - n) % 4

ProcessIOPTag0 ==
    /\ Sif0 /\ IopTurn(TRUE) /\ iop.counter = 0 /\ ~iop.end
    /\ LET p == (iop.pkt + 1) % Packets
       IN  /\ fifo' = Write(fifo, Tag(p))
           /\ iop' = [iop EXCEPT !.pkt = p, !.counter = packet[p].words,
                                 !.junk = JunkNeeded(packet[p].words), !.end = packet[p].iopEnd]
    /\ UNCHANGED <<channel, packet, ee, src, got, dmac>>

WriteIOPtoFifo ==
    /\ Sif0 /\ IopTurn(TRUE) /\ iop.counter > 0 /\ Free(fifo) > 0
    /\ LET n == Least(iop.counter, Free(fifo))
           from == packet[iop.pkt].words - iop.counter + 1
       IN  /\ fifo' = Write(fifo, Slice(iop.pkt, from, from + n - 1))
           /\ iop' = [iop EXCEPT !.counter = @ - n]
    /\ UNCHANGED <<channel, packet, ee, src, got, dmac>>

\* SIF1: first the data of the present packet, then its end or the next tag.
WriteToIop(s) ==
    LET n == Least(s.iop.counter, s.fifo.size)
    IN  [fifo |-> Read(s.fifo, n), got |-> s.got \o Oldest(s.fifo, n),
         iop |-> [s.iop EXCEPT !.counter = @ - n]]

ReadTag1(s) ==
    LET w == s.fifo.data[s.fifo.readPos]
        p == IF w.at = -3 THEN w.pkt ELSE NoPkt
    IN  [fifo |-> Read(s.fifo, 4), got |-> <<>>,
         iop |-> [s.iop EXCEPT !.pkt = p, !.counter = IF p = NoPkt THEN 0 ELSE packet[p].words,
                               !.end = @ \/ (p # NoPkt /\ packet[p].iopEnd)]]

HandleIop1 ==
    /\ ~Sif0 /\ IopTurn(TRUE)
    /\ LET now  == [fifo |-> fifo, iop |-> iop, got |-> got]
           read == IF iop.counter > 0 /\ fifo.size > 0 THEN WriteToIop(now) ELSE now
           next == CASE read.iop.counter > 0 -> read
                     [] read.iop.counter = 0 /\ read.iop.end ->
                            [read EXCEPT !.iop = EndOfIop(@)]
                     [] read.iop.counter = 0 /\ ~read.iop.end /\ read.fifo.size >= 4 -> ReadTag1(read)
                     [] OTHER -> read
       IN  fifo' = next.fifo /\ iop' = next.iop /\ got' = next.got
    /\ UNCHANGED <<channel, packet, ee, src, dmac>>

DmaStep ==
    \/ JunkTurn \/ NoTurn \/ EeStopped \/ EndEE \/ HandleEe0 \/ WriteEEtoFifo
    \/ EndIOP0 \/ ProcessIOPTag0 \/ WriteIOPtoFifo \/ HandleIop1
    \/ \E n \in Chunks, tag \in {"more", "end", "irq"} : ProcessEETag1(n, tag)

Processors ==
    \/ StartEe \/ ForceStop \/ DisableDmac \/ EnableDmac \/ EeInterrupt
    \/ StartIop \/ IopInterrupt

Next == DmaStep \/ Processors

\* The loop runs on; nothing obliges a program, and interrupts wait for their time.
Spec == Init /\ [][Next]_vars /\ WF_vars(DmaStep)

-----------------------------------------------------------------------------
(* Properties *)

\* What the receiver is to find at a packet's address ("Junk data writing",
\* Sif.h:50): its words, and up to a whole quadword the words at the same places
\* of the quadword before, which for a packet under a quadword is its tag.
Expected(p) ==
    LET n == packet[p].words
    IN  Slice(p, 1, n) \o
        (IF n % 4 = 0 THEN <<>> ELSE Slice(p, n - 3, n - (n % 4)))

Received == IF Sif0 THEN ee.pkt ELSE iop.pkt
StillDue == IF Sif0 THEN 4 * ee.qwc ELSE iop.counter

\* However the two ends are started, stopped and started again, the packet that
\* is being received has arrived in order up to what is due, junk included.
ArrivesInOrder ==
    IF Received = NoPkt THEN got = <<>>
    ELSE got = SubSeq(Expected(Received), 1, Len(Expected(Received)) - StillDue)

\* The receiver is interrupted for a packet that was to interrupt it, and that
\* is in its memory to the last word.
InterruptMeansArrived ==
    (IF Sif0 THEN ee.irq ELSE iop.irq) =>
        /\ Received # NoPkt /\ got = Expected(Received)
        /\ IF Sif0 THEN packet[Received].eeEnd ELSE packet[Received].iopEnd

\* After a run the end that is still busy waits for the other one, and for good
\* reason: the receiver for words where all that was sent is taken, the sender
\* for room where there is none.  So the two never wait for each other.
WaitsForTheOther ==
    Rest =>
        /\ fifo.size % 4 = 0
        /\ (IF Sif0 THEN ee.busy ELSE iop.busy) => fifo.size = 0
        /\ (IF Sif0 THEN iop.busy ELSE ee.busy) => fifo.size = W

\* The sender is interrupted for a last packet or tag, and all of it is in the
\* fifo, junk included: no stop and start makes a last one of one in the middle.
InterruptMeansSent ==
    IF Sif0 THEN iop.irq => iop.counter = 0 /\ iop.junk = 0 /\ packet[iop.pkt].iopEnd
            ELSE ee.irq => ee.qwc = 0 /\ ee.tag # "more"

\* A channel stopped in the middle of its last tag and started again still ends
\* with it ("If NORMAL mode or end of CHAIN then stop DMA", Sif1.cpp:190).  The code
\* breaks this where EndsAgain and Ending differ, so it is in no run.
EndIsKept == ~Sif0 /\ ee.busy /\ ee.qwc > 0 => ee.end = Ending(ee.tag)

\* SIF0Dma and SIF1Dma return: neither end goes on for ever without the other.
DmaReturns == ~Rest ~> Rest
====
