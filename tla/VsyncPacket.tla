---- MODULE VsyncPacket ----
(***************************************************************************)
(* How the GS registers travel in a vsync packet (MTGS.cpp:227-257 and     *)
(* 485-503, WrappedMemCopy.h): RegQuads quadwords of registers are copied  *)
(* in and out with a wrap-around copy, and the last two quadwords (csr and *)
(* imr; registers_written) through a plain pointer.  RingBuffer.Regs lies  *)
(* directly behind the ring (BufferedData, 35-38), so memory here is one   *)
(* function over both.  Room in the ring is GenericStall's business        *)
(* (Mtgs.tla); here a packet is written only into room that is free.       *)
(*                                                                         *)
(* A definition named X_Y is X with a slip Y in it; no action uses it.     *)
(***************************************************************************)
EXTENDS Integers, Sequences

CONSTANTS
    RingSize,   \* RingBufferSize, in quadwords
    RegQuads,   \* 0xf
    Frames,     \* frames told apart
    AnyStart    \* whether a packet may end on the last quadword of the ring

ASSUME SizeAssumption ==
    RingSize \in Nat /\ RegQuads \in Nat \ {0} /\ RegQuads + 3 < RingSize
ASSUME AnyStartAssumption == AnyStart \in BOOLEAN

VARIABLES
    memory,     \* m_Ring and then Regs: what was last written to a quadword
    readPos, writePos,
    sent,       \* frames in the ring, oldest first
    ee, gs,     \* where the two threads are
    got         \* what the GS thread was given for the frame it finished last

vars == <<memory, readPos, writePos, sent, ee, gs, got>>

Quads == 0 .. RingSize + RegQuads - 1
PacketQuads == RegQuads + 3
Wrapped(p) == p % RingSize

\* One quadword of frame f: a register, csr and imr, or registers_written.
Content(what, i, f) == [what |-> what, i |-> i, frame |-> f]
Blank == Content("blank", 0, 0)

\* A frame as the EE thread sends it.
Frame(f) == [regs |-> [i \in 0 .. RegQuads - 1 |-> Content("reg", i, f)],
             csr |-> Content("csr", 0, f), written |-> Content("written", 0, f)]

\* MemCopy_WrappedDest and MemCopy_WrappedSrc: where quadword i goes, and where
\* the position stands after the copy.
CopyTarget_NoWrap(start, i) == start + i
CopyTarget(start, i) == IF start + i < RingSize THEN start + i ELSE start + i - RingSize
CopyEnd_Inclusive(start) == IF start + RegQuads <= RingSize THEN start + RegQuads ELSE Wrapped(start + RegQuads)
CopyEnd(start) == IF start + RegQuads < RingSize THEN start + RegQuads ELSE Wrapped(start + RegQuads)

\* "u32* remainder": two quadwords from here on, wherever that is.
Remainder(packet) == CopyEnd(Wrapped(packet + 1))

Free == RingSize - ((writePos - readPos) % RingSize)

Init ==
    /\ memory = [q \in Quads |-> Blank]
    /\ readPos = 0 /\ writePos = 0
    /\ sent = <<>>
    /\ ee = "idle" /\ gs = "idle"
    /\ got = <<>>

\* A packet of one quadword: it only moves the positions.
PostSimple ==
    /\ ee = "idle" /\ gs = "idle"
    /\ readPos = writePos
    /\ writePos' = Wrapped(writePos + 1)
    /\ readPos' = writePos'
    /\ UNCHANGED <<memory, sent, ee, gs, got>>

\* PostVsyncStart: the wrap-around copy ...
CopyIn(f) ==
    /\ ee = "idle"
    /\ Free > PacketQuads
    /\ AnyStart \/ Remainder(writePos) # RingSize - 1
    /\ LET data == Wrapped(writePos + 1) IN
       memory' = [q \in Quads |->
         IF \E i \in 0 .. RegQuads - 1 : q = CopyTarget(data, i)
         THEN Content("reg", CHOOSE i \in 0 .. RegQuads - 1 : q = CopyTarget(data, i), f)
         ELSE memory[q]]
    /\ ee' = "remainder"
    /\ sent' = Append(sent, f)
    /\ UNCHANGED <<readPos, writePos, gs, got>>

\* ... and the rest, then SendDataPacket.
PutRemainder ==
    /\ ee = "remainder"
    /\ LET r == Remainder(writePos)
           f == sent[Len(sent)]
       IN memory' = [memory EXCEPT ![r] = Content("csr", 0, f), ![r + 1] = Content("written", 0, f)]
    /\ writePos' = Wrapped(Remainder(writePos) + 2)
    /\ ee' = "idle"
    /\ UNCHANGED <<readPos, sent, gs, got>>

\* MainLoop, case VSync: the registers are copied out to Regs ...
CopyOut ==
    /\ gs = "idle"
    /\ readPos # writePos
    /\ LET data == Wrapped(readPos + 1) IN
       memory' = [q \in Quads |-> IF q < RingSize THEN memory[q]
                                  ELSE memory[CopyTarget(data, q - RingSize)]]
    /\ gs' = "remainder"
    /\ UNCHANGED <<readPos, writePos, sent, ee, got>>

\* ... and the rest is read where the copy ended.
TakeRemainder ==
    /\ gs = "remainder"
    /\ LET r == Remainder(readPos) IN
       got' = <<Head(sent), [regs |-> [i \in 0 .. RegQuads - 1 |-> memory[RingSize + i]],
                             csr |-> memory[r], written |-> memory[r + 1]]>>
    /\ gs' = "advance"
    /\ UNCHANGED <<memory, readPos, writePos, sent, ee>>

\* The room given back is blanked here, so that a stale read would show.
Advance ==
    /\ gs = "advance"
    /\ memory' = [q \in Quads |->
                    IF \E k \in 0 .. PacketQuads - 1 : q = Wrapped(readPos + k)
                    THEN Blank ELSE memory[q]]
    /\ readPos' = Wrapped(readPos + PacketQuads)
    /\ sent' = Tail(sent)
    /\ gs' = "idle"
    /\ got' = <<>>
    /\ UNCHANGED <<writePos, ee>>

Next ==
    \/ PostSimple \/ (\E f \in Frames : CopyIn(f)) \/ PutRemainder
    \/ CopyOut \/ TakeRemainder \/ Advance

Spec == Init /\ [][Next]_vars

-----------------------------------------------------------------------------
(* Properties *)

\* The GS thread is given the frame that was sent, every part of it, wherever
\* in the ring the packet began: "needed in order to handle cases where the
\* vsync data wraps around the edge of the ringbuffer" (MTGS.cpp:490-492).
FrameArrives == got # <<>> => got[2] = Frame(got[1])

\* The registers the renderer looks at change only in the GS thread's own step
\* of taking them over; building a packet leaves them alone (246-254).
RegsKeptByEe ==
    [][(\E q \in RingSize .. RingSize + RegQuads - 1 : memory'[q] # memory[q]) => gs' # gs]_vars
====
