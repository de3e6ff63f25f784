---- MODULE GifPath ----
(***************************************************************************)
(* The packet buffer of a GIF path (Gif_Unit.h: Gif_Path), between the     *)
(* thread that fills it and the GS thread that reads packets out of it in  *)
(* place (MTGS.cpp: GSPacket, MTVUGSPacket).                               *)
(*                                                                         *)
(* Without MTVU the EE thread copies data in, cuts it into packets and     *)
(* sends a pointer to each through the GS ring.  With MTVU the VU thread   *)
(* fills the buffer of path 1, one packet for each program, and queues the *)
(* packet in gsPackQueue; the EE thread, which does not know the packet,   *)
(* sends a tag for each program, and semaXGkick holds the GS thread until  *)
(* the program is done.                                                    *)
(*                                                                         *)
(* No packet is copied, so the buffer is reused behind the GS thread: how  *)
(* far that is follows from readAmount, what it has yet to read, alone.    *)
(* Both signals (s_sem_event, semaEvent) are the coalescing signal of      *)
(* WorkSignal.tla, of which a thread here is either at work or asleep.     *)
(*                                                                         *)
(* A definition named X_Y is X with a slip Y in it; no action uses it.     *)
(***************************************************************************)
EXTENDS Integers, Sequences, FiniteSetsExt, SequencesExt

CONSTANTS
    BuffSize,      \* quadwords of the buffer, 9 MB in the code
    BuffLimit,     \* where it wraps around, 1 MB + 1 KB before its end
    MaxKick,       \* quadwords of one transfer
    MaxPacket,     \* quadwords a packet grows to
    RingSize,      \* packets the GS ring holds
    MaxPrograms,   \* programs between ExecuteVU and the GS thread
    OthersWait     \* whether another path waits for the GS thread before a program is kicked

ASSUME SizeAssumption ==
    /\ {BuffSize, BuffLimit, MaxKick, MaxPacket, RingSize, MaxPrograms} \subseteq Nat \ {0}
    /\ BuffLimit + MaxKick <= BuffSize
    /\ 2 * MaxPacket <= BuffLimit
ASSUME WaitAssumption == OthersWait \in BOOLEAN

VARIABLES
    mtvu,                \* THREAD_VU1
    curSize, curOffset,  \* what is copied in, what is cut into packets
    pack,                \* gsPack, the packet being built
    readAmount,          \* the atomic
    queue,               \* gsPackQueue
    kicks,               \* semaXGkick
    tags,                \* packets of this path in the GS ring, oldest first
    event, gs,           \* s_sem_event has been notified; the GS thread
    fill, k,             \* the thread that fills the buffer, and its locals
    jobs, vuEvent,       \* programs in the VU thread's ring; its semaEvent
    ee, back,            \* the EE thread with MTVU, where it resumes
    fake,                \* fakePackets
    stalled,             \* ~CanDoGif(): a second SIGNAL is queued, PSE or DIR is set
    busy                 \* APATH is another path, in the middle of its packet

bufVars == <<curSize, curOffset, pack>>
gsVars == <<event, gs>>
fillVars == <<fill, k>>
vuVars == <<jobs, vuEvent>>
eeVars == <<ee, back, fake, stalled, busy>>
vars == <<mtvu, bufVars, readAmount, queue, kicks, tags, gsVars, fillVars, vuVars, eeVars>>

NoPack == [size |-> 0, blank |-> 0]
Blank == -1   \* the offset ~0u of a packet without data

\* n, whole: quadwords of the transfer, and whether its packet is now complete;
\* back, resume, after: where RealignPacket, a wait and a send return to;
\* start: startP1Packs; out: the pointer packet being sent.
NoOut == [offset |-> 0, size |-> 0]
NoKick == [n |-> 0, whole |-> TRUE, back |-> "none", resume |-> "none", after |-> "none",
           start |-> 0, out |-> NoOut]

Init ==
    /\ mtvu \in BOOLEAN
    /\ curSize = 0 /\ curOffset = 0 /\ pack = NoPack
    /\ readAmount = 0
    /\ queue = <<>> /\ kicks = 0 /\ tags = <<>>
    /\ event = FALSE /\ gs = "asleep"
    /\ fill = (IF mtvu THEN "asleep" ELSE "idle") /\ k = NoKick
    /\ jobs = 0 /\ vuEvent = FALSE
    /\ ee = "idle" /\ back = "idle"
    /\ fake = 0 /\ stalled = FALSE /\ busy = FALSE

\* gsPack.offset; what is copied in behind the packet; getReadAmount.
Offset == curOffset - pack.size
Uncut == curSize - curOffset
GetReadAmount == readAmount + pack.blank

-----------------------------------------------------------------------------
(* Filling the buffer: CopyGSPacketData and RealignPacket *)

Goto(from, to) == fill = from /\ fill' = to

\* A transfer from the EE thread, or an XGKICK of the running program; one that
\* runs off the end of VU memory comes in two parts.
NeedsRealign(n) == curSize + n > BuffSize

Transfer(n, whole) ==
    /\ fill \in {"idle", "run"}
    /\ whole \/ (mtvu /\ Uncut = 0)
    /\ pack.size + Uncut + n + (IF whole THEN 0 ELSE 1) <= MaxPacket
    /\ fill' = IF NeedsRealign(n) THEN "realign" ELSE "space"
    /\ k' = [NoKick EXCEPT !.n = n, !.whole = whole, !.back = "space"]
    /\ UNCHANGED <<mtvu, bufVars, readAmount, queue, kicks, tags, gsVars, vuVars, eeVars>>

\* The front of the buffer has room for the packet once everything before the
\* packet has been read, or as much of it as the packet does not cover itself.
ToMove == curSize - Offset
Intersect == IF ToMove > Offset THEN ToMove - Offset ELSE 0
FrontIsFree_IgnoresSize == Offset - GetReadAmount >= 0
FrontIsFree == Offset - GetReadAmount >= ToMove - Intersect

\* The space between the packet and the limit counts as something to read: with
\* MTVU until the packet is read, else in a blank packet of its own.
Realign ==
    /\ fill = "realign"
    /\ IF ~FrontIsFree
       THEN fill' = "waitevent" /\ k' = [k EXCEPT !.resume = "realign"] /\ UNCHANGED pack
       ELSE IF Offset >= BuffLimit THEN fill' = "move" /\ UNCHANGED <<k, pack>>
       ELSE IF mtvu THEN /\ pack' = [pack EXCEPT !.blank = @ + BuffLimit - Offset]
                         /\ fill' = "move" /\ UNCHANGED k
       ELSE /\ k' = [k EXCEPT !.out = [offset |-> Blank, size |-> BuffLimit - Offset],
                              !.after = "move"]
            /\ fill' = "add" /\ UNCHANGED pack
    /\ UNCHANGED <<mtvu, curSize, curOffset, readAmount, queue, kicks, tags, gsVars, vuVars, eeVars>>

Move ==
    /\ Goto("move", k.back)
    /\ curSize' = ToMove
    /\ curOffset' = pack.size
    /\ UNCHANGED <<mtvu, pack, readAmount, queue, kicks, tags, gsVars, k, vuVars, eeVars>>

\* The GS thread reads behind the packet, or in front of it and far enough.
ReadPos == Offset - GetReadAmount
HasSpace == ReadPos >= 0 \/ BuffLimit + ReadPos > curSize + k.n

Space ==
    /\ fill = "space"
    /\ IF HasSpace THEN fill' = "copy" /\ UNCHANGED k
       ELSE fill' = "waitevent" /\ k' = [k EXCEPT !.resume = "space"]
    /\ UNCHANGED <<mtvu, bufVars, readAmount, queue, kicks, tags, gsVars, vuVars, eeVars>>

Copy ==
    /\ Goto("copy", IF k.whole THEN "cut" ELSE "run")
    /\ curSize' = curSize + k.n
    /\ k' = NoKick
    /\ UNCHANGED <<mtvu, curOffset, pack, readAmount, queue, kicks, tags, gsVars, vuVars, eeVars>>

-----------------------------------------------------------------------------
(* mtgsReadWait: WaitGS(false, true, isMTVU()) *)

WaitEvent ==
    /\ Goto("waitevent", IF mtvu THEN "weak" ELSE "waitempty")
    /\ event' = TRUE
    /\ UNCHANGED <<mtvu, bufVars, readAmount, queue, kicks, tags, gs, k, vuVars, eeVars>>

GsIsEmpty == gs = "asleep" /\ ~event

WaitEmpty ==
    /\ GsIsEmpty
    /\ Goto("waitempty", k.resume)
    /\ UNCHANGED <<mtvu, bufVars, readAmount, queue, kicks, tags, gsVars, k, vuVars, eeVars>>

\* The weak wait returns at once when nothing is queued, and its caller tries again.
WeakWait ==
    /\ Goto("weak", IF queue = <<>> THEN k.resume ELSE "weakloop")
    /\ k' = [k EXCEPT !.start = Len(queue)]
    /\ UNCHANGED <<mtvu, bufVars, readAmount, queue, kicks, tags, gsVars, vuVars, eeVars>>

\* s_mtx_RingBufferBusy2 is the GS thread's but where it waits.  It is locked
\* and unlocked at once here, so a look that finds no change is a stutter.
MutexIsFree_OnlyAsleep == gs = "asleep"
MutexIsFree == gs \in {"asleep", "kickwait", "relock"}

WeakLoop ==
    /\ MutexIsFree
    /\ Len(queue) # k.start
    /\ Goto("weakloop", k.resume)
    /\ k' = [k EXCEPT !.start = 0]
    /\ UNCHANGED <<mtvu, bufVars, readAmount, queue, kicks, tags, gsVars, vuVars, eeVars>>

-----------------------------------------------------------------------------
(* Cutting the data into packets *)

\* A gif tag behind the limit is first moved to the front.
CutRealign ==
    /\ Goto("cut", "realign")
    /\ curOffset > BuffLimit
    /\ mtvu \/ Uncut > 0
    /\ k' = [NoKick EXCEPT !.back = "cut"]
    /\ UNCHANGED <<mtvu, bufVars, readAmount, queue, kicks, tags, gsVars, vuVars, eeVars>>

\* ExecuteGSPacketMTVU takes in all there is; its packet ends with the program.
CutAll ==
    /\ mtvu /\ curOffset <= BuffLimit
    /\ Goto("cut", "run")
    /\ curOffset' = curSize
    /\ pack' = [pack EXCEPT !.size = @ + Uncut]
    /\ UNCHANGED <<mtvu, curSize, readAmount, queue, kicks, tags, gsVars, k, vuVars, eeVars>>

\* ExecuteGSPacket: n quadwords of a tag and its data, which may end the packet.
Cut(n, eop) ==
    /\ ~mtvu /\ fill = "cut"
    /\ n <= Uncut /\ curOffset <= BuffLimit
    /\ curOffset' = curOffset + n
    /\ IF eop THEN /\ k' = [NoKick EXCEPT !.out = [offset |-> Offset, size |-> pack.size + n],
                                          !.after = "cut"]
                   /\ pack' = NoPack
                   /\ fill' = "add"
       ELSE pack' = [pack EXCEPT !.size = @ + n] /\ UNCHANGED fillVars
    /\ UNCHANGED <<mtvu, curSize, readAmount, queue, kicks, tags, gsVars, vuVars, eeVars>>

\* The rest of a tag's data is missing; a packet without an end but with all of
\* its tags complete is flushed (FlushToMTGS).
CutStop ==
    /\ ~mtvu
    /\ Goto("cut", "idle")
    /\ UNCHANGED <<mtvu, bufVars, readAmount, queue, kicks, tags, gsVars, k, vuVars, eeVars>>

\* Execute finds data that an earlier one left: the unit was stalled, or another
\* path's turn.
CutAgain ==
    /\ ~mtvu /\ Uncut > 0
    /\ Goto("idle", "cut")
    /\ UNCHANGED <<mtvu, bufVars, readAmount, queue, kicks, tags, gsVars, k, vuVars, eeVars>>

Flush ==
    /\ ~mtvu /\ Uncut = 0 /\ pack.size > 0
    /\ Goto("cut", "add")
    /\ k' = [NoKick EXCEPT !.out = [offset |-> Offset, size |-> pack.size], !.after = "idle"]
    /\ pack' = NoPack
    /\ UNCHANGED <<mtvu, curSize, curOffset, readAmount, queue, kicks, tags, gsVars, vuVars, eeVars>>

\* Gif_AddCompletedGSPacket, Gif_AddBlankGSPacket: counted, then sent.
AddPacket ==
    /\ Goto("add", "send")
    /\ readAmount' = readAmount + k.out.size
    /\ UNCHANGED <<mtvu, bufVars, queue, kicks, tags, gsVars, k, vuVars, eeVars>>

\* GenericStall: with the ring full the GS thread is told, and room waited for.
RingIsFull == Len(tags) = RingSize

SendStall ==
    /\ RingIsFull
    /\ Goto("send", "sendroom")
    /\ event' = TRUE
    /\ UNCHANGED <<mtvu, bufVars, readAmount, queue, kicks, tags, gs, k, vuVars, eeVars>>

\* s_CopyDataTally decides whether the GS thread is told.
SendPacket(told) ==
    /\ fill \in {"send", "sendroom"} /\ fill' = k.after
    /\ ~RingIsFull
    /\ tags' = Append(tags, k.out)
    /\ event' = (event \/ told)
    /\ k' = [k EXCEPT !.out = NoOut, !.after = "none"]
    /\ UNCHANGED <<mtvu, bufVars, readAmount, queue, kicks, gs, vuVars, eeVars>>

-----------------------------------------------------------------------------
(* The VU thread around a program *)

VuWake ==
    /\ vuEvent /\ Goto("asleep", "top")
    /\ vuEvent' = FALSE
    /\ UNCHANGED <<mtvu, bufVars, readAmount, queue, kicks, tags, gsVars, k, jobs, eeVars>>

VuTake ==
    /\ Goto("top", IF jobs = 0 THEN "asleep" ELSE "run")
    /\ jobs' = IF jobs = 0 THEN 0 ELSE jobs - 1
    /\ UNCHANGED <<mtvu, bufVars, readAmount, queue, kicks, tags, gsVars, k, vuEvent, eeVars>>

\* The program is over; FinishGSPacketMTVU counts the packet and the space it
\* skipped, queues it and begins the next; then semaXGkick.Post.
VuFinish ==
    /\ Uncut = 0
    /\ Goto("run", "push")
    /\ readAmount' = readAmount + pack.size + pack.blank
    /\ UNCHANGED <<mtvu, bufVars, queue, kicks, tags, gsVars, k, vuVars, eeVars>>

VuPush ==
    /\ Goto("push", "post")
    /\ queue' = Append(queue, [offset |-> Offset, size |-> pack.size, blank |-> pack.blank])
    /\ pack' = NoPack
    /\ UNCHANGED <<mtvu, curSize, curOffset, readAmount, kicks, tags, gsVars, k, vuVars, eeVars>>

VuPost_ThenSleeps ==
    /\ Goto("post", "asleep")
    /\ kicks' = kicks + 1
    /\ UNCHANGED <<mtvu, bufVars, readAmount, queue, tags, gsVars, k, vuVars, eeVars>>
VuPost ==
    /\ Goto("post", "top")
    /\ kicks' = kicks + 1
    /\ UNCHANGED <<mtvu, bufVars, readAmount, queue, tags, gsVars, k, vuVars, eeVars>>

-----------------------------------------------------------------------------
(* The EE thread with MTVU: ExecuteVU and what resumes it *)

EeGoto(from, to) == ee = from /\ ee' = to

\* The program is in the VU thread's ring, which may pick it up from here on.
ExecuteVU ==
    /\ mtvu /\ EeGoto("idle", "fake")
    /\ Len(tags) + fake < MaxPrograms
    /\ jobs' = jobs + 1
    /\ UNCHANGED <<mtvu, bufVars, readAmount, queue, kicks, tags, gsVars, fillVars, vuEvent, back, fake, stalled, busy>>

\* TransferGSPacketData(GIF_TRANS_MTVU)
AddFake_UnlessStalled ==
    /\ EeGoto("fake", IF stalled THEN "kick" ELSE "execute")
    /\ back' = IF stalled THEN "idle" ELSE "kick"
    /\ fake' = IF stalled THEN fake ELSE fake + 1
    /\ UNCHANGED <<mtvu, bufVars, readAmount, queue, kicks, tags, gsVars, fillVars, vuVars, stalled, busy>>
AddFake ==
    /\ EeGoto("fake", IF stalled THEN "kick" ELSE "execute")
    /\ back' = IF stalled THEN "idle" ELSE "kick"
    /\ fake' = fake + 1
    /\ UNCHANGED <<mtvu, bufVars, readAmount, queue, kicks, tags, gsVars, fillVars, vuVars, stalled, busy>>

\* Execute.  The path that is active goes on first; once that one is at its end,
\* or gives way, every fake packet has its tag sent.
SendTag(told) ==
    /\ ee \in {"execute", "eeroom"} /\ fake > 0 /\ ~RingIsFull
    /\ ee' = "execute"
    /\ tags' = Append(tags, NoOut)
    /\ fake' = fake - 1
    /\ event' = (event \/ told)
    /\ busy' = FALSE
    /\ UNCHANGED <<mtvu, bufVars, readAmount, queue, kicks, gs, fillVars, vuVars, back, stalled>>

TagStall ==
    /\ fake > 0 /\ RingIsFull
    /\ EeGoto("execute", "eeroom")
    /\ event' = TRUE
    /\ busy' = FALSE
    /\ UNCHANGED <<mtvu, bufVars, readAmount, queue, kicks, tags, gs, fillVars, vuVars, back, fake, stalled>>

\* The other paths.  One of them may wait for the GS thread to make room in a
\* buffer of its own (RealignPacket in 362); Execute ends with one in the middle
\* of its packet, with a second SIGNAL queued, or with nothing left.  Where a path
\* was active from the start, the first two leave fake packets unsent.
OtherPaths(waits, middle, signal) ==
    /\ waits => OthersWait
    /\ fake > 0 => busy /\ (waits \/ middle \/ signal)
    /\ EeGoto("execute", IF waits THEN "pathwait" ELSE back)
    /\ event' = (event \/ waits)
    /\ IF waits THEN UNCHANGED <<back, stalled, busy>>
                ELSE back' = "idle" /\ busy' = middle /\ stalled' = signal
    /\ UNCHANGED <<mtvu, bufVars, readAmount, queue, kicks, tags, gs, fillVars, vuVars, fake>>

KickStart ==
    /\ EeGoto("kick", "idle")
    /\ vuEvent' = TRUE
    /\ UNCHANGED <<mtvu, bufVars, readAmount, queue, kicks, tags, gsVars, fillVars, jobs, back, fake, stalled, busy>>

\* Get_MTVUChanges finds a second SIGNAL, or the program sets PSE or DIR.
Stall ==
    /\ mtvu /\ ee = "idle" /\ ~stalled
    /\ stalled' = TRUE
    /\ UNCHANGED <<mtvu, bufVars, readAmount, queue, kicks, tags, gsVars, fillVars, vuVars, ee, back, fake, busy>>

\* The program undoes that.  Only the acknowledged SIGNAL has Execute called.
Resume(executes) ==
    /\ stalled
    /\ EeGoto("idle", IF executes THEN "execute" ELSE "idle")
    /\ stalled' = FALSE
    /\ UNCHANGED <<mtvu, bufVars, readAmount, queue, kicks, tags, gsVars, fillVars, vuVars, back, fake, busy>>

\* A transfer of another path ends with Execute, as does the end of its DMA.
OtherTransfer ==
    /\ mtvu /\ ~stalled
    /\ EeGoto("idle", "execute")
    /\ UNCHANGED <<mtvu, bufVars, readAmount, queue, kicks, tags, gsVars, fillVars, vuVars, back, fake, stalled, busy>>

\* WaitGS, from a save state or a local transfer.
StartWaitGS ==
    /\ mtvu /\ EeGoto("idle", "eewait")
    /\ event' = TRUE
    /\ UNCHANGED <<mtvu, bufVars, readAmount, queue, kicks, tags, gs, fillVars, vuVars, back, fake, stalled, busy>>

EeWaitGS ==
    /\ GsIsEmpty /\ ee \in {"eewait", "pathwait"}
    /\ ee' = IF ee = "eewait" THEN "idle" ELSE "execute"
    /\ UNCHANGED <<mtvu, bufVars, readAmount, queue, kicks, tags, gsVars, fillVars, vuVars, back, fake, stalled, busy>>

\* WaitVU, before VU memory is read.
StartWaitVU ==
    /\ mtvu /\ EeGoto("idle", "waitvu")
    /\ UNCHANGED <<mtvu, bufVars, readAmount, queue, kicks, tags, gsVars, fillVars, vuVars, back, fake, stalled, busy>>

WaitVU ==
    /\ fill = "asleep" /\ ~vuEvent
    /\ EeGoto("waitvu", "idle")
    /\ UNCHANGED <<mtvu, bufVars, readAmount, queue, kicks, tags, gsVars, fillVars, vuVars, back, fake, stalled, busy>>

-----------------------------------------------------------------------------
(* The GS thread *)

GsGoto(from, to) == gs = from /\ gs' = to

GsWake ==
    /\ event /\ GsGoto("asleep", "drain")
    /\ event' = FALSE
    /\ UNCHANGED <<mtvu, bufVars, readAmount, queue, kicks, tags, fillVars, vuVars, eeVars>>

GsDrained ==
    /\ tags = <<>> /\ GsGoto("drain", "asleep")
    /\ UNCHANGED <<mtvu, bufVars, readAmount, queue, kicks, tags, event, fillVars, vuVars, eeVars>>

GsPacket ==
    /\ ~mtvu /\ tags # <<>>
    /\ GsGoto("drain", "read")
    /\ UNCHANGED <<mtvu, bufVars, readAmount, queue, kicks, tags, event, fillVars, vuVars, eeVars>>

\* semaXGkick.TryWait; without a token the mutex is given up for the wait.
GsTryWait ==
    /\ mtvu /\ tags # <<>>
    /\ GsGoto("drain", IF kicks > 0 THEN "read" ELSE "kickwait")
    /\ kicks' = IF kicks > 0 THEN kicks - 1 ELSE 0
    /\ UNCHANGED <<mtvu, bufVars, readAmount, queue, tags, event, fillVars, vuVars, eeVars>>

GsKickWait ==
    /\ kicks > 0 /\ GsGoto("kickwait", "relock")
    /\ kicks' = kicks - 1
    /\ UNCHANGED <<mtvu, bufVars, readAmount, queue, tags, event, fillVars, vuVars, eeVars>>

GsRelock ==
    /\ GsGoto("relock", "read")
    /\ UNCHANGED <<mtvu, bufVars, readAmount, queue, kicks, tags, event, fillVars, vuVars, eeVars>>

\* GSgifTransfer has read the packet in place; what it took is given back.
GsSubtract_DataOnly ==
    /\ GsGoto("read", IF mtvu THEN "pop" ELSE "advance")
    /\ readAmount' = readAmount - (IF mtvu THEN Head(queue).size ELSE Head(tags).size)
    /\ UNCHANGED <<mtvu, bufVars, queue, kicks, tags, event, fillVars, vuVars, eeVars>>
GsSubtract ==
    /\ GsGoto("read", IF mtvu THEN "pop" ELSE "advance")
    /\ readAmount' = readAmount - (IF mtvu THEN Head(queue).size + Head(queue).blank
                                   ELSE Head(tags).size)
    /\ UNCHANGED <<mtvu, bufVars, queue, kicks, tags, event, fillVars, vuVars, eeVars>>

GsPop ==
    /\ GsGoto("pop", "advance")
    /\ queue' = Tail(queue)
    /\ UNCHANGED <<mtvu, bufVars, readAmount, kicks, tags, event, fillVars, vuVars, eeVars>>

\* s_ReadPos moves on.
GsAdvance ==
    /\ GsGoto("advance", "drain")
    /\ tags' = Tail(tags)
    /\ UNCHANGED <<mtvu, bufVars, readAmount, queue, kicks, event, fillVars, vuVars, eeVars>>

-----------------------------------------------------------------------------
\* A transfer once begun, and the VU thread at all times.
FillStep ==
    \/ Realign \/ Move \/ Space \/ Copy \/ WaitEvent \/ WaitEmpty \/ WeakWait \/ WeakLoop
    \/ CutRealign \/ CutAll \/ CutStop \/ Flush \/ AddPacket \/ SendStall
    \/ \E n \in 1 .. MaxPacket, eop \in BOOLEAN : Cut(n, eop)
    \/ \E told \in BOOLEAN : SendPacket(told)
    \/ VuWake \/ VuTake \/ VuFinish \/ VuPush \/ VuPost
    \/ fill = "run" /\ \E n \in 1 .. MaxKick, whole \in BOOLEAN : Transfer(n, whole)

EeStep ==
    \/ AddFake \/ TagStall \/ KickStart \/ EeWaitGS \/ WaitVU
    \/ \E told \in BOOLEAN : SendTag(told)
    \/ \E waits, middle, signal \in BOOLEAN : OtherPaths(waits, middle, signal)

\* What the EE thread may begin.
EeChoice ==
    \/ ExecuteVU \/ Stall \/ OtherTransfer \/ StartWaitGS \/ StartWaitVU
    \/ \E executes \in BOOLEAN : Resume(executes)
    \/ CutAgain
    \/ fill = "idle" /\ \E n \in 1 .. MaxKick : Transfer(n, TRUE)

GsStep ==
    \/ GsWake \/ GsDrained \/ GsPacket \/ GsTryWait \/ GsKickWait \/ GsRelock
    \/ GsSubtract \/ GsPop \/ GsAdvance

Next == FillStep \/ EeStep \/ EeChoice \/ GsStep

Spec == Init /\ [][Next]_vars

\* The threads are scheduled; nothing obliges the EE thread to begin anything.
FairSpec == Spec /\ WF_vars(FillStep) /\ WF_vars(EeStep) /\ WF_vars(GsStep)

-----------------------------------------------------------------------------
(* Properties *)

Region(p) == p.offset .. p.offset + p.size - 1

\* The packets that are sent or queued and not given back by the GS thread.
Unread ==
    IF mtvu THEN SubSeq(queue, IF gs = "pop" THEN 2 ELSE 1, Len(queue))
    ELSE SubSeq(tags, IF gs = "advance" THEN 2 ELSE 1, Len(tags))
           \o (IF fill \in {"add", "send", "sendroom"} THEN <<k.out>> ELSE <<>>)

\* What each of them adds to readAmount, and what they add up to.
Amounts == [i \in 1 .. Len(Unread) |-> Unread[i].size + (IF mtvu THEN Unread[i].blank ELSE 0)]
PartialSums(s) == LET sum[i \in 0 .. Len(s)] == IF i = 0 THEN 0 ELSE sum[i - 1] + s[i] IN sum
Total(s) == PartialSums(s)[Len(s)]

UnreadCells == UNION {Region(p) : p \in {q \in Range(Unread) : q.offset # Blank}}

\* What the filling thread is about to write.
Written ==
    CASE fill = "copy" -> curSize .. curSize + k.n - 1
      [] fill = "move" -> 0 .. ToMove - 1
      [] OTHER -> {}

\* Nothing the GS thread has yet to read, or is reading, is overwritten, and no
\* write leaves the buffer ("Gif Path Buffer Overflow!", 331): CopyGSPacketData
\* and RealignPacket know of the reader by readAmount alone.
UnreadIsKept == Written \cap UnreadCells = {} /\ Written \subseteq 0 .. BuffSize - 1

\* readAmount is what the packets under way add up to, the spaces skipped at the
\* limit included: were it to drift, the buffer would be overwritten or full for
\* good (gifPathFreeze asserts that it comes back to 0, Gif_Unit.cpp:193).
AmountMatches ==
    readAmount =
        Total(Amounts)
        + (IF mtvu /\ fill = "push" THEN pack.size + pack.blank ELSE 0)
        - (IF ~mtvu /\ fill = "add" THEN k.out.size ELSE 0)

\* A token of semaXGkick stands for a packet in the queue, so the GS thread
\* never finds it empty ("Expected gsPackQueue to have elements!", 509), and
\* every tag in the ring has a program that runs, waits to run, or has run: tags
\* and programs are paired one to one, in order.
TagsMatchPrograms ==
    mtvu =>
        /\ Len(queue) = kicks + (IF fill = "post" THEN 1 ELSE 0)
                              + (IF gs \in {"relock", "read", "pop"} THEN 1 ELSE 0)
        /\ Len(tags) + fake + (IF ee = "fake" THEN 1 ELSE 0)
             = jobs + Len(queue) + (IF gs = "advance" THEN 1 ELSE 0)
               + (IF fill \in {"asleep", "top", "post"} THEN 0 ELSE 1)

\* The EE thread has come back from Execute without sending every tag.
TagsAreKeptBack == fake > 0 /\ ee \notin {"fake", "execute", "eeroom", "pathwait"}

\* Every transfer, with its waits for the GS thread, comes to an end, the weak
\* wait of the VU thread as well ("allowed to exit after MTGS finished a path1
\* packet", MTGS.cpp:611), as long as no tag is kept back: by a second SIGNAL, PSE
\* or DIR, or by a path in the middle of its packet.
TransfersEnd ==
    []~TagsAreKeptBack => []<>(fill \in {"idle", "asleep", "top", "run"})

\* "Used in MTVU mode... MTVU will later complete a real packet" (MTGS.cpp:1051):
\* the GS thread does not wait for a program for good.
KicksArrive == []<>(gs # "kickwait")
====
