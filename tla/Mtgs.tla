---- MODULE Mtgs ----
(***************************************************************************)
(* The GS thread and the emulation (EE) thread that feeds it (MTGS.cpp).   *)
(*                                                                         *)
(* The EE thread builds packets in a ring of quadwords and publishes them  *)
(* by moving s_WritePos; the GS thread executes them and moves s_ReadPos.  *)
(* Around the ring: a signal for an EE thread that found the ring full     *)
(* (GenericStall), a throttle on queued frames (PostVsyncStart), a wait    *)
(* for an empty ring (WaitGS), and the handshake that opens and closes the *)
(* renderer.  s_sem_event is the coalescing signal of WorkSignal.tla, and  *)
(* every other access to shared memory is an action of its own.            *)
(*                                                                         *)
(* Packets: "gs" stands for SendSimpleGSPacket, "async" for RunOnGSThread, *)
(* "fifo" for the pointer packets that are followed by WaitGS, "vsync" for *)
(* PostVsyncStart, "reset" for ResetGS(true).                              *)
(*                                                                         *)
(* A definition named X_Y is X with a slip Y in it; no action uses it.     *)
(***************************************************************************)
EXTENDS Integers, Sequences, FiniteSets

CONSTANTS
    RingBufferSize,   \* quadwords in the ring, 1 << 19 in the code
    VsyncSize,        \* data quadwords of a vsync packet, 17 in the code
    SpinLimit,        \* 0x80: below it GenericStall spins
    TallyLimit,       \* 0x2000: quadwords sent before the GS thread is kicked
    VsyncQueueSize,   \* EmuConfig.GS.VsyncQueueSize
    Cmds,             \* the packets the EE thread sends in this instance
    ResetWaits        \* whether every ResetGS(true) is preceded by WaitGS

ASSUME RingAssumption ==
    /\ RingBufferSize \in Nat /\ VsyncSize \in Nat
    /\ VsyncSize > 0 /\ VsyncSize + 1 < RingBufferSize
ASSUME LimitAssumption ==
    SpinLimit \in Nat /\ TallyLimit \in Nat /\ VsyncQueueSize \in Nat
ASSUME CmdsAssumption ==
    Cmds \subseteq {"gs", "async", "fifo", "vsync", "reset"} /\ ResetWaits \in BOOLEAN

VARIABLES
    ring,      \* m_Ring: a command in a tag quadword, "data" behind it, and
               \* "free" where a packet was executed or dropped
    readPos,   \* s_ReadPos
    writePos,  \* s_WritePos
    sent,      \* history: packets published and not yet retired, oldest first
    pending, worker, waiter,   \* s_sem_event, as WorkSignal shows it
    sig,       \* s_SignalRingEnable, s_SignalRingPosition, s_sem_OnRingReset
    vs,        \* s_QueuedFrameCount, s_VsyncSignalListener, s_sem_Vsync
    gate,      \* s_open_flag, s_shutdown_flag, s_open_or_close_done, s_thread
    gsOpen,    \* GSopen succeeded and GSclose was not called since
    ee, cmd, tally,   \* the EE thread: where it is, its packet, s_CopyDataTally
    gs, cur           \* the GS thread: where it is, the packet it executes

ringVars == <<ring, readPos, writePos, sent>>
semVars == <<pending, worker, waiter>>
eeVars == <<ee, cmd, tally>>
gsVars == <<gs, cur>>
vars == <<ringVars, semVars, sig, vs, gate, gsOpen, eeVars, gsVars>>

Event == INSTANCE WorkSignal

Positions == 0 .. RingBufferSize - 1
AllCmds == {"gs", "async", "fifo", "vsync", "reset"}

\* Tag and data of a packet, in quadwords.
Size(c) == IF c = "vsync" THEN VsyncSize + 1 ELSE 1

\* "& RingBufferMask"
Wrap(p) == p % RingBufferSize

\* The quadwords of a packet of command c at position p.
Slots(p, c) == {Wrap(p + k) : k \in 0 .. Size(c) - 1}

Freed(S) == [p \in Positions |-> IF p \in S THEN "free" ELSE ring[p]]

Init ==
    /\ ring = [p \in Positions |-> "free"]
    /\ readPos = 0
    /\ writePos = 0
    /\ sent = <<>>
    /\ Event!Init
    /\ sig = [enable |-> FALSE, pos |-> 0, posts |-> 0]
    /\ vs = [queued |-> 0, listener |-> FALSE, posts |-> 0]
    /\ gate = [open |-> FALSE, shutdown |-> FALSE, done |-> 0, thread |-> FALSE]
    /\ gsOpen = FALSE
    /\ ee = "idle" /\ cmd = "none" /\ tally = 0
    /\ gs = "none" /\ cur = "none"

-----------------------------------------------------------------------------
(* The EE thread sends a packet *)

\* The packet in hand is a local of the send: it is forgotten with it.
Held(to) == IF to \in {"idle", "synced"} THEN "none" ELSE cmd

EeGoto(from, to) ==
    /\ ee = from
    /\ ee' = to
    /\ cmd' = Held(to)
    /\ UNCHANGED tally

\* SetEvent, then on to the given place.
EeSetEvent(from, to) ==
    /\ ee = from
    /\ Event!Notify
    /\ ee' = to
    /\ cmd' = Held(to)
    /\ tally' = 0
    /\ UNCHANGED <<ringVars, sig, vs, gate, gsOpen, gsVars>>

\* A command other than ResetGS(true) starts by asking for room.
StartSend(c) ==
    /\ ee = "idle"
    /\ gate.open
    /\ c \in Cmds \ {"reset"}
    /\ ee' = "stall"
    /\ cmd' = c
    /\ UNCHANGED <<ringVars, semVars, sig, vs, gate, gsOpen, tally, gsVars>>

FreeRoom ==
    IF writePos < readPos THEN readPos - writePos
    ELSE RingBufferSize - (writePos - readPos)

HasRoom_ExactFit(c) == FreeRoom >= Size(c)
HasRoom(c) == FreeRoom > Size(c)

SomeDone(c) ==
    IF (RingBufferSize - FreeRoom) \div 4 < Size(c) + 1
    THEN Size(c) + 1 ELSE (RingBufferSize - FreeRoom) \div 4

\* GenericStall's first look at s_ReadPos.
Stall ==
    /\ EeGoto("stall", IF HasRoom(cmd) THEN "write"
                       ELSE IF SomeDone(cmd) > SpinLimit THEN "sigon" ELSE "spinevent")
    /\ sig' = IF ~HasRoom(cmd) /\ SomeDone(cmd) > SpinLimit
              THEN [sig EXCEPT !.pos = SomeDone(cmd)] ELSE sig
    /\ UNCHANGED <<ringVars, semVars, vs, gate, gsOpen, gsVars>>

SignalOn ==
    /\ EeGoto("sigon", "sigevent")
    /\ sig' = [sig EXCEPT !.enable = TRUE]
    /\ UNCHANGED <<ringVars, semVars, vs, gate, gsOpen, gsVars>>

SignalEvent == EeSetEvent("sigevent", "sigwait")

RingSemWait ==
    /\ sig.posts > 0
    /\ EeGoto("sigwait", "sigread")
    /\ sig' = [sig EXCEPT !.posts = @ - 1]
    /\ UNCHANGED <<ringVars, semVars, vs, gate, gsOpen, gsVars>>

\* Out of the stall the position is dead until the next stall stores it.
SignalReread ==
    /\ EeGoto("sigread", IF HasRoom(cmd) THEN "write" ELSE "sigon")
    /\ sig' = IF HasRoom(cmd) THEN [sig EXCEPT !.pos = 0] ELSE sig
    /\ UNCHANGED <<ringVars, semVars, vs, gate, gsOpen, gsVars>>

SpinEvent == EeSetEvent("spinevent", "spin")

SpinReread ==
    /\ HasRoom(cmd)
    /\ EeGoto("spin", "write")
    /\ UNCHANGED <<ringVars, semVars, sig, vs, gate, gsOpen, gsVars>>

\* The tag and the data go into the ring at s_WritePos.
WritePacket ==
    /\ EeGoto("write", "publish")
    /\ ring' = [p \in Positions |-> IF p = writePos THEN cmd
                                    ELSE IF p \in Slots(writePos, cmd) THEN "data"
                                    ELSE ring[p]]
    /\ UNCHANGED <<readPos, writePos, sent, semVars, sig, vs, gate, gsOpen, gsVars>>

\* What s_CopyDataTally becomes, and whether the GS thread is kicked now: a
\* "gs" packet counts its tag and the data it points to (one quadword here).
TallyAfter(c) == tally + (CASE c = "gs" -> 2 [] c = "vsync" -> VsyncSize [] OTHER -> 1)
KicksNow(c) ==
    \/ c \in {"async", "reset", "vsync"}
    \/ c = "gs" /\ TallyAfter(c) > TallyLimit

\* s_WritePos.store; a "fifo" packet goes on to WaitGS.
Publish ==
    /\ ee = "publish"
    /\ writePos' = Wrap(writePos + Size(cmd))
    /\ sent' = Append(sent, [cmd |-> cmd, start |-> writePos])
    /\ tally' = IF TallyAfter(cmd) > TallyLimit THEN TallyLimit + 1 ELSE TallyAfter(cmd)
    /\ ee' = IF cmd = "fifo" THEN "waitevent" ELSE IF KicksNow(cmd) THEN "event" ELSE "idle"
    /\ cmd' = Held(ee')
    /\ UNCHANGED <<ring, readPos, semVars, sig, vs, gate, gsOpen, gsVars>>

SendEvent == EeSetEvent("event", IF cmd = "vsync" THEN "vscount" ELSE "idle")

-----------------------------------------------------------------------------
(* PostVsyncStart after the packet is sent: the frame queue throttle *)

VsyncCount_Unthrottled ==
    /\ EeGoto("vscount", IF vs.queued < VsyncQueueSize THEN "idle" ELSE "vslisten")
    /\ vs' = IF vs.queued < VsyncQueueSize THEN [vs EXCEPT !.queued = @ + 1] ELSE vs
    /\ UNCHANGED <<ringVars, semVars, sig, gate, gsOpen, gsVars>>
VsyncCount ==
    /\ EeGoto("vscount", IF vs.queued < VsyncQueueSize THEN "idle" ELSE "vslisten")
    /\ vs' = [vs EXCEPT !.queued = @ + 1]
    /\ UNCHANGED <<ringVars, semVars, sig, gate, gsOpen, gsVars>>

VsyncListen ==
    /\ EeGoto("vslisten", "vswait")
    /\ vs' = [vs EXCEPT !.listener = TRUE]
    /\ UNCHANGED <<ringVars, semVars, sig, gate, gsOpen, gsVars>>

VsyncSemWait ==
    /\ vs.posts > 0
    /\ EeGoto("vswait", "idle")
    /\ vs' = [vs EXCEPT !.posts = @ - 1]
    /\ UNCHANGED <<ringVars, semVars, sig, gate, gsOpen, gsVars>>

-----------------------------------------------------------------------------
(* WaitGS, ResetGS *)

StartWaitGS ==
    /\ gate.open
    /\ EeGoto("idle", "waitevent")
    /\ UNCHANGED <<ringVars, semVars, sig, vs, gate, gsOpen, gsVars>>

WaitGSEvent_NoEvent ==
    EeGoto("waitevent", "wait")
    /\ UNCHANGED <<ringVars, semVars, sig, vs, gate, gsOpen, gsVars>>
WaitGSEvent == EeSetEvent("waitevent", "wait")

\* WaitForEmpty finds the worker asleep, or dead (pxFailRel), or has to wait.
WaitGSNow ==
    /\ worker # "running" /\ ~pending
    /\ EeGoto("wait", IF worker = "dead" THEN "died" ELSE "synced")
    /\ UNCHANGED <<ringVars, semVars, sig, vs, gate, gsOpen, gsVars>>

WaitGSBlock ==
    /\ EeGoto("wait", "waiting")
    /\ Event!StartWaitEmpty
    /\ UNCHANGED <<ringVars, sig, vs, gate, gsOpen, gsVars>>

WaitGSWoken ==
    /\ EeGoto("waiting", IF worker = "dead" THEN "died" ELSE "synced")
    /\ Event!ReturnEmpty
    /\ UNCHANGED <<ringVars, sig, vs, gate, gsOpen, gsVars>>

WaitGSReturn ==
    /\ EeGoto("synced", "idle")
    /\ UNCHANGED <<ringVars, semVars, sig, vs, gate, gsOpen, gsVars>>

\* ResetGS(true): VMManager.cpp:1717 waits for the GS thread first, and
\* VMManager::Reset reaches it (hwReset, line 1801) with packets sent after
\* its WaitGS, among them those of HandleELFChange.
ResetRing ==
    /\ "reset" \in Cmds
    /\ gate.open
    /\ ee = "synced" \/ (ee = "idle" /\ ~ResetWaits)
    /\ readPos' = writePos
    /\ ring' = Freed(Positions)
    /\ sent' = <<>>
    /\ ee' = "resetvs"
    /\ cmd' = "reset"
    /\ UNCHANGED <<writePos, semVars, sig, vs, gate, gsOpen, tally, gsVars>>

ResetVsync ==
    /\ EeGoto("resetvs", "stall")
    /\ vs' = [vs EXCEPT !.queued = 0, !.listener = FALSE]
    /\ UNCHANGED <<ringVars, semVars, sig, gate, gsOpen, gsVars>>

-----------------------------------------------------------------------------
(* WaitForOpen, WaitForClose, ShutdownThread *)

StartThread ==
    /\ ~gate.open /\ ~gate.thread
    /\ EeGoto("idle", "open")
    /\ IF worker = "dead" THEN Event!Reset ELSE UNCHANGED semVars
    /\ gate' = [gate EXCEPT !.thread = TRUE, !.shutdown = FALSE]
    /\ gs' = "entry"
    /\ UNCHANGED <<ringVars, sig, vs, gsOpen, cur>>

AskOpen ==
    /\ ee = "open" \/ (ee = "idle" /\ ~gate.open /\ gate.thread)
    /\ gate' = [gate EXCEPT !.open = TRUE]
    /\ ee' = "opennotify"
    /\ UNCHANGED <<ringVars, semVars, sig, vs, gsOpen, cmd, tally, gsVars>>

\* The VM is shut down after WaitGS; the CPU thread's exit closes without it,
\* when there has been no VM since and so no vsync packet is in the ring.
AskClose ==
    /\ gate.open
    /\ \/ ee \in {"synced", "shutclose"}
       \/ ee = "idle" /\ \A i \in DOMAIN sent : sent[i].cmd # "vsync"
    /\ gate' = [gate EXCEPT !.open = FALSE]
    /\ ee' = "closenotify"
    /\ UNCHANGED <<ringVars, semVars, sig, vs, gsOpen, cmd, tally, gsVars>>

Shutdown ==
    /\ gate.thread
    /\ \A i \in DOMAIN sent : sent[i].cmd # "vsync"
    /\ EeGoto("idle", IF gate.open THEN "shutclose" ELSE "shutnotify")
    /\ gate' = [gate EXCEPT !.shutdown = TRUE]
    /\ UNCHANGED <<ringVars, semVars, sig, vs, gsOpen, gsVars>>

\* NotifyOfWork after the flags are set.
NotifyFlags ==
    /\ \/ EeGoto("opennotify", "openwait")
       \/ EeGoto("closenotify", "closewait")
       \/ EeGoto("shutnotify", "join")
    /\ Event!Notify
    /\ UNCHANGED <<ringVars, sig, vs, gate, gsOpen, gsVars>>

DoneWait ==
    /\ gate.done > 0
    /\ \/ EeGoto("openwait", "idle")
       \/ EeGoto("closewait", IF gate.shutdown THEN "shutnotify" ELSE "idle")
    /\ gate' = [gate EXCEPT !.done = @ - 1]
    /\ UNCHANGED <<ringVars, semVars, sig, vs, gsOpen, gsVars>>

Join ==
    /\ gs = "exited"
    /\ EeGoto("join", "idle")
    /\ gs' = "none"
    /\ gate' = [gate EXCEPT !.thread = FALSE]
    /\ UNCHANGED <<ringVars, semVars, sig, vs, gsOpen, cur>>

-----------------------------------------------------------------------------
(* The GS thread: ThreadEntryPoint *)

\* The packet in hand is a local of the drain loop's body.
GsGoto(from, to) ==
    /\ gs = from
    /\ gs' = to
    /\ cur' = IF to = "drain" THEN "none" ELSE cur

GsEntry ==
    /\ GsGoto("entry", IF gate.open THEN "opening" ELSE "entryshut")
    /\ UNCHANGED <<ringVars, semVars, sig, vs, gate, gsOpen, eeVars>>

GsEntryShutdown ==
    /\ IF gate.shutdown THEN GsGoto("entryshut", "exited") /\ Event!Kill
       ELSE GsGoto("entryshut", "entrywait") /\ UNCHANGED semVars
    /\ UNCHANGED <<ringVars, sig, vs, gate, gsOpen, eeVars>>

\* WaitForWork falls asleep, wakes up, and takes the work, from two places.
GsWaitForWork ==
    /\ gs \in {"entrywait", "main"}
    /\ \/ Event!StartWait /\ UNCHANGED gsVars
       \/ Event!Wake /\ UNCHANGED gsVars
       \/ Event!Take /\ (GsGoto("entrywait", "entry") \/ GsGoto("main", "checkopen"))
    /\ UNCHANGED <<ringVars, sig, vs, gate, gsOpen, eeVars>>

GsOpen_KeepsFlag(opened) ==
    /\ GsGoto("opening", "openpost")
    /\ gsOpen' = opened
    /\ UNCHANGED <<ringVars, semVars, sig, vs, gate, eeVars>>
GsOpen(opened) ==
    /\ GsGoto("opening", "openpost")
    /\ gsOpen' = opened
    /\ gate' = [gate EXCEPT !.open = opened]
    /\ UNCHANGED <<ringVars, semVars, sig, vs, eeVars>>

GsOpenPost ==
    /\ GsGoto("openpost", IF gsOpen THEN "main" ELSE "entry")
    /\ gate' = [gate EXCEPT !.done = @ + 1]
    /\ UNCHANGED <<ringVars, semVars, sig, vs, gsOpen, eeVars>>

GsClose ==
    /\ GsGoto("closing", "closepost")
    /\ gsOpen' = FALSE
    /\ UNCHANGED <<ringVars, semVars, sig, vs, gate, eeVars>>

GsClosePost ==
    /\ GsGoto("closepost", "reset")
    /\ gate' = [gate EXCEPT !.done = @ + 1]
    /\ UNCHANGED <<ringVars, semVars, sig, vs, gsOpen, eeVars>>

GsReset ==
    /\ GsGoto("reset", "entry")
    /\ Event!Reset
    /\ UNCHANGED <<ringVars, sig, vs, gate, gsOpen, eeVars>>

-----------------------------------------------------------------------------
(* The GS thread: MainLoop *)

\* s_run_idle_flag while no VM runs: look for work without waiting for it.
GsCheckForWork ==
    /\ GsGoto("main", "checkopen")
    /\ worker = "running" /\ (Event!PollEmpty \/ Event!Take)
    /\ UNCHANGED <<ringVars, sig, vs, gate, gsOpen, eeVars>>

GsCheckOpen ==
    /\ GsGoto("checkopen", IF gate.open THEN "drain" ELSE "exit")
    /\ UNCHANGED <<ringVars, semVars, sig, vs, gate, gsOpen, eeVars>>

\* Reads the tag at s_ReadPos; "lost" if there is none.
GsReadTag ==
    /\ gs = "drain"
    /\ readPos # writePos
    /\ IF ring[readPos] \in AllCmds
       THEN gs' = "process" /\ cur' = ring[readPos]
       ELSE gs' = "lost" /\ UNCHANGED cur
    /\ UNCHANGED <<ringVars, semVars, sig, vs, gate, gsOpen, eeVars>>

\* The packet is executed; a vsync packet then reports the frame done.
GsProcess ==
    /\ GsGoto("process", IF cur = "vsync" THEN "vssub" ELSE "advance")
    /\ UNCHANGED <<ringVars, semVars, sig, vs, gate, gsOpen, eeVars>>

GsVsyncSub ==
    /\ GsGoto("vssub", "vslisten")
    /\ vs' = [vs EXCEPT !.queued = @ - 1]
    /\ UNCHANGED <<ringVars, semVars, sig, gate, gsOpen, eeVars>>

\* s_VsyncSignalListener.exchange(false), in the vsync packet and in the
\* safety valve behind the drain loop.
GsVsyncListener_NotCleared ==
    /\ \/ GsGoto("vslisten", IF vs.listener THEN "vspost" ELSE "advance")
       \/ GsGoto("valvevs", IF vs.listener THEN "valvevspost" ELSE "main")
    /\ UNCHANGED <<ringVars, semVars, sig, vs, gate, gsOpen, eeVars>>
GsVsyncListener ==
    /\ \/ GsGoto("vslisten", IF vs.listener THEN "vspost" ELSE "advance")
       \/ GsGoto("valvevs", IF vs.listener THEN "valvevspost" ELSE "main")
    /\ vs' = [vs EXCEPT !.listener = FALSE]
    /\ UNCHANGED <<ringVars, semVars, sig, gate, gsOpen, eeVars>>

GsVsyncPost ==
    /\ GsGoto("vspost", "advance") \/ GsGoto("valvevspost", "main")
    /\ vs' = [vs EXCEPT !.posts = @ + 1]
    /\ UNCHANGED <<ringVars, semVars, sig, gate, gsOpen, eeVars>>

\* s_ReadPos.store(s_ReadPos + ringposinc)
GsAdvance ==
    /\ GsGoto("advance", "signal")
    /\ readPos' = Wrap(readPos + Size(cur))
    /\ ring' = Freed(Slots(readPos, cur))
    /\ sent' = SubSeq(sent, 2, Len(sent))
    /\ UNCHANGED <<writePos, semVars, sig, vs, gate, gsOpen, eeVars>>

GsSignal ==
    /\ GsGoto("signal", IF sig.enable THEN "signalcount" ELSE "drain")
    /\ UNCHANGED <<ringVars, semVars, sig, vs, gate, gsOpen, eeVars>>

GsSignalCount ==
    /\ GsGoto("signalcount", IF sig.pos <= 0 THEN "signaloff" ELSE "drain")
    /\ sig' = [sig EXCEPT !.pos = @ - Size(cur)]
    /\ UNCHANGED <<ringVars, semVars, vs, gate, gsOpen, eeVars>>

GsSignalOff ==
    /\ GsGoto("signaloff", "signalpost")
    /\ sig' = [sig EXCEPT !.enable = FALSE]
    /\ UNCHANGED <<ringVars, semVars, vs, gate, gsOpen, eeVars>>

GsSignalPost ==
    /\ GsGoto("signalpost", "drain") \/ GsGoto("valvepost", "valvevs")
    /\ sig' = [sig EXCEPT !.posts = @ + 1]
    /\ UNCHANGED <<ringVars, semVars, vs, gate, gsOpen, eeVars>>

GsDrained ==
    /\ readPos = writePos
    /\ GsGoto("drain", "valve")
    /\ UNCHANGED <<ringVars, semVars, sig, vs, gate, gsOpen, eeVars>>

\* The safety valve: s_SignalRingEnable.exchange(false) behind the drain loop.
GsValve_Absent ==
    /\ GsGoto("valve", "valvevs")
    /\ UNCHANGED <<ringVars, semVars, sig, vs, gate, gsOpen, eeVars>>
GsValve ==
    /\ GsGoto("valve", IF sig.enable THEN "valvepos" ELSE "valvevs")
    /\ sig' = [sig EXCEPT !.enable = FALSE]
    /\ UNCHANGED <<ringVars, semVars, vs, gate, gsOpen, eeVars>>

GsValvePos ==
    /\ GsGoto("valvepos", "valvepost")
    /\ sig' = [sig EXCEPT !.pos = 0]
    /\ UNCHANGED <<ringVars, semVars, vs, gate, gsOpen, eeVars>>

\* The ring is dropped and the semaphore killed on the way out.
GsExit ==
    /\ GsGoto("exit", "kill")
    /\ readPos' = writePos
    /\ ring' = Freed(Positions)
    /\ sent' = <<>>
    /\ UNCHANGED <<writePos, semVars, sig, vs, gate, gsOpen, eeVars>>

GsKill ==
    /\ GsGoto("kill", "closing")
    /\ Event!Kill
    /\ UNCHANGED <<ringVars, sig, vs, gate, gsOpen, eeVars>>

-----------------------------------------------------------------------------
(* What the EE thread does on its own once it has begun something, and what *)
(* it may choose to begin.                                                  *)
EeStep ==
    \/ Stall \/ SignalOn \/ SignalEvent \/ RingSemWait \/ SignalReread
    \/ SpinEvent \/ SpinReread \/ WritePacket \/ Publish \/ SendEvent
    \/ VsyncCount \/ VsyncListen \/ VsyncSemWait
    \/ WaitGSEvent \/ WaitGSNow \/ WaitGSBlock \/ WaitGSWoken \/ WaitGSReturn
    \/ ResetVsync \/ NotifyFlags \/ DoneWait \/ Join
    \/ (ee \in {"open", "shutclose"} /\ (AskOpen \/ AskClose))

EeChoice ==
    \/ \E c \in Cmds : StartSend(c)
    \/ StartWaitGS \/ ResetRing \/ StartThread \/ Shutdown
    \/ (ee \in {"idle", "synced"} /\ (AskOpen \/ AskClose))

GsStep ==
    \/ GsEntry \/ GsEntryShutdown \/ GsWaitForWork
    \/ \E opened \in BOOLEAN : GsOpen(opened)
    \/ GsOpenPost \/ GsClose \/ GsClosePost \/ GsReset
    \/ GsCheckForWork \/ GsCheckOpen \/ GsReadTag \/ GsProcess
    \/ GsVsyncSub \/ GsVsyncListener \/ GsVsyncPost \/ GsAdvance
    \/ GsSignal \/ GsSignalCount \/ GsSignalOff \/ GsSignalPost
    \/ GsDrained \/ GsValve \/ GsValvePos \/ GsExit \/ GsKill

Next == EeStep \/ EeChoice \/ GsStep

Spec == Init /\ [][Next]_vars

\* Both threads are scheduled; nothing obliges the EE thread to begin anything.
FairSpec == Spec /\ WF_vars(EeStep) /\ WF_vars(GsStep)

-----------------------------------------------------------------------------
(* Properties *)

\* Between s_ReadPos and s_WritePos lie exactly the packets that were sent and
\* not executed, in order, each whole: nothing is lost, executed twice or
\* overwritten, and the GS thread never reads a quadword that is not a tag.  The
\* packet being executed is the oldest, so the EE thread does not write into it
\* while the GS thread reads it (GenericStall:705-792 against MainLoop:347-570).
RingIsTheQueue ==
    /\ gs # "lost"
    /\ readPos = (IF sent = <<>> THEN writePos ELSE sent[1].start)
    /\ \A i \in DOMAIN sent :
        LET p == sent[i] IN
        /\ Wrap(p.start + Size(p.cmd))
             = (IF i = Len(sent) THEN writePos ELSE sent[i + 1].start)
        /\ ring[p.start] = p.cmd
        /\ \A k \in Slots(p.start, p.cmd) \ {p.start} : ring[k] = "data"
    /\ gs \in {"process", "vssub", "vslisten", "vspost", "advance"}
        => sent # <<>> /\ sent[1].cmd = cur

\* s_QueuedFrameCount counts the vsync packets in the ring, give or take the
\* one being sent and the one being finished: it neither drifts up, which
\* would stall the EE thread early forever, nor down (PostVsyncStart:274,
\* MainLoop:505, ResetGS:211).
QueuedFramesMatchRing ==
    vs.queued
        + (IF ee \in {"event", "vscount"} /\ cmd = "vsync" THEN 1 ELSE 0)
        + (IF gs \in {"vslisten", "vspost", "advance"} /\ cur = "vsync" THEN 1 ELSE 0)
        = Cardinality({i \in DOMAIN sent : sent[i].cmd = "vsync"})

\* An EE thread asleep on s_sem_OnRingReset or s_sem_Vsync is owed one Post and
\* no other Post is ever made, so no later stall is cut short by an old one; no
\* signal is armed before a stall, and the count has run out after it ("MTGS
\* Thread Synchronization Error", the assertions of GenericStall at 749 and 771).
OnePostPerStall ==
    /\ (IF sig.enable /\ gs # "signaloff" THEN 1 ELSE 0)
         + (IF gs \in {"signaloff", "signalpost", "valvepos", "valvepost"} THEN 1 ELSE 0)
         + sig.posts
         = (IF ee \in {"sigevent", "sigwait"} THEN 1 ELSE 0)
    /\ (IF vs.listener THEN 1 ELSE 0)
         + (IF gs \in {"vspost", "valvevspost"} THEN 1 ELSE 0) + vs.posts
         = (IF ee = "vswait" THEN 1 ELSE 0)
    /\ ee \in {"stall", "write"} => ~sig.enable
    /\ ee = "sigread" => sig.pos <= 0

\* When WaitGS returns every packet sent before it has been executed and the GS
\* thread is between packets; it never reports a dead GS thread (613-650).
WaitGSMeansDone ==
    /\ ee # "died"
    /\ ee = "synced" => /\ sent = <<>>
                        /\ gs \notin {"process", "vssub", "vslisten", "vspost", "advance"}

\* Whenever WaitForOpen or WaitForClose has returned, the EE thread's view of
\* the renderer is right and no completion is left over for the next call; the
\* renderer is opened only when closed and closed only when open, and never
\* closed with s_open_flag set (the assertion at 192).
OpenHandshake ==
    /\ ee = "idle" => gate.done = 0 /\ (gate.open <=> gsOpen)
    /\ gs = "opening" => ~gsOpen
    /\ gs = "closing" => gsOpen /\ ~gate.open

\* The EE thread comes back from everything it begins: ring stalls, WaitGS,
\* opening, closing and joining the thread (GenericStall:752-791, WaitGS:648,
\* WaitForOpen:887, WaitForClose:910).  The one place it may stay is the throttle
\* on queued frames, which VsyncWaitEnds is about.
EeReturns == ee # "idle" ~> ee \in {"idle", "vswait"}

\* "this ensures the EEcore won't sleep the eternity" (MTGS.cpp:587-588): the EE
\* thread that throttles itself on queued frames is woken again.
VsyncWaitEnds == ee = "vswait" ~> ee # "vswait"
====
