---- MODULE MtvuRing ----
(***************************************************************************)
(* The VU1 thread and the ring that feeds it (MTVU.cpp).                   *)
(*                                                                         *)
(* The EE thread writes a packet contiguously at m_write_pos and publishes *)
(* it through m_ato_write_pos; the VU thread reads it at m_read_pos and    *)
(* gives the room back through m_ato_read_pos.  A packet that does not fit *)
(* before the end of the buffer is preceded by a MTVU_NULL_PACKET, which   *)
(* sends the reader back to 0.  semaEvent is the signal of WorkSignal.tla; *)
(* every access to a position the other thread reads is its own action.    *)
(*                                                                         *)
(* A definition named X_Y is X with a slip Y in it; no action uses it.     *)
(***************************************************************************)
EXTENDS Integers, Sequences

CONSTANTS
    BufferSize,   \* buffer_size, in words
    Size,         \* words of each kind of packet, its tag included
    SafetyNet,    \* _4kb in WaitOnSize
    MayLap        \* whether the EE thread may come round to the start of the
                  \* buffer while the reader still has to publish leaving it

Kinds == DOMAIN Size

ASSUME BufferAssumption == BufferSize \in Nat \ {0} /\ SafetyNet \in Nat
ASSUME SizeAssumption ==
    /\ Kinds \subseteq STRING \ {"null", "data", "free"}
    /\ \A k \in Kinds : Size[k] \in 1 .. BufferSize - 1
    \* Only what a loaded state writes (57) is larger, right behind a Reset.
    /\ \A k \in Kinds : Size[k] <= SafetyNet + 2
ASSUME MayLapAssumption == MayLap \in BOOLEAN

VARIABLES
    buffer,     \* a kind of packet in its tag word, "data" behind it
    atoRead, mRead,     \* m_ato_read_pos, m_read_pos
    atoWrite, mWrite,   \* m_ato_write_pos, m_write_pos
    sent,       \* history: packets published, whose room is not given back yet
    pending, worker, waiter,   \* semaEvent, as WorkSignal shows it
    shutdown,   \* m_shutdown_flag
    ee, kind,   \* the EE thread: where it is, the packet it sends
    vu          \* the VU thread

posVars == <<atoRead, mRead, atoWrite, mWrite>>
semVars == <<pending, worker, waiter>>
vars == <<buffer, posVars, sent, semVars, shutdown, ee, kind, vu>>

Event == INSTANCE WorkSignal

Positions == 0 .. BufferSize - 1
NoKind == "none"
Sizes(k) == IF k = "null" THEN 1 ELSE Size[k]
Words(p, k) == {p + i : i \in 0 .. Sizes(k) - 1}

Init ==
    /\ buffer = [p \in Positions |-> "free"]
    /\ atoRead = 0 /\ mRead = 0 /\ atoWrite = 0 /\ mWrite = 0
    /\ sent = <<>>
    /\ Event!Init
    /\ shutdown = FALSE
    /\ ee = "closed" /\ kind = NoKind
    /\ vu = "none"

-----------------------------------------------------------------------------
(* The EE thread *)

Goto(from, to) ==
    /\ ee = from
    /\ ee' = to
    /\ kind' = IF to = "idle" THEN NoKind ELSE kind

\* ReserveSpace: a packet that would reach the last word goes to the start.
Wraps_ToTheBrim(k) == mWrite + Size[k] > BufferSize
Wraps(k) == mWrite + Size[k] > BufferSize - 1

StartPacket(k) ==
    /\ ee = "idle"
    /\ ee' = IF Wraps(k) THEN "roomnull" ELSE "room"
    /\ kind' = k
    /\ UNCHANGED <<buffer, posVars, sent, semVars, shutdown, vu>>

\* WaitOnSize looks at m_ato_read_pos once; m_write_pos is the EE thread's own.
HasRoom_ForgetsSize(n) == atoRead <= mWrite \/ atoRead > mWrite
HasRoom_NoGap(n) == atoRead <= mWrite \/ atoRead >= mWrite + n
HasRoom(n) == atoRead <= mWrite \/ atoRead > mWrite + n + SafetyNet

\* Only an instance with MayLap FALSE holds the EE thread at a reader on 0.
NullRoom ==
    /\ Goto("roomnull", IF HasRoom(1) THEN "null" ELSE "kicknull")
    /\ HasRoom(1) => MayLap \/ atoRead # 0
    /\ UNCHANGED <<buffer, posVars, sent, semVars, shutdown, vu>>

Room ==
    /\ Goto("room", IF HasRoom(Size[kind]) THEN "write" ELSE "kickroom")
    /\ UNCHANGED <<buffer, posVars, sent, semVars, shutdown, vu>>

\* KickStart, while there is no room and after every packet.
KickStart_Never ==
    /\ \/ Goto("kicknull", "roomnull")
       \/ Goto("kickroom", "room")
       \/ Goto("kick", "idle")
    /\ UNCHANGED <<buffer, posVars, sent, semVars, shutdown, vu>>
KickStart_StalledOnly ==
    /\ \/ (Goto("kicknull", "roomnull") \/ Goto("kickroom", "room")) /\ Event!Notify
       \/ Goto("kick", "idle") /\ UNCHANGED semVars
    /\ UNCHANGED <<buffer, posVars, sent, shutdown, vu>>
KickStart ==
    /\ \/ Goto("kicknull", "roomnull")
       \/ Goto("kickroom", "room")
       \/ Goto("kick", "idle")
    /\ Event!Notify
    /\ UNCHANGED <<buffer, posVars, sent, shutdown, vu>>

\* The NULL packet is written, and the local write position goes to 0.
WriteNull ==
    /\ Goto("null", "commitnull")
    /\ buffer' = [buffer EXCEPT ![mWrite] = "null"]
    /\ mWrite' = 0
    /\ UNCHANGED <<atoRead, mRead, atoWrite, sent, semVars, shutdown, vu>>

WritePacket ==
    /\ Goto("write", "commit")
    /\ buffer' = [p \in Positions |->
                    IF p = mWrite THEN kind
                    ELSE IF p \in Words(mWrite, kind) THEN "data" ELSE buffer[p]]
    /\ mWrite' = mWrite + Size[kind]
    /\ UNCHANGED <<atoRead, mRead, atoWrite, sent, semVars, shutdown, vu>>

\* CommitWritePos; the packet began at the position published before.
CommitWrite ==
    /\ \/ Goto("commitnull", "room") /\ sent' = Append(sent, [kind |-> "null", start |-> atoWrite])
       \/ Goto("commit", "kick") /\ sent' = Append(sent, [kind |-> kind, start |-> atoWrite])
    /\ atoWrite' = mWrite
    /\ UNCHANGED <<buffer, atoRead, mRead, mWrite, semVars, shutdown, vu>>

\* WaitVU: WaitForEmpty returns at once, or waits to be released.
WaitVUNow_StillRunning ==
    /\ ~pending
    /\ Goto("idle", "synced")
    /\ UNCHANGED <<buffer, posVars, sent, semVars, shutdown, vu>>
WaitVUNow ==
    /\ worker # "running" /\ ~pending
    /\ Goto("idle", "synced")
    /\ UNCHANGED <<buffer, posVars, sent, semVars, shutdown, vu>>

WaitVU ==
    /\ Goto("idle", "wait")
    /\ Event!StartWaitEmpty
    /\ UNCHANGED <<buffer, posVars, sent, shutdown, vu>>

WaitVUReturn ==
    /\ Goto("wait", "synced")
    /\ Event!ReturnEmpty
    /\ UNCHANGED <<buffer, posVars, sent, shutdown, vu>>

Synced ==
    /\ Goto("synced", "idle")
    /\ UNCHANGED <<buffer, posVars, sent, semVars, shutdown, vu>>

\* Reset, which a VM reset calls behind WaitVU.
Reset ==
    /\ Goto("synced", "idle")
    /\ atoRead' = 0 /\ mRead' = 0 /\ atoWrite' = 0 /\ mWrite' = 0
    /\ sent' = <<>>
    /\ UNCHANGED <<buffer, semVars, shutdown, vu>>

Open ==
    /\ Goto("closed", "idle")
    /\ atoRead' = 0 /\ mRead' = 0 /\ atoWrite' = 0 /\ mWrite' = 0
    /\ sent' = <<>>
    /\ IF worker = "dead" THEN Event!Reset ELSE UNCHANGED semVars
    /\ shutdown' = FALSE
    /\ vu' = "main"
    /\ UNCHANGED buffer

Close ==
    /\ \/ Goto("idle", "closekick") /\ shutdown' = TRUE /\ UNCHANGED semVars
       \/ Goto("closekick", "join") /\ Event!Notify /\ UNCHANGED shutdown
    /\ UNCHANGED <<buffer, posVars, sent, vu>>

Join ==
    /\ vu = "exited"
    /\ Goto("join", "closed")
    /\ vu' = "none"
    /\ UNCHANGED <<buffer, posVars, sent, semVars, shutdown>>

-----------------------------------------------------------------------------
(* The VU thread: ExecuteRingBuffer *)

VuGoto(from, to) == vu = from /\ vu' = to

VuWaitForWork ==
    /\ vu = "main"
    /\ \/ Event!StartWait /\ UNCHANGED vu
       \/ Event!Wake /\ UNCHANGED vu
       \/ Event!Take /\ vu' = "shutdown?"
    /\ UNCHANGED <<buffer, posVars, sent, shutdown, ee, kind>>

VuCheckShutdown ==
    /\ VuGoto("shutdown?", IF shutdown THEN "kill" ELSE "drain")
    /\ UNCHANGED <<buffer, posVars, sent, semVars, shutdown, ee, kind>>

VuDrained ==
    /\ atoRead = atoWrite
    /\ VuGoto("drain", "main")
    /\ UNCHANGED <<buffer, posVars, sent, semVars, shutdown, ee, kind>>

\* The packet at m_read_pos is read and executed; "lost" if there is none.
VuExecute ==
    /\ atoRead # atoWrite
    /\ VuGoto("drain", IF buffer[mRead] \in Kinds \union {"null"} THEN "commit" ELSE "lost")
    /\ mRead' = IF buffer[mRead] \in Kinds THEN mRead + Size[buffer[mRead]]
                ELSE IF buffer[mRead] = "null" THEN 0 ELSE mRead
    /\ UNCHANGED <<buffer, atoRead, atoWrite, mWrite, sent, semVars, shutdown, ee, kind>>

VuCommit ==
    /\ VuGoto("commit", "drain")
    /\ atoRead' = mRead
    /\ sent' = SubSeq(sent, 2, Len(sent))
    /\ UNCHANGED <<buffer, mRead, atoWrite, mWrite, semVars, shutdown, ee, kind>>

VuKill ==
    /\ VuGoto("kill", "exited")
    /\ Event!Kill
    /\ UNCHANGED <<buffer, posVars, sent, shutdown, ee, kind>>

-----------------------------------------------------------------------------
EeStep ==
    \/ NullRoom \/ Room \/ KickStart \/ WriteNull \/ WritePacket \/ CommitWrite
    \/ WaitVUReturn \/ Synced \/ Join \/ (ee = "closekick" /\ Close)

EeChoice ==
    \/ \E k \in Kinds : StartPacket(k)
    \/ WaitVUNow \/ WaitVU \/ Reset \/ Open \/ (ee = "idle" /\ Close)

VuStep == VuWaitForWork \/ VuCheckShutdown \/ VuDrained \/ VuExecute \/ VuCommit \/ VuKill

Next == EeStep \/ EeChoice \/ VuStep

Spec == Init /\ [][Next]_vars

\* Both threads are scheduled; nothing obliges the EE thread to begin anything.
FairSpec == Spec /\ WF_vars(EeStep) /\ WF_vars(VuStep)

-----------------------------------------------------------------------------
(* Properties *)

TypeOK ==
    /\ buffer \in [Positions -> Kinds \union {"null", "data", "free"}]
    /\ atoRead \in Positions /\ mRead \in Positions
    /\ atoWrite \in Positions /\ mWrite \in Positions
    /\ sent \in Seq([kind : Kinds \union {"null"}, start : Positions])
    /\ Event!TypeOK
    /\ shutdown \in BOOLEAN
    /\ kind \in Kinds \union {NoKind}
    /\ ee \in {"closed", "idle", "roomnull", "kicknull", "null", "commitnull", "room",
               "kickroom", "write", "commit", "kick", "wait", "synced", "closekick", "join"}
    /\ vu \in {"none", "main", "shutdown?", "drain", "commit", "lost", "kill", "exited"}

\* From m_ato_read_pos on the buffer holds exactly the packets published and
\* not given back, in order and whole, NULL packets leading back to 0: the VU
\* thread executes each packet once, and the EE thread never writes over one
\* that is not finished (ReserveSpace:239-255, ExecuteRingBuffer:138-204).
RingIsTheQueue ==
    /\ vu # "lost"
    /\ atoRead = (IF sent = <<>> THEN atoWrite ELSE sent[1].start)
    /\ \A i \in DOMAIN sent :
        LET p == sent[i] IN
        /\ (IF p.kind = "null" THEN 0 ELSE p.start + Size[p.kind])
             = (IF i = Len(sent) THEN atoWrite ELSE sent[i + 1].start)
        /\ buffer[p.start] = p.kind
        /\ \A k \in Words(p.start, p.kind) \ {p.start} : buffer[k] = "data"

\* "ring-buffer has no complete pending packets when read_pos==write_pos"
\* (MTVU.h:18): the VU thread does not take a full ring for an empty one.
EqualMeansEmpty == atoRead = atoWrite => sent = <<>>

\* When WaitVU returns the VU thread has finished every packet, so the EE
\* thread may touch VU1's registers and memory, and Reset may move the VU
\* thread's own positions (WaitVU:435, Reset:114).
WaitVUMeansDone ==
    ee = "synced" => sent = <<>> /\ vu = "main" /\ mRead = atoRead

\* The EE thread comes back from every packet it sends, every WaitVU and every
\* Close, however full the ring: WaitOnSize always ends (212-235).
EeReturns == ee \notin {"idle", "closed"} ~> ee \in {"idle", "closed"}

\* Once the EE thread stops sending, every packet sent is executed: no packet
\* stays behind in the ring with the VU thread asleep.
AllExecuted == <>[](ee = "idle") => <>[](sent = <<>>)
====
