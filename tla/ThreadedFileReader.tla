---- MODULE ThreadedFileReader ----
(***************************************************************************)
(* The reader of compressed disc images (CDVD/ThreadedFileReader.cpp) and  *)
(* the one sector buffer the drive reads through (CDVD/InputIsoFile.cpp).  *)
(*                                                                         *)
(* The EE thread leaves a request (a pointer, a sector, a size) under      *)
(* m_mtx; the worker decodes it outside the lock and hands the pointer     *)
(* back by a compare-exchange with null, then reads ahead into two block   *)
(* buffers until the next request.  Requests are of one sector, as         *)
(* InputIsoFile makes them; a decoded chunk is one or several sectors.     *)
(* The mutex is held over several actions wherever the other thread can    *)
(* reach the data without it.                                              *)
(*                                                                         *)
(* A definition named X_Y is X with a slip Y in it; no action uses it.     *)
(***************************************************************************)
EXTENDS Integers

CONSTANTS
    Sectors,      \* sectors on the disc
    Asked,        \* the sectors the machine asks for
    ChunkSizes,   \* sectors of a chunk, one of which the opened format has
    Cap,          \* sectors a block buffer holds (MINIMUM_SIZE)
    Overlap       \* calls the drive makes while a sector is asked for and not
                  \* fetched: "begin" after an aborted read, "sync"

ASSUME SectorsAssumption == Sectors \in Nat \ {0}
ASSUME AskedAssumption == Asked \subseteq 0 .. Sectors - 1
ASSUME ChunkAssumption ==
    ChunkSizes # {} /\ \A c \in ChunkSizes : c \in 1 .. Cap
ASSUME CapAssumption == Cap \in Nat
ASSUME OverlapAssumption == Overlap \subseteq {"begin", "sync"}

VARIABLES
    chunk,                                  \* sectors of a chunk of this file
    reqPtr, reqSector, reqSize,             \* m_requestPtr, Offset, Size
    cancelled, quit, running,               \* m_requestCancelled, m_quit, m_running
    mutex, asleep,                          \* m_mtx, threads waiting on m_condition
    amtRead,                                \* whether m_amtRead is above 0
    bufs, nextBuffer,                       \* m_buffer, m_nextBuffer
    dest,                                   \* the sector each caller's buffer holds
    worker, wreq, ok, want, ahead, cur, filled, \* the worker thread and its locals
    ee, call,                               \* the EE thread, the call it is in
    current, readLsn, inProgress            \* InputIsoFile

reqVars == <<reqPtr, reqSector, reqSize>>
shared == <<chunk, reqVars, cancelled, quit, running>>
lockVars == <<mutex, asleep>>
cacheVars == <<bufs, nextBuffer>>
io == <<amtRead, dest>>
body == <<wreq, ok, want, ahead, cur, filled>>
workerVars == <<worker, body>>
isoVars == <<current, readLsn, inProgress>>
eeVars == <<ee, call, isoVars>>
vars == <<shared, lockVars, cacheVars, io, workerVars, eeVars>>

Sector == 0 .. Sectors - 1
NoSector == -1        \* m_read_lsn = -1; in dest: torn or never filled
Null == "null"

\* m_requestSize: nothing, the one byte that asks for readahead, a sector.
NoSize == 0
AheadSize == 1
SectorSize == 2

ChunkOf(s) == (s \div chunk) * chunk
Direct == chunk = 1   \* the chunk is the sector: decoded into the caller's buffer
Empty == [off |-> 0, size |-> 0]
Covers(b, s) == b.size > 0 /\ b.off <= s /\ s < b.off + b.size
NoRequest == [ptr |-> Null, sector |-> 0, size |-> NoSize]
NoCall == [op |-> "none", buf |-> Null, sector |-> 0, hit |-> 0, left |-> FALSE, done |-> FALSE]

Init ==
    /\ chunk \in ChunkSizes
    /\ reqPtr = Null /\ reqSector = 0 /\ reqSize = NoSize
    /\ cancelled = FALSE /\ quit = FALSE /\ running = FALSE
    /\ mutex = "free" /\ asleep = {} /\ amtRead = FALSE
    /\ bufs = [i \in {0, 1} |-> Empty] /\ nextBuffer = 0
    /\ dest = [b \in {"async", "sync"} |-> NoSector]
    /\ worker = "start" /\ wreq = NoRequest /\ ok = TRUE
    /\ want = 0 /\ ahead = FALSE /\ cur = 0 /\ filled = 0
    /\ ee = "idle" /\ call = NoCall
    /\ current = NoSector /\ readLsn = NoSector /\ inProgress = FALSE

Notify(t) == asleep' = asleep \ {t}
Lock(t) == mutex = "free" /\ t \notin asleep /\ mutex' = t
Unlock == mutex' = "free"

-----------------------------------------------------------------------------
(* The EE thread: BeginRead and ReadSync *)

Enter(to, op, buf, s) ==
    /\ ee' = to
    /\ call' = [NoCall EXCEPT !.op = op, !.buf = buf, !.sector = s]

\* The call returns; BeginRead and CancelRead have no answer.
Answer(a) ==
    IF call.op \in {"begin", "cancel"} THEN ee' = "idle" /\ call' = NoCall
    ELSE ee' = a /\ call' = [call EXCEPT !.hit = 0, !.left = FALSE, !.done = FALSE]

\* BeginRead2; a sector still in m_readbuffer is not read again.
BeginRead(s) ==
    /\ ee = "idle"
    /\ current = NoSector \/ "begin" \in Overlap
    /\ current' = s
    /\ IF s = readLsn
       THEN UNCHANGED <<ee, call, readLsn, inProgress>>
       ELSE readLsn' = s /\ inProgress' = TRUE /\ Enter("lock", "begin", "async", s)
    /\ UNCHANGED <<shared, lockVars, cacheVars, io, workerVars>>

ReadSync(s) ==
    /\ ee = "idle"
    /\ current = NoSector \/ "sync" \in Overlap
    /\ Enter("lock", "sync", "sync", s)
    /\ UNCHANGED <<shared, lockVars, cacheVars, io, workerVars, isoVars>>

\* TryCachedRead goes over both buffers twice and copies from the first that
\* has the sector.  allDone says that the other one begins where this one ends;
\* behind the last sector of a buffer the scan moves on into the other, and
\* asks for readahead all the same.
IsCached(s) == \E i \in {0, 1} : Covers(bufs[i], s)
Hit(s) == IF Covers(bufs[0], s) THEN 0 ELSE 1
End(b) == b.off + b.size
AllDone(s) ==
    LET h == bufs[Hit(s)]
        o == bufs[1 - Hit(s)]
    IN o.size > 0 /\ o.off = End(h) /\ s + 1 # End(h)

\* The lock, then TryCachedRead up to its copy.  ReadSync decodes by itself
\* when the worker is waiting.
MayInline_Always == TRUE
MayInline == ~running

TryCachedRead ==
    /\ ee = "lock" /\ Lock("ee")
    /\ amtRead' = FALSE
    /\ IF IsCached(call.sector)
       THEN /\ call' = [call EXCEPT !.hit = Hit(call.sector), !.done = AllDone(call.sector)]
            /\ dest' = [dest EXCEPT ![call.buf] = NoSector]
            /\ ee' = "copy"
       ELSE /\ call' = [call EXCEPT !.left = TRUE]
            /\ ee' = IF call.op = "sync" /\ MayInline THEN "inline" ELSE "store"
            /\ UNCHANGED dest
    /\ UNCHANGED <<shared, asleep, cacheVars, workerVars, isoVars>>

CopyCached ==
    /\ ee = "copy"
    /\ dest' = [dest EXCEPT ![call.buf] =
                  IF Covers(bufs[call.hit], call.sector) THEN call.sector ELSE NoSector]
    /\ amtRead' = TRUE
    /\ IF call.done THEN Unlock /\ Answer("ok") ELSE ee' = "store" /\ UNCHANGED <<call, mutex>>
    /\ UNCHANGED <<shared, asleep, cacheVars, workerVars, isoVars>>

\* Decompress on the EE thread, with the lock held.
Inline ==
    /\ ee = "inline"
    /\ ee' = "store"
    /\ \E good \in {FALSE} \union {~cancelled} :
        /\ call' = [call EXCEPT !.left = ~good]
        /\ amtRead' = (amtRead \/ good)
        /\ dest' = IF good THEN [dest EXCEPT !["sync"] = call.sector] ELSE dest
        /\ IF Direct \/ cancelled THEN UNCHANGED cacheVars
           ELSE /\ bufs' = [bufs EXCEPT ![nextBuffer] =
                              IF good THEN [off |-> ChunkOf(call.sector), size |-> chunk]
                              ELSE Empty]
                /\ nextBuffer' = IF good THEN 1 - nextBuffer ELSE nextBuffer
    /\ UNCHANGED <<shared, lockVars, workerVars, isoVars>>

\* With nothing left to read the request is for readahead only.
StoreRequest ==
    /\ ee = "store"
    /\ reqSector' = call.sector
    /\ reqSize' = IF call.left THEN SectorSize ELSE AheadSize
    /\ reqPtr' = IF call.left THEN call.buf ELSE Null
    /\ cancelled' = FALSE
    /\ Unlock
    /\ ee' = "notify"
    /\ UNCHANGED <<chunk, quit, running, asleep, cacheVars, io, workerVars, call, isoVars>>

NotifyWorker ==
    /\ ee = "notify"
    /\ Notify("worker")
    /\ IF call.op = "sync" /\ call.left
       THEN ee' = "finish" /\ UNCHANGED call
       ELSE Answer("ok")
    /\ UNCHANGED <<shared, mutex, cacheVars, io, workerVars, isoVars>>

\* The caller has looked at the answer; a buffer for ReadSync is its own.
Returned ==
    /\ ee \in {"ok", "error"}
    /\ ee' = "idle" /\ call' = NoCall
    /\ dest' = [dest EXCEPT !["sync"] = NoSector]
    /\ UNCHANGED <<shared, lockVars, cacheVars, amtRead, workerVars, isoVars>>

-----------------------------------------------------------------------------
(* The EE thread: FinishRead and CancelRead *)

\* FinishRead3; without a read in progress m_readbuffer is handed out at once.
FinishRead3 ==
    /\ ee = "idle" /\ current # NoSector
    /\ Enter(IF inProgress THEN "finish" ELSE "ok", "finish", "async", current)
    /\ current' = IF inProgress THEN current ELSE NoSector
    /\ UNCHANGED <<shared, lockVars, cacheVars, io, workerVars, readLsn, inProgress>>

\* Nobody calls CancelRead today; its caller would give up the sector.
CancelRead_ClearsPtr ==
    /\ ee = "idle" /\ inProgress /\ reqPtr # Null
    /\ Enter("finish", "cancel", "async", 0)
    /\ cancelled' = TRUE /\ reqPtr' = Null
    /\ UNCHANGED <<chunk, reqSector, reqSize, quit, running, lockVars, cacheVars, io,
                   workerVars, isoVars>>
CancelRead ==
    /\ ee = "idle" /\ inProgress /\ reqPtr # Null
    /\ Enter("lockwait", "cancel", "async", 0)
    /\ cancelled' = TRUE
    /\ UNCHANGED <<chunk, reqVars, quit, running, lockVars, cacheVars, io, workerVars, isoVars>>

\* What the caller makes of the answer; no bytes mean failure.
Return ==
    /\ Answer(IF amtRead THEN "ok" ELSE "error")
    /\ IF call.op = "sync" THEN UNCHANGED isoVars
       ELSE /\ inProgress' = FALSE /\ current' = NoSector
            /\ readLsn' = IF call.op = "finish" /\ amtRead THEN readLsn ELSE NoSector

FinishLook ==
    /\ ee = "finish"
    /\ IF reqPtr = Null THEN Return
       ELSE ee' = "lockwait" /\ UNCHANGED <<call, isoVars>>
    /\ UNCHANGED <<shared, lockVars, cacheVars, io, workerVars>>

\* What FinishRead and CancelRead wait for, and what CancelAndWaitUntilStopped
\* does, which first takes the request away.
Over == IF call.op = "close" THEN ~running ELSE reqPtr = Null

WaitLock ==
    /\ ee = "lockwait" /\ Lock("ee")
    /\ reqSize' = IF call.op = "close" THEN NoSize ELSE reqSize
    /\ ee' = "check"
    /\ UNCHANGED <<chunk, reqPtr, reqSector, cancelled, quit, running, asleep, cacheVars, io,
                   workerVars, call, isoVars>>

WaitCheck ==
    /\ ee = "check"
    /\ IF ~Over THEN ee' = "sleep" /\ UNCHANGED <<mutex, call, isoVars>>
       ELSE /\ Unlock
            /\ IF call.op = "close" THEN ee' = "close2" /\ UNCHANGED <<call, isoVars>> ELSE Return
    /\ UNCHANGED <<shared, asleep, cacheVars, io, workerVars>>

\* m_condition.wait
WaitSleep ==
    /\ ee = "sleep"
    /\ Unlock /\ asleep' = asleep \union {"ee"}
    /\ ee' = "lockwait"
    /\ UNCHANGED <<shared, cacheVars, io, workerVars, call, isoVars>>

-----------------------------------------------------------------------------
(* The EE thread: Close, the destructor, and the reader of the next file *)

Close ==
    /\ ee = "idle"
    /\ Enter("lockwait", "close", Null, 0)
    /\ cancelled' = TRUE
    /\ current' = NoSector /\ readLsn' = NoSector /\ inProgress' = FALSE
    /\ UNCHANGED <<chunk, reqVars, quit, running, lockVars, cacheVars, io, workerVars>>

Close2 ==
    /\ ee = "close2"
    /\ bufs' = [i \in {0, 1} |-> Empty]
    /\ ee' = "quit"
    /\ UNCHANGED <<shared, lockVars, nextBuffer, io, workerVars, call, isoVars>>

\* The destructor takes the lock between m_quit and its notification.
Quit ==
    /\ \/ ee = "quit" /\ ee' = "quitlock" /\ quit' = TRUE /\ UNCHANGED asleep
       \/ ee = "quitlock" /\ mutex = "free" /\ ee' = "quitnotify" /\ UNCHANGED <<quit, asleep>>
       \/ ee = "quitnotify" /\ ee' = "join" /\ Notify("worker") /\ UNCHANGED quit
    /\ UNCHANGED <<chunk, reqVars, cancelled, running, mutex, cacheVars, io, workerVars, call,
                   isoVars>>

\* The thread is joined; the next file gets a reader of its own.
Reopen ==
    /\ ee = "join" /\ worker = "exited"
    /\ chunk' \in ChunkSizes
    /\ reqPtr' = Null /\ reqSector' = 0
    /\ cancelled' = FALSE /\ quit' = FALSE /\ amtRead' = FALSE
    /\ nextBuffer' = 0
    /\ worker' = "start"
    /\ ee' = "idle" /\ call' = NoCall
    /\ UNCHANGED <<reqSize, running, lockVars, bufs, dest, body, isoVars>>

-----------------------------------------------------------------------------
(* The worker: Loop *)

WGoto(from, to) == worker = from /\ worker' = to

WorkerLock ==
    /\ \/ WGoto("start", "top") /\ Lock("worker")
       \/ WGoto("asleep", "top") /\ Lock("worker")
    /\ UNCHANGED <<shared, asleep, cacheVars, io, body, eeVars>>

WorkerSleep ==
    /\ reqSize = NoSize /\ ~quit
    /\ WGoto("top", "sleep")
    /\ UNCHANGED <<shared, lockVars, cacheVars, io, body, eeVars>>

WorkerWait ==
    /\ WGoto("sleep", "asleep")
    /\ Unlock /\ asleep' = asleep \union {"worker"}
    /\ UNCHANGED <<shared, cacheVars, io, body, eeVars>>

WorkerExit ==
    /\ quit
    /\ WGoto("top", "exited")
    /\ Unlock
    /\ UNCHANGED <<shared, asleep, cacheVars, io, body, eeVars>>

Load ==
    /\ wreq' = [ptr |-> reqPtr, sector |-> reqSector, size |-> reqSize]
    /\ worker' = IF reqPtr = Null THEN "swap" ELSE "decompress"
    /\ Unlock

WorkerTake ==
    /\ \/ /\ worker = "top" /\ reqSize # NoSize /\ ~quit
          /\ ok' = TRUE /\ running' = TRUE
       \/ worker = "retry" /\ mutex = "free" /\ UNCHANGED <<ok, running>>
    /\ Load
    /\ UNCHANGED <<chunk, reqVars, cancelled, quit, asleep, cacheVars, io, want, ahead, cur,
                   filled, eeVars>>

\* Decompress, one chunk for one sector.
WorkerDecompress ==
    /\ worker = "decompress"
    /\ worker' = IF cancelled THEN "swap" ELSE IF Direct THEN "fill" ELSE "get"
    /\ ok' = ~cancelled
    /\ want' = ChunkOf(wreq.sector)
    /\ ahead' = FALSE
    /\ UNCHANGED <<shared, lockVars, cacheVars, io, wreq, cur, filled, eeVars>>

\* GetBlockPtr, for the request or for readahead.
GetFound(i) ==
    /\ worker = "get"
    /\ Covers(bufs[i], want)
    /\ i = 1 => ~Covers(bufs[0], want)
    /\ cur' = i /\ nextBuffer' = 1 - i
    /\ worker' = IF ahead THEN "ahead" ELSE "fill"
    /\ UNCHANGED <<shared, lockVars, bufs, io, wreq, ok, want, ahead, filled, eeVars>>

\* The buffer is emptied under the lock, so that TryCachedRead is not in it.
GetEvict_NoLock ==
    /\ \A i \in {0, 1} : ~Covers(bufs[i], want)
    /\ WGoto("get", "decode")
    /\ bufs' = [bufs EXCEPT ![nextBuffer] = Empty]
    /\ UNCHANGED <<shared, lockVars, nextBuffer, io, body, eeVars>>
GetEvict ==
    /\ mutex = "free"
    /\ \A i \in {0, 1} : ~Covers(bufs[i], want)
    /\ WGoto("get", "decode")
    /\ bufs' = [bufs EXCEPT ![nextBuffer] = Empty]
    /\ UNCHANGED <<shared, lockVars, nextBuffer, io, body, eeVars>>

GetDecode ==
    /\ worker = "decode"
    /\ \/ /\ bufs' = [bufs EXCEPT ![nextBuffer] = [off |-> want, size |-> chunk]]
          /\ cur' = nextBuffer /\ nextBuffer' = 1 - nextBuffer
          /\ worker' = IF ahead THEN "ahead" ELSE "fill"
          /\ UNCHANGED ok
       \/ /\ worker' = IF ahead THEN "end" ELSE "swap"
          /\ ok' = (ok /\ ahead)
          /\ UNCHANGED <<cacheVars, cur>>
    /\ UNCHANGED <<shared, lockVars, io, wreq, want, ahead, filled, eeVars>>

\* The caller's buffer is written, from a block buffer or by the decoder.
Fill ==
    /\ WGoto("fill", "filling")
    /\ dest' = [dest EXCEPT ![wreq.ptr] = NoSector]
    /\ UNCHANGED <<shared, lockVars, cacheVars, amtRead, body, eeVars>>

Filled ==
    /\ WGoto("filling", "swap")
    /\ \E good \in {TRUE} \union {~Direct} :
        /\ ok' = good
        /\ amtRead' = (amtRead \/ good)
        /\ dest' = IF good /\ (Direct \/ Covers(bufs[cur], wreq.sector))
                   THEN [dest EXCEPT ![wreq.ptr] = wreq.sector] ELSE dest
    /\ UNCHANGED <<shared, lockVars, cacheVars, wreq, want, ahead, cur, filled, eeVars>>

\* The compare-exchange; a request with another pointer is taken up at once.
Swap ==
    /\ worker = "swap"
    /\ IF reqPtr = wreq.ptr
       THEN reqPtr' = Null /\ worker' = "notify"
       ELSE worker' = "retry" /\ UNCHANGED reqPtr
    /\ UNCHANGED <<chunk, reqSector, reqSize, cancelled, quit, running, lockVars, cacheVars, io,
                   body, eeVars>>

\* The notification is given without the lock; readahead begins behind the sector.
NotifyDone ==
    LET next == wreq.sector + 1
    IN
    /\ worker = "notify"
    /\ Notify("ee")
    /\ worker' = IF ok /\ next < Sectors THEN "get" ELSE "end"
    /\ want' = IF next < Sectors THEN ChunkOf(next) ELSE want
    /\ ahead' = TRUE /\ cur' = 0 /\ filled' = 0
    /\ UNCHANGED <<shared, mutex, cacheVars, io, wreq, ok, eeVars>>

\* Readahead stops at a request, at the end of the disc, and behind two buffers.
AheadFits == bufs[cur].size + chunk <= Cap

ReadAhead ==
    LET next == bufs[cur].off + bufs[cur].size
    IN
    /\ worker = "ahead"
    /\ IF reqPtr # Null \/ next >= Sectors
       THEN worker' = "end" /\ UNCHANGED <<want, filled>>
       ELSE IF AheadFits
       THEN worker' = "append" /\ want' = next /\ UNCHANGED filled
       ELSE /\ filled' = filled + 1
            /\ worker' = IF filled' = 2 THEN "end" ELSE "get"
            /\ want' = next
    /\ UNCHANGED <<shared, lockVars, cacheVars, io, wreq, ok, ahead, cur, eeVars>>

Append1 ==
    /\ worker = "append"
    /\ \/ worker' = "ahead" /\ bufs' = [bufs EXCEPT ![cur].size = @ + chunk]
       \/ worker' = "end" /\ UNCHANGED bufs
    /\ UNCHANGED <<shared, lockVars, nextBuffer, io, body, eeVars>>

\* Done, unless somebody has added work; the lock is kept for the next round.
SameRequest == reqSize = wreq.size /\ reqSector = wreq.sector /\ reqPtr = Null

EndOfBody ==
    /\ wreq' = NoRequest /\ ok' = TRUE
    /\ want' = 0 /\ ahead' = FALSE /\ cur' = 0 /\ filled' = 0

WorkerEnd_KeepsRequest ==
    /\ WGoto("end", "top") /\ Lock("worker")
    /\ running' = FALSE
    /\ Notify("ee")
    /\ EndOfBody
    /\ UNCHANGED <<chunk, reqVars, cancelled, quit, cacheVars, io, eeVars>>
WorkerEnd ==
    /\ WGoto("end", "top") /\ Lock("worker")
    /\ reqSize' = IF SameRequest THEN NoSize ELSE reqSize
    /\ running' = FALSE
    /\ Notify("ee")
    /\ EndOfBody
    /\ UNCHANGED <<chunk, reqPtr, reqSector, cancelled, quit, cacheVars, io, eeVars>>

-----------------------------------------------------------------------------
EeStep ==
    \/ TryCachedRead \/ CopyCached \/ Inline \/ StoreRequest \/ NotifyWorker
    \/ Returned
    \/ FinishLook \/ WaitLock \/ WaitCheck \/ WaitSleep \/ Close2 \/ Quit \/ Reopen

EeChoice ==
    \/ \E s \in Asked : BeginRead(s) \/ ReadSync(s)
    \/ FinishRead3 \/ CancelRead \/ Close

WorkerStep ==
    \/ WorkerLock \/ WorkerSleep \/ WorkerWait \/ WorkerExit \/ WorkerTake
    \/ WorkerDecompress \/ (\E i \in {0, 1} : GetFound(i)) \/ GetEvict \/ GetDecode
    \/ Fill \/ Filled \/ Swap \/ NotifyDone \/ ReadAhead \/ Append1 \/ WorkerEnd

Next == EeStep \/ EeChoice \/ WorkerStep

Spec == Init /\ [][Next]_vars

\* Both threads are scheduled; nobody has to call the reader.
FairSpec == Spec /\ WF_vars(EeStep) /\ WF_vars(WorkerStep)

-----------------------------------------------------------------------------
(* Properties *)

\* A sector reported as read is the sector asked for, whole: by FinishRead3
\* from the drive's one buffer, by ReadSync into the caller's, whether it came
\* from the block buffers, the worker or the caller's own decoding, and with
\* m_amtRead shared by all of them (FinishRead:373, FinishRead3:101).
SectorIsTheOneAskedFor == ee = "ok" => dest[call.buf] = call.sector

\* "wait until m_requestPtr is cleared to ensure it's not being written to"
\* (ThreadedFileReader.h:66): once the pointer is null, or the reader closed,
\* the worker does not write into a caller's buffer.
ClearedMeansNotWritten ==
    worker \in {"fill", "filling"}
        => reqPtr = wreq.ptr /\ ee \notin {"close2", "quit", "quitlock", "quitnotify", "join"}

\* "View while holding m_mtx.  If false, you may touch decompression functions
\* from other threads" (ThreadedFileReader.h:85): the file is never decoded by
\* two threads, nor closed while it is.
OneDecoder ==
    ee \in {"inline", "close2"} =>
        worker \notin {"get", "decode", "append", "ahead", "fill", "filling"}

\* Every call returns: FinishRead although the worker notifies without the
\* lock (95), CancelRead, and Close with the worker anywhere in its loop; the
\* destructor's join ends, and the next file can be opened.
CallsReturn == ee # "idle" ~> ee = "idle"
====
