---- MODULE ThreadedFileReaderProofs ----
(***************************************************************************)
(* ThreadedFileReader for every disc, every set of chunk sizes and every   *)
(* size of the block buffers: only one thread decodes, whatever calls the  *)
(* drive makes; and, as long as the drive fetches what it asks for, the    *)
(* worker leaves a caller's buffer alone once m_requestPtr is cleared, and *)
(* a sector handed out is the sector asked for.                            *)
(***************************************************************************)
EXTENDS ThreadedFileReader, TLAPS

-----------------------------------------------------------------------------
(* One decoder: the mutex and m_running *)

EeStates == {"idle", "lock", "copy", "inline", "store", "notify", "ok", "error", "finish",
             "lockwait", "check", "sleep", "close2", "quit", "quitlock", "quitnotify", "join"}
WorkerStates == {"start", "top", "sleep", "asleep", "exited", "retry", "decompress", "get",
                 "decode", "fill", "filling", "swap", "notify", "ahead", "append", "end"}

\* Between taking a request and giving it up the worker is running.
Busy == WorkerStates \ {"start", "top", "sleep", "asleep", "exited"}
Closing == {"close2", "quit", "quitlock", "quitnotify", "join"}

CallIsRecord ==
    call = [op |-> call.op, buf |-> call.buf, sector |-> call.sector,
            hit |-> call.hit, left |-> call.left, done |-> call.done]

Locals ==
    /\ ee \in EeStates /\ worker \in WorkerStates
    /\ running \in BOOLEAN
    /\ CallIsRecord

\* Who holds m_mtx where more than one action needs it.
MutexHeld ==
    /\ ee \in {"copy", "inline", "store", "check", "sleep"} => mutex = "ee"
    /\ worker \in {"top", "sleep"} => mutex = "worker"

\* A worker that is not running holds the lock, or needs it, to take a request;
\* while the reader is being closed there is none to take.
RunningMeansBusy ==
    /\ worker \in Busy => running
    /\ ee = "inline" => ~running
    /\ ee \in Closing => ~running /\ reqSize = NoSize
    /\ ee \in {"check", "sleep"} /\ call.op = "close" => reqSize = NoSize

DInv == Locals /\ MutexHeld /\ RunningMeansBusy

\* A reader just constructed: no request, nobody in the mutex.
LEMMA DInvInit == Init => DInv
<1> SUFFICES ASSUME Init PROVE DInv
  OBVIOUS
<1>1. ee = "idle" /\ worker = "start" /\ running = FALSE /\ call = NoCall
  BY DEF Init
<1> QED
  BY <1>1 DEF DInv, Locals, MutexHeld, RunningMeansBusy, EeStates, WorkerStates, Busy, Closing,
             NoCall, CallIsRecord

\* An answered call leaves the EE thread with it, or idle.
LEMMA AnswerEnds ==
    ASSUME Locals, NEW a \in {"ok", "error"}, Answer(a)
    PROVE  ee' \in {"idle", "ok", "error"} /\ CallIsRecord'
<1>1. CASE call.op \in {"begin", "cancel"}
  BY <1>1 DEF Answer, NoCall, CallIsRecord
<1>2. CASE call.op \notin {"begin", "cancel"}
  BY <1>2 DEF Answer, Locals, CallIsRecord
<1> QED
  BY <1>1, <1>2

\* The steps that may answer a call.
LEMMA DInvAnswer == DInv /\ (CopyCached \/ NotifyWorker \/ FinishLook \/ WaitCheck) => DInv'
<1> SUFFICES ASSUME DInv, CopyCached \/ NotifyWorker \/ FinishLook \/ WaitCheck PROVE DInv'
  OBVIOUS
<1>0. CallIsRecord /\ (UNCHANGED call => CallIsRecord')
  BY DEF DInv, Locals, CallIsRecord
<1>1. CASE CopyCached
  <2>1. ee' \in {"idle", "ok", "error", "store"} /\ CallIsRecord'
    BY <1>0, <1>1, AnswerEnds DEF CopyCached, DInv
  <2>2. ee' = "store" => mutex' = "ee"
    BY <1>1, AnswerEnds DEF CopyCached, DInv, MutexHeld
  <2> QED
    BY <1>1, <2>1, <2>2 DEF CopyCached, DInv, Locals, MutexHeld, RunningMeansBusy, EeStates,
             Closing, shared, reqVars, lockVars, workerVars, Unlock
<1>2. CASE NotifyWorker
  <2>1. ee' \in {"idle", "ok", "error", "finish"} /\ CallIsRecord'
    BY <1>0, <1>2, AnswerEnds DEF NotifyWorker, DInv
  <2> QED
    BY <1>2, <2>1 DEF NotifyWorker, DInv, Locals, MutexHeld, RunningMeansBusy, EeStates,
             Closing, shared, reqVars, lockVars, workerVars, Unlock
<1>3. CASE FinishLook
  <2>1. ee' \in {"idle", "ok", "error", "lockwait"} /\ CallIsRecord'
    BY <1>0, <1>3, AnswerEnds DEF FinishLook, Return, DInv
  <2> QED
    BY <1>3, <2>1 DEF FinishLook, DInv, Locals, MutexHeld, RunningMeansBusy, EeStates,
             Closing, shared, reqVars, lockVars, workerVars, Unlock
<1>4. CASE WaitCheck
  <2>1. /\ ee' \in {"idle", "ok", "error", "sleep", "close2"} /\ CallIsRecord'
        /\ ee' = "sleep" => call' = call /\ mutex' = "ee"
        /\ ee' = "close2" => ~running /\ reqSize = NoSize
    <3>1. CASE ~Over
      BY <1>0, <1>4, <3>1 DEF WaitCheck, DInv, MutexHeld
    <3>2. CASE Over /\ call.op = "close"
      BY <1>0, <1>4, <3>2 DEF WaitCheck, Over, DInv, RunningMeansBusy
    <3>3. CASE Over /\ call.op # "close"
      BY <1>4, <3>3, AnswerEnds DEF WaitCheck, Return, DInv
    <3> QED
      BY <3>1, <3>2, <3>3
  <2> QED
    BY <1>4, <2>1 DEF WaitCheck, DInv, Locals, MutexHeld, RunningMeansBusy, EeStates,
             Closing, shared, reqVars, lockVars, workerVars, Unlock
<1> QED
  BY <1>1, <1>2, <1>3, <1>4

\* No step of either thread breaks it, however the calls of the drive overlap.
LEMMA DInvStep == DInv /\ [Next]_vars => DInv'
<1> SUFFICES ASSUME DInv, [Next]_vars PROVE DInv'
  OBVIOUS
<1> USE DEF DInv, Locals, CallIsRecord, MutexHeld, RunningMeansBusy, EeStates, WorkerStates, Busy, Closing,
            vars, shared, reqVars, lockVars, cacheVars, io, workerVars, body, eeVars, isoVars
<1>1. ASSUME NEW s \in Asked, BeginRead(s) PROVE DInv'
  BY <1>1 DEF BeginRead, Enter, NoCall
<1>2. ASSUME NEW s \in Asked, ReadSync(s) PROVE DInv'
  BY <1>2 DEF ReadSync, Enter, NoCall
<1>3. ASSUME NEW i \in {0, 1}, GetFound(i) PROVE DInv'
  BY <1>3 DEF GetFound
<1>4. CASE TryCachedRead
  BY <1>4 DEF TryCachedRead, Lock, MayInline
<1>5. CASE CopyCached
  BY <1>5, DInvAnswer DEF DInv
<1>6. CASE Inline
  BY <1>6 DEF Inline
<1>7. CASE StoreRequest
  BY <1>7 DEF StoreRequest, Unlock
<1>8. CASE NotifyWorker
  BY <1>8, DInvAnswer DEF DInv
<1>9. CASE Returned
  BY <1>9 DEF Returned, NoCall
<1>10. CASE FinishRead3
  BY <1>10 DEF FinishRead3, Enter, NoCall
<1>11. CASE CancelRead
  BY <1>11 DEF CancelRead, Enter, NoCall
<1>12. CASE FinishLook
  BY <1>12, DInvAnswer DEF DInv
<1>13. CASE WaitLock
  BY <1>13 DEF WaitLock, Lock, NoSize
<1>14. CASE WaitCheck
  BY <1>14, DInvAnswer DEF DInv
<1>15. CASE WaitSleep
  BY <1>15 DEF WaitSleep, Unlock
<1>16. CASE Close
  BY <1>16 DEF Close, Enter, NoCall
<1>17. CASE Close2
  BY <1>17 DEF Close2
<1>18. CASE Quit
  BY <1>18 DEF Quit, Notify
<1>19. CASE Reopen
  BY <1>19 DEF Reopen, NoCall
<1>20. CASE WorkerLock
  BY <1>20 DEF WorkerLock, Lock, WGoto
<1>21. CASE WorkerSleep
  BY <1>21 DEF WorkerSleep, WGoto
<1>22. CASE WorkerWait
  BY <1>22 DEF WorkerWait, WGoto, Unlock
<1>23. CASE WorkerExit
  BY <1>23 DEF WorkerExit, WGoto, Unlock
<1>24. CASE WorkerTake
  BY <1>24 DEF WorkerTake, Load, Unlock
<1>25. CASE WorkerDecompress
  BY <1>25 DEF WorkerDecompress
<1>26. CASE GetEvict
  BY <1>26 DEF GetEvict, WGoto
<1>27. CASE GetDecode
  BY <1>27 DEF GetDecode
<1>28. CASE Fill
  BY <1>28 DEF Fill, WGoto
<1>29. CASE Filled
  BY <1>29 DEF Filled, WGoto
<1>30. CASE Swap
  BY <1>30 DEF Swap
<1>31. CASE NotifyDone
  BY <1>31 DEF NotifyDone, Notify
<1>32. CASE ReadAhead
  BY <1>32 DEF ReadAhead
<1>33. CASE Append1
  BY <1>33 DEF Append1
<1>34. CASE WorkerEnd
  BY <1>34 DEF WorkerEnd, WGoto, Lock, Notify, EndOfBody, NoSize
<1>35. CASE UNCHANGED vars
  BY <1>35
<1> QED
  BY <1>1, <1>2, <1>3, <1>4, <1>5, <1>6, <1>7, <1>8, <1>9, <1>10, <1>11, <1>12, <1>13, <1>14, <1>15,
     <1>16, <1>17, <1>18, <1>19, <1>20, <1>21, <1>22, <1>23, <1>24, <1>25, <1>26,
     <1>27, <1>28, <1>29, <1>30, <1>31, <1>32, <1>33, <1>34, <1>35
     DEF Next, EeStep, EeChoice, WorkerStep

\* OneDecoder (ThreadedFileReader.h:85): the EE thread decodes, or closes the
\* file, only while the worker does not decode, for every overlap of calls.
THEOREM OneDecoderCorrect == Spec => []OneDecoder
<1>1. DInv => OneDecoder
  BY DEF DInv, Locals, RunningMeansBusy, OneDecoder, Busy, WorkerStates, Closing
<1> QED
  BY <1>1, DInvInit, DInvStep, PTL DEF Spec

-----------------------------------------------------------------------------
(* The caller's buffer: m_requestPtr and the calls that may set it *)

\* The worker has a pointer it writes through, or will.
Writing ==
    \/ worker \in {"decompress", "fill", "filling"}
    \/ worker \in {"get", "decode"} /\ ~ahead

\* It is the pointer of the request for as long as it does.
WriterIsWaitedFor ==
    /\ Writing => wreq.ptr # Null /\ reqPtr = wreq.ptr
    /\ worker \in {"get", "decode"} => ahead \in BOOLEAN
    /\ worker \in {"ahead", "append"} => ahead = TRUE

\* A request with a pointer belongs to the call in progress, or to a read that
\* BeginRead began and that FinishRead, CancelRead or Close has yet to end.
RequestIsAwaited ==
    /\ inProgress \in BOOLEAN
    /\ ee \in {"idle", "ok", "error"} => /\ reqPtr # Null => inProgress
                                         /\ inProgress => current # NoSector
    /\ ee \in {"lock", "copy", "inline", "store"} => reqPtr = Null
    /\ ee \in {"lock", "copy", "inline", "store", "notify"} =>
         /\ call.op \in {"begin", "sync"}
         /\ call.op = "begin" => inProgress /\ current # NoSector
         /\ call.op = "sync" => ~inProgress
    /\ ee = "notify" /\ call.op = "sync" /\ ~call.left => reqPtr = Null
    /\ ee \in {"finish", "lockwait", "check", "sleep"} /\ call.op = "sync" => ~inProgress
    /\ ee \in {"finish", "lockwait", "check", "sleep"}
         => call.op \in {"sync", "finish", "cancel", "close"}
    /\ ee = "finish" => call.op # "close"
    /\ call.op = "close" \/ ee \in Closing => ~inProgress

PInv == WriterIsWaitedFor /\ RequestIsAwaited

\* Nothing is requested and nothing taken.
LEMMA PInvInit == Init => PInv
<1> SUFFICES ASSUME Init PROVE PInv
  OBVIOUS
<1>1. ee = "idle" /\ worker = "start" /\ reqPtr = Null /\ inProgress = FALSE /\ call = NoCall
  BY DEF Init
<1> QED
  BY <1>1 DEF PInv, WriterIsWaitedFor, RequestIsAwaited, Writing, NoCall, Closing

\* The calls the drive begins; what it asks for it fetches first (Overlap).
LEMMA PInvChoice ==
    ASSUME Overlap = {}, DInv, PInv, EeChoice
    PROVE  PInv'
<1> USE DEF PInv, RequestIsAwaited, WriterIsWaitedFor, Writing, shared, reqVars, workerVars,
            body, isoVars, Enter, NoCall, Closing
<1>1. ASSUME NEW s \in Asked, BeginRead(s) PROVE PInv'
  <2>1. s # NoSector
    BY AskedAssumption DEF NoSector
  <2> QED
    BY <1>1, <2>1 DEF BeginRead
<1>2. ASSUME NEW s \in Asked, ReadSync(s) PROVE PInv'
  BY <1>2 DEF ReadSync
<1>3. CASE FinishRead3
  BY <1>3 DEF FinishRead3
<1>4. CASE CancelRead
  BY <1>4 DEF CancelRead
<1>5. CASE Close
  BY <1>5 DEF Close
<1> QED
  BY <1>1, <1>2, <1>3, <1>4, <1>5 DEF EeChoice

\* What follows from the EE thread's place in a call.
LEMMA PInvEe ==
    ASSUME DInv, PInv, EeStep
    PROVE  PInv'
<1> USE DEF DInv, Locals, CallIsRecord, PInv, RequestIsAwaited, WriterIsWaitedFor, Writing,
            shared, reqVars, workerVars, body, isoVars, NoCall, Answer, Closing
<1>1. CASE TryCachedRead
  BY <1>1 DEF TryCachedRead
<1>2. CASE CopyCached
  BY <1>2 DEF CopyCached
<1>3. CASE Inline
  BY <1>3 DEF Inline
<1>4. CASE StoreRequest
  BY <1>4 DEF StoreRequest
<1>5. CASE NotifyWorker
  BY <1>5 DEF NotifyWorker
<1>6. CASE Returned
  BY <1>6 DEF Returned
<1>7. CASE FinishLook
  BY <1>7 DEF FinishLook, Return
<1>8. CASE WaitLock
  BY <1>8 DEF WaitLock
<1>9. CASE WaitCheck
  BY <1>9 DEF WaitCheck, Over, Return
<1>10. CASE WaitSleep
  BY <1>10 DEF WaitSleep
<1>11. CASE Close2
  BY <1>11 DEF Close2
<1>12. CASE Quit
  BY <1>12 DEF Quit
<1>13. CASE Reopen
  BY <1>13 DEF Reopen
<1> QED
  BY <1>1, <1>2, <1>3, <1>4, <1>5, <1>6, <1>7, <1>8, <1>9, <1>10, <1>11, <1>12, <1>13
     DEF EeStep

\* The worker clears the pointer only when it is done with it.
LEMMA PInvWorker ==
    ASSUME DInv, PInv, WorkerStep
    PROVE  PInv'
<1> USE DEF PInv, RequestIsAwaited, WriterIsWaitedFor, Writing,
            shared, reqVars, workerVars, body, isoVars, eeVars, NoRequest, Closing
<1>1. ASSUME NEW i \in {0, 1}, GetFound(i) PROVE PInv'
  BY <1>1 DEF GetFound
<1>2. CASE WorkerLock
  BY <1>2 DEF WorkerLock, WGoto
<1>3. CASE WorkerSleep
  BY <1>3 DEF WorkerSleep, WGoto
<1>4. CASE WorkerWait
  BY <1>4 DEF WorkerWait, WGoto
<1>5. CASE WorkerExit
  BY <1>5 DEF WorkerExit, WGoto
<1>6. CASE WorkerTake
  BY <1>6 DEF WorkerTake, Load
<1>7. CASE WorkerDecompress
  BY <1>7 DEF WorkerDecompress
<1>8. CASE GetEvict
  BY <1>8 DEF GetEvict, WGoto
<1>9. CASE GetDecode
  BY <1>9 DEF GetDecode
<1>10. CASE Fill
  BY <1>10 DEF Fill, WGoto
<1>11. CASE Filled
  BY <1>11 DEF Filled, WGoto
<1>12. CASE Swap
  BY <1>12 DEF Swap
<1>13. CASE NotifyDone
  <2>1. worker' \in {"get", "end"} /\ ahead' = TRUE
    BY <1>13 DEF NotifyDone
  <2>2. UNCHANGED <<reqPtr, wreq, ee, call, current, inProgress>>
    BY <1>13 DEF NotifyDone
  <2> QED
    BY <2>1, <2>2
<1>14. CASE ReadAhead
  BY <1>14 DEF ReadAhead
<1>15. CASE Append1
  BY <1>15 DEF Append1
<1>16. CASE WorkerEnd
  BY <1>16 DEF WorkerEnd, WGoto, EndOfBody
<1> QED
  BY <1>1, <1>2, <1>3, <1>4, <1>5, <1>6, <1>7, <1>8, <1>9, <1>10, <1>11,
     <1>12, <1>13, <1>14, <1>15, <1>16
     DEF WorkerStep

\* Every step keeps PInv if the drive fetches what it asks for.
LEMMA PInvStep == Overlap = {} /\ DInv /\ PInv /\ [Next]_vars => PInv'
<1> SUFFICES ASSUME Overlap = {}, DInv, PInv, [Next]_vars PROVE PInv'
  OBVIOUS
<1>1. CASE UNCHANGED vars
  <2>1. UNCHANGED <<reqPtr, worker, wreq, ahead, ee, call, current, inProgress>>
    BY <1>1 DEF vars, shared, reqVars, workerVars, body, isoVars, eeVars
  <2> QED
    BY <2>1 DEF PInv, RequestIsAwaited, WriterIsWaitedFor, Writing, Closing
<1> QED
  BY <1>1, PInvChoice, PInvEe, PInvWorker DEF Next

\* ClearedMeansNotWritten (ThreadedFileReader.h:66): once m_requestPtr is null,
\* or the reader closed, nobody writes into the buffer a caller gave, provided
\* that the drive fetches a sector before it asks for another.
THEOREM ClearedMeansNotWrittenCorrect ==
    ASSUME Overlap = {}
    PROVE  Spec => []ClearedMeansNotWritten
<1>1. DInv /\ PInv => ClearedMeansNotWritten
  BY DEF DInv, PInv, Locals, RunningMeansBusy, WriterIsWaitedFor, Writing, ClearedMeansNotWritten,
         Busy, WorkerStates, Closing
<1>2. DInv /\ PInv /\ [Next]_vars => PInv'
  BY PInvStep
<1> QED
  BY <1>1, <1>2, DInvInit, DInvStep, PInvInit, PTL DEF Spec

-----------------------------------------------------------------------------
(* The sector a caller is given *)

Multiple(x, c) == \E q \in Nat : x = q * c

\* A sector's chunk begins at a multiple of the chunk's size and contains it.
LEMMA ChunkBegins ==
    ASSUME NEW c \in Nat \ {0}, NEW s \in Nat
    PROVE  /\ (s \div c) * c \in Nat /\ Multiple((s \div c) * c, c)
           /\ (s \div c) * c <= s /\ s < (s \div c) * c + c
<1>1. s \div c \in Nat
  OBVIOUS
<1>2. Multiple((s \div c) * c, c)
  BY <1>1 DEF Multiple
<1> QED
  BY <1>1, <1>2

\* Sums of multiples, and the smallest ones.
LEMMA MultipleOfSum ==
    ASSUME NEW c \in Nat \ {0}, NEW x \in Nat, NEW y \in Nat, Multiple(x, c), Multiple(y, c)
    PROVE  Multiple(x + y, c)
<1>1. PICK p \in Nat : x = p * c
  BY DEF Multiple
<1>2. PICK q \in Nat : y = q * c
  BY DEF Multiple
<1>3. p + q \in Nat /\ x + y = (p + q) * c
  BY <1>1, <1>2
<1> QED
  BY <1>3 DEF Multiple

LEMMA LeastMultiples ==
    ASSUME NEW c \in Nat \ {0}
    PROVE  Multiple(0, c) /\ Multiple(c, c)
<1>1. 0 = 0 * c /\ c = 1 * c
  OBVIOUS
<1> QED
  BY <1>1 DEF Multiple

\* A multiple below another is a whole step below it.
LEMMA MultipleBelow ==
    ASSUME NEW c \in Nat \ {0}, NEW a \in Nat, NEW b \in Nat, a * c < b * c
    PROVE  a * c + c <= b * c
<1>1. CASE a < b
  <2>1. PICK k \in Nat : b = a + 1 + k
    BY <1>1
  <2>2. k * c >= 0
    OBVIOUS
  <2>3. b * c = a * c + c + k * c
    BY <2>1
  <2> QED
    BY <2>2, <2>3
<1>2. CASE b <= a
  <2>1. PICK k \in Nat : a = b + k
    BY <1>2
  <2>2. k * c >= 0
    OBVIOUS
  <2>3. a * c = b * c + k * c
    BY <2>1
  <2> QED
    BY <2>2, <2>3
<1> QED
  BY <1>1, <1>2

\* A block buffer of whole chunks that has the beginning of a sector's chunk
\* has the sector.
LEMMA WholeChunks ==
    ASSUME NEW c \in Nat \ {0}, NEW b \in [off : Nat, size : Nat],
           Multiple(b.off, c), Multiple(b.size, c),
           NEW s \in Nat, Covers(b, (s \div c) * c)
    PROVE  Covers(b, s)
<1>1. s \div c \in Nat /\ (s \div c) * c <= s /\ s < (s \div c) * c + c
  OBVIOUS
<1>2. PICK p \in Nat : b.off + b.size = p * c
  BY MultipleOfSum DEF Multiple
<1>3. (s \div c) * c + c <= p * c
  BY <1>1, <1>2, MultipleBelow DEF Covers
<1> QED
  BY <1>1, <1>2, <1>3 DEF Covers

\* The block buffers hold whole chunks, and what the worker looks for is one's
\* beginning; the buffer it decodes into is empty meanwhile.
Blocks ==
    /\ chunk \in Nat \ {0}
    /\ bufs \in [{0, 1} -> [off : Nat, size : Nat]]
    /\ nextBuffer \in {0, 1} /\ cur \in {0, 1}
    /\ \A i \in {0, 1} : Multiple(bufs[i].off, chunk) /\ Multiple(bufs[i].size, chunk)
    /\ want \in Nat /\ Multiple(want, chunk)
    /\ worker \notin Busy => want = 0
    /\ worker = "decode" => bufs[nextBuffer].size = 0
    /\ ee \in Closing \ {"close2"} => bufs = [i \in {0, 1} |-> Empty]

\* What the worker copies from, and what TryCachedRead does.
SourceIsThere ==
    /\ ee = "copy" => call.hit \in {0, 1} /\ Covers(bufs[call.hit], call.sector)
    /\ worker \in {"get", "decode"} /\ ~ahead => want = ChunkOf(wreq.sector)
    /\ worker \in {"fill", "filling"} => Direct \/ Covers(bufs[cur], wreq.sector)

\* The buffer and the sector of a call.
CallData ==
    /\ reqSector \in Nat /\ call.sector \in Nat /\ wreq.sector \in Nat
    /\ reqPtr \in {Null, "async", "sync"} /\ amtRead \in BOOLEAN
    /\ dest \in [{"async", "sync"} -> Int]
    /\ ee = "idle" => call.op = "none"
    /\ ee = "inline" => call.op = "sync"
    /\ call.op = "sync" => call.buf = "sync"
    /\ call.op \in {"begin", "finish"} => call.buf = "async"
    /\ call.op = "begin" => call.sector = current
    /\ ee \in {"finish", "lockwait", "check", "sleep"} /\ call.op = "finish"
         => inProgress /\ call.sector = current
    /\ ee \in {"ok", "error"} => ~inProgress /\ call.op \in {"sync", "finish"}
    /\ current = NoSector \/ current \in Nat
    /\ current # NoSector => current = readLsn
    /\ call.op = "close" => readLsn = NoSector

\* Whether TryCachedRead left anything to read.
WhatIsLeft ==
    /\ call.left \in BOOLEAN
    /\ ee \in {"lock", "copy"} => ~call.left
    /\ ee = "inline" => ~amtRead
    /\ ee = "store" /\ call.left => ~amtRead
    /\ ee = "notify" /\ ~call.left => reqPtr = Null
    /\ ee \in {"store", "notify"} /\ ~call.left => dest[call.buf] = call.sector

Delivering == worker = "swap" /\ wreq.ptr # Null
Starting == ee \in {"lock", "copy", "inline", "store"}

\* A request names the sector its caller waits for, and so does the worker's
\* copy of it; until the sector is there m_amtRead is 0.
RequestIsForCaller ==
    /\ Writing \/ Delivering => reqPtr = wreq.ptr /\ wreq.sector = reqSector
    /\ reqPtr = "sync" => /\ call.op = "sync" /\ reqSector = call.sector
                          /\ ee \in {"notify", "finish", "lockwait", "check", "sleep"}
    /\ reqPtr = "async" /\ call.op # "close" => inProgress /\ reqSector = current
    /\ reqPtr # Null /\ ~Delivering => ~amtRead
    /\ Delivering /\ amtRead => dest[wreq.ptr] = wreq.sector

\* With the request gone and m_amtRead above 0 the sector is in the buffer.
AnswerIsThere ==
    /\ inProgress /\ reqPtr = Null /\ amtRead /\ ~Starting => dest["async"] = current
    /\ /\ ee \in {"notify", "finish", "lockwait", "check", "sleep"}
       /\ call.op = "sync" /\ reqPtr = Null /\ amtRead
       => dest["sync"] = call.sector
    /\ ~inProgress /\ readLsn # NoSector => dest["async"] = readLsn
    /\ SectorIsTheOneAskedFor

SInv == Blocks /\ SourceIsThere /\ CallData /\ WhatIsLeft /\ RequestIsForCaller /\ AnswerIsThere

\* What an answered call leaves of itself.
Ends(a) ==
    \/ /\ call.op \in {"begin", "cancel"} /\ ee' = "idle"
       /\ call'.op = "none" /\ call'.buf = Null /\ call'.sector = 0 /\ call'.left = FALSE
    \/ /\ call.op \notin {"begin", "cancel"} /\ ee' = a
       /\ call'.op = call.op /\ call'.buf = call.buf /\ call'.sector = call.sector
       /\ call'.left = FALSE

\* FinishRead and CancelRead return, with the request gone.
Returns ==
    /\ ee \in {"finish", "check"} /\ call.op # "close" /\ reqPtr = Null
    /\ Ends(IF amtRead THEN "ok" ELSE "error")
    /\ call.op = "sync" => UNCHANGED isoVars
    /\ call.op # "sync" => /\ inProgress' = FALSE /\ current' = NoSector
                           /\ readLsn' \in {NoSector, readLsn}
                           /\ call.op # "finish" \/ ~amtRead => readLsn' = NoSector

\* Or they go on waiting, as CancelAndWaitUntilStopped does until it closes.
Waits ==
    /\ \/ ee = "finish" /\ ee' = "lockwait"
       \/ ee = "check" /\ ee' = "sleep"
       \/ ee = "check" /\ ee' = "close2" /\ call.op = "close"
    /\ UNCHANGED <<call, isoVars>>

LEMMA AnswerLeaves ==
    ASSUME DInv, NEW a, Answer(a)
    PROVE  Ends(a)
<1>1. CASE call.op \in {"begin", "cancel"}
  BY <1>1 DEF Answer, Ends, NoCall
<1>2. CASE call.op \notin {"begin", "cancel"}
  <2>1. call'.op = call.op /\ call'.buf = call.buf /\ call'.sector = call.sector
        /\ call'.left = FALSE
    BY <1>2 DEF Answer, DInv, Locals, CallIsRecord
  <2> QED
    BY <1>2, <2>1 DEF Answer, Ends
<1> QED
  BY <1>1, <1>2

\* FinishRead, CancelRead and CancelAndWaitUntilStopped return or wait.
LEMMA ReturnLeaves ==
    ASSUME DInv, PInv, FinishLook \/ WaitCheck
    PROVE  (Returns \/ Waits) /\ UNCHANGED <<shared, cacheVars, io, workerVars>>
<1>1. ASSUME Return, ee \in {"finish", "check"}, call.op # "close", reqPtr = Null
      PROVE  Returns
  <2>1. Ends(IF amtRead THEN "ok" ELSE "error")
    BY <1>1, AnswerLeaves DEF Return
  <2> QED
    BY <1>1, <2>1 DEF Return, Returns, isoVars
<1>2. CASE FinishLook
  <2>1. call.op # "close"
    BY <1>2 DEF FinishLook, PInv, RequestIsAwaited
  <2> QED
    BY <1>1, <1>2, <2>1 DEF FinishLook, Waits
<1>3. CASE WaitCheck
  BY <1>1, <1>3 DEF WaitCheck, Over, Waits, lockVars
<1> QED
  BY <1>2, <1>3

\* The answer a returning call gives is the one the worker left.
LEMMA PartsReturn ==
    ASSUME PInv, SInv, Returns, UNCHANGED <<shared, cacheVars, io, workerVars>>
    PROVE  CallData' /\ WhatIsLeft' /\ RequestIsForCaller' /\ AnswerIsThere'
<1> USE DEF SInv, Returns, Ends, shared, reqVars, cacheVars, io, workerVars, body, isoVars
<1>1. call.op \in {"sync", "finish", "cancel"}
  BY DEF PInv, RequestIsAwaited
<1>2. ee' \in {"idle", "ok", "error"} /\ inProgress' = FALSE
  BY <1>1 DEF PInv, RequestIsAwaited
<1>3. CallData'
  BY <1>1, <1>2 DEF CallData
<1>4. WhatIsLeft'
  BY <1>1, <1>2 DEF WhatIsLeft, CallData
<1>5. RequestIsForCaller'
  <2>1. reqPtr' = Null /\ UNCHANGED <<reqSector, worker, wreq, ahead, amtRead, dest>>
    OBVIOUS
  <2> HIDE DEF Returns, Ends
  <2> QED
    BY <2>1 DEF RequestIsForCaller, Writing, Delivering, Null
<1>6. AnswerIsThere'
  <2>1. CASE call.op = "sync"
    <3>1. amtRead => dest["sync"] = call.sector /\ call.buf = "sync"
      BY <2>1 DEF AnswerIsThere, CallData
    <3>2. ~inProgress
      BY <2>1 DEF PInv, RequestIsAwaited
    <3> QED
      BY <1>2, <2>1, <3>1, <3>2 DEF AnswerIsThere, SectorIsTheOneAskedFor, Starting
  <2>2. CASE call.op = "finish"
    <3>1. inProgress /\ call.sector = current /\ call.buf = "async" /\ current = readLsn
      BY <2>2 DEF CallData, NoSector
    <3>2. amtRead => dest["async"] = current
      BY <3>1 DEF AnswerIsThere, Starting
    <3> QED
      BY <1>2, <2>2, <3>1, <3>2 DEF AnswerIsThere, SectorIsTheOneAskedFor, Starting
  <2>3. CASE call.op = "cancel"
    BY <1>2, <2>3 DEF AnswerIsThere, SectorIsTheOneAskedFor, Starting
  <2> QED
    BY <1>1, <2>1, <2>2, <2>3
<1> QED
  BY <1>3, <1>4, <1>5, <1>6

\* Waiting changes nothing.
LEMMA PartsWait ==
    ASSUME PInv, SInv, Waits, UNCHANGED <<shared, cacheVars, io, workerVars>>
    PROVE  CallData' /\ WhatIsLeft' /\ RequestIsForCaller' /\ AnswerIsThere'
<1> USE DEF SInv, Waits, shared, reqVars, cacheVars, io, workerVars, body, isoVars
<1>3. CallData'
  BY DEF CallData
<1>4. WhatIsLeft'
  BY DEF WhatIsLeft
<1>5. RequestIsForCaller'
  BY DEF RequestIsForCaller, Writing, Delivering
<1>6. AnswerIsThere'
  BY DEF AnswerIsThere, SectorIsTheOneAskedFor, Starting
<1> QED
  BY <1>3, <1>4, <1>5, <1>6

\* A copy out of the block buffers, which nobody else can be writing.
LEMMA PartsCopy ==
    ASSUME DInv, PInv, SInv, CopyCached
    PROVE  CallData' /\ WhatIsLeft' /\ RequestIsForCaller' /\ AnswerIsThere'
<1>1. /\ UNCHANGED <<reqPtr, reqSector, worker, wreq, ahead, isoVars>>
      /\ Ends("ok") \/ (ee' = "store" /\ UNCHANGED call)
      /\ ee = "copy" /\ amtRead' = TRUE
  <2>1. Answer("ok") \/ (ee' = "store" /\ UNCHANGED call)
    BY DEF CopyCached
  <2>2. Ends("ok") \/ (ee' = "store" /\ UNCHANGED call)
    BY <2>1, AnswerLeaves
  <2> QED
    BY <2>2 DEF CopyCached, shared, reqVars, workerVars, body
<1>2. /\ call.op \in {"begin", "sync"} /\ call.buf \in {"async", "sync"}
      /\ reqPtr = Null /\ call.sector \in Nat
      /\ call.op = "sync" => ~inProgress /\ call.buf = "sync"
      /\ call.op = "begin" => inProgress /\ call.buf = "async" /\ call.sector = current
  BY <1>1 DEF PInv, RequestIsAwaited, SInv, CallData
<1>3. dest' = [dest EXCEPT ![call.buf] = call.sector]
  BY <1>1 DEF CopyCached, SInv, SourceIsThere
<1>4. ~Writing /\ ~Delivering /\ ~Writing' /\ ~Delivering'
  BY <1>1, <1>2 DEF PInv, WriterIsWaitedFor, SInv, RequestIsForCaller, Writing, Delivering
<1>5. /\ dest' \in [{"async", "sync"} -> Int] /\ dest'[call.buf] = call.sector
      /\ \A b \in {"async", "sync"} : b # call.buf => dest'[b] = dest[b]
  BY <1>2, <1>3 DEF SInv, CallData
<1> USE DEF SInv, Ends, isoVars
<1>6. CallData'
  BY <1>1, <1>2, <1>5 DEF CallData
<1>7. WhatIsLeft'
  BY <1>1, <1>2, <1>5 DEF WhatIsLeft
<1>8. RequestIsForCaller'
  BY <1>1, <1>2, <1>4 DEF RequestIsForCaller
<1>9. AnswerIsThere'
  BY <1>1, <1>2, <1>5 DEF AnswerIsThere, SectorIsTheOneAskedFor, Starting
<1> QED
  BY <1>6, <1>7, <1>8, <1>9

\* The caller that has nothing left to read goes, ReadSync with something left waits.
LEMMA PartsNotify ==
    ASSUME DInv, PInv, SInv, NotifyWorker
    PROVE  CallData' /\ WhatIsLeft' /\ RequestIsForCaller' /\ AnswerIsThere'
<1>1. /\ UNCHANGED <<reqPtr, reqSector, worker, wreq, ahead, isoVars, dest, amtRead>>
      /\ \/ Ends("ok") /\ ~(call.op = "sync" /\ call.left)
         \/ ee' = "finish" /\ UNCHANGED call /\ call.op = "sync" /\ call.left
      /\ ee = "notify"
  BY AnswerLeaves DEF NotifyWorker, shared, reqVars, workerVars, body, io
<1>2. /\ call.op \in {"begin", "sync"}
      /\ call.op = "sync" => ~inProgress /\ call.buf = "sync"
      /\ call.op = "sync" /\ ~call.left => dest["sync"] = call.sector /\ reqPtr = Null
      /\ call.op = "begin" => inProgress
  BY <1>1 DEF PInv, RequestIsAwaited, SInv, CallData, WhatIsLeft
<1> USE DEF SInv, Ends, isoVars
<1>6. CallData'
  BY <1>1, <1>2 DEF CallData
<1>7. WhatIsLeft'
  BY <1>1, <1>2 DEF WhatIsLeft
<1>8. RequestIsForCaller'
  BY <1>1, <1>2 DEF RequestIsForCaller, Writing, Delivering, WhatIsLeft, Null
<1>9. AnswerIsThere'
  BY <1>1, <1>2 DEF AnswerIsThere, SectorIsTheOneAskedFor, Starting
<1> QED
  BY <1>6, <1>7, <1>8, <1>9

\* BeginRead finds no request, since the drive has fetched its last sector.
LEMMA PartsBegin ==
    ASSUME Overlap = {}, DInv, PInv, SInv, NEW s \in Asked, BeginRead(s)
    PROVE  CallData' /\ WhatIsLeft' /\ RequestIsForCaller' /\ AnswerIsThere'
<1>1. /\ s \in Nat /\ s # NoSector
      /\ current = NoSector /\ current' = s /\ ~inProgress /\ reqPtr = Null /\ ee = "idle"
      /\ UNCHANGED <<reqPtr, reqSector, worker, wreq, ahead, dest, amtRead>>
  BY AskedAssumption DEF BeginRead, NoSector, PInv, RequestIsAwaited, shared, reqVars, io,
     workerVars, body
<1> USE DEF SInv
<1>2. CASE s = readLsn
  <2>1. UNCHANGED <<ee, call, readLsn, inProgress>>
    BY <1>2 DEF BeginRead
  <2>3. CallData'
    BY <1>1, <1>2, <2>1 DEF CallData
  <2>4. WhatIsLeft'
    BY <1>1, <2>1 DEF WhatIsLeft
  <2>5. RequestIsForCaller'
    BY <1>1, <2>1 DEF RequestIsForCaller, Writing, Delivering, Null
  <2>6. AnswerIsThere'
    BY <1>1, <1>2, <2>1 DEF AnswerIsThere, SectorIsTheOneAskedFor, Starting
  <2> QED
    BY <2>3, <2>4, <2>5, <2>6
<1>3. CASE s # readLsn
  <2>1. /\ ee' = "lock" /\ readLsn' = s /\ inProgress' = TRUE
        /\ call'.op = "begin" /\ call'.buf = "async" /\ call'.sector = s /\ call'.left = FALSE
    BY <1>3 DEF BeginRead, Enter, NoCall
  <2>3. CallData'
    BY <1>1, <2>1 DEF CallData
  <2>4. WhatIsLeft'
    BY <1>1, <2>1 DEF WhatIsLeft
  <2>5. RequestIsForCaller'
    BY <1>1, <2>1 DEF RequestIsForCaller, Writing, Delivering, Null
  <2>6. AnswerIsThere'
    BY <1>1, <2>1 DEF AnswerIsThere, SectorIsTheOneAskedFor, Starting
  <2> QED
    BY <2>3, <2>4, <2>5, <2>6
<1> QED
  BY <1>2, <1>3

\* TryCachedRead starts over with m_amtRead at 0.
LEMMA PartsTry ==
    ASSUME DInv, PInv, SInv, TryCachedRead
    PROVE  CallData' /\ WhatIsLeft' /\ RequestIsForCaller' /\ AnswerIsThere'
<1>1. /\ UNCHANGED <<reqPtr, reqSector, worker, wreq, ahead, isoVars>>
      /\ ee = "lock" /\ amtRead' = FALSE /\ reqPtr = Null
      /\ call'.op = call.op /\ call'.buf = call.buf /\ call'.sector = call.sector
  BY DEF TryCachedRead, shared, reqVars, workerVars, body, DInv, Locals, CallIsRecord, PInv,
     RequestIsAwaited
<1>2. \/ ee' = "copy" /\ call'.left = call.left /\ dest' = [dest EXCEPT ![call.buf] = NoSector]
      \/ /\ ee' = "store" \/ (ee' = "inline" /\ call.op = "sync")
         /\ call'.left = TRUE /\ dest' = dest
  BY DEF TryCachedRead, DInv, Locals, CallIsRecord
<1>3. /\ call.op \in {"begin", "sync"} /\ call.buf \in {"async", "sync"}
      /\ call.op = "sync" => ~inProgress /\ call.buf = "sync"
      /\ call.op = "begin" => inProgress /\ call.buf = "async"
  BY <1>1 DEF PInv, RequestIsAwaited, SInv, CallData
<1>4. dest' \in [{"async", "sync"} -> Int]
      /\ \A b \in {"async", "sync"} : b # call.buf => dest'[b] = dest[b]
  BY <1>2, <1>3 DEF SInv, CallData, NoSector
<1> USE DEF SInv, isoVars
<1>5. CallData'
  BY <1>1, <1>2, <1>3, <1>4 DEF CallData
<1>6. WhatIsLeft'
  BY <1>1, <1>2 DEF WhatIsLeft
<1>7. RequestIsForCaller'
  BY <1>1, <1>2 DEF RequestIsForCaller, Writing, Delivering, Null
<1>8. AnswerIsThere'
  BY <1>1, <1>2, <1>3, <1>4 DEF AnswerIsThere, SectorIsTheOneAskedFor, Starting
<1> QED
  BY <1>5, <1>6, <1>7, <1>8

\* FinishRead3 hands out m_readbuffer, or waits for it.
LEMMA PartsFetch ==
    ASSUME DInv, PInv, SInv, FinishRead3
    PROVE  CallData' /\ WhatIsLeft' /\ RequestIsForCaller' /\ AnswerIsThere'
<1>1. /\ UNCHANGED <<reqPtr, reqSector, worker, wreq, ahead, dest, amtRead, readLsn, inProgress>>
      /\ ee = "idle" /\ current # NoSector /\ inProgress \in BOOLEAN
      /\ reqPtr # Null => inProgress
      /\ call'.op = "finish" /\ call'.buf = "async" /\ call'.sector = current /\ call'.left = FALSE
  BY DEF FinishRead3, Enter, NoCall, PInv, RequestIsAwaited, shared, reqVars, io, workerVars, body
<1>2. \/ inProgress /\ ee' = "finish" /\ current' = current
      \/ ~inProgress /\ ee' = "ok" /\ current' = NoSector
  BY <1>1 DEF FinishRead3, Enter
<1>3. current = readLsn /\ current \in Nat /\ call.op = "none"
  BY <1>1 DEF SInv, CallData
<1> USE DEF SInv
<1>5. CallData'
  BY <1>1, <1>2, <1>3 DEF CallData
<1>6. WhatIsLeft'
  BY <1>1, <1>2 DEF WhatIsLeft
<1>7. RequestIsForCaller'
  BY <1>1, <1>2, <1>3 DEF RequestIsForCaller, Writing, Delivering, Null
<1>8. AnswerIsThere'
  BY <1>1, <1>2, <1>3 DEF AnswerIsThere, SectorIsTheOneAskedFor, Starting
<1> QED
  BY <1>5, <1>6, <1>7, <1>8

\* The worker begins to write only into the buffer that is waited for.
LEMMA PartsFill ==
    ASSUME DInv, PInv, SInv, Fill
    PROVE  CallData' /\ WhatIsLeft' /\ RequestIsForCaller' /\ AnswerIsThere'
<1>1. /\ UNCHANGED <<reqPtr, reqSector, wreq, ahead, amtRead, ee, call, isoVars>>
      /\ worker = "fill" /\ worker' = "filling" /\ dest' = [dest EXCEPT ![wreq.ptr] = NoSector]
  BY DEF Fill, WGoto, shared, reqVars, body, eeVars
<1> USE DEF SInv, isoVars
<1>2. reqPtr = wreq.ptr /\ wreq.ptr \in {"async", "sync"} /\ ~amtRead /\ wreq.sector = reqSector
  BY <1>1 DEF PInv, WriterIsWaitedFor, Writing, CallData, RequestIsForCaller, Delivering
<1>3. dest' \in [{"async", "sync"} -> Int]
      /\ \A b \in {"async", "sync"} : b # wreq.ptr => dest'[b] = dest[b]
  BY <1>1, <1>2 DEF CallData, NoSector
<1>4. CallData'
  BY <1>1, <1>3 DEF CallData
<1>5. WhatIsLeft'
  BY <1>1, <1>2, <1>3 DEF WhatIsLeft, PInv, RequestIsAwaited, Null
<1>6. RequestIsForCaller'
  BY <1>1, <1>2 DEF RequestIsForCaller, Writing, Delivering, Null
<1>7. AnswerIsThere'
  <2>1. reqPtr # Null
    BY <1>2 DEF Null
  <2>2. ~inProgress /\ readLsn # NoSector => wreq.ptr # "async"
    BY <1>2 DEF RequestIsForCaller, CallData
  <2>3. ee = "ok" => call.buf \in {"async", "sync"} /\ wreq.ptr # call.buf
    BY <1>2 DEF RequestIsForCaller, CallData
  <2> QED
    BY <1>1, <1>3, <2>1, <2>2, <2>3 DEF AnswerIsThere, SectorIsTheOneAskedFor, Starting
<1> QED
  BY <1>4, <1>5, <1>6, <1>7

\* It ends with the sector in it, or with m_amtRead still 0.
LEMMA PartsFilled ==
    ASSUME DInv, PInv, SInv, Filled
    PROVE  CallData' /\ WhatIsLeft' /\ RequestIsForCaller' /\ AnswerIsThere'
<1>1. /\ UNCHANGED <<reqPtr, reqSector, wreq, ahead, ee, call, isoVars>>
      /\ worker = "filling" /\ worker' = "swap"
  BY DEF Filled, WGoto, shared, reqVars, eeVars
<1> USE DEF SInv, isoVars
<1>2. /\ reqPtr = wreq.ptr /\ wreq.ptr \in {"async", "sync"} /\ wreq.sector = reqSector
      /\ ~amtRead /\ wreq.sector \in Nat
  BY <1>1 DEF PInv, WriterIsWaitedFor, Writing, CallData, RequestIsForCaller, Delivering
<1>3. \/ amtRead' = TRUE /\ dest' = [dest EXCEPT ![wreq.ptr] = wreq.sector]
      \/ amtRead' = FALSE /\ dest' = dest
  BY <1>1, <1>2 DEF Filled, SourceIsThere
<1>4. /\ dest' \in [{"async", "sync"} -> Int] /\ amtRead' \in BOOLEAN
      /\ amtRead' => dest'[wreq.ptr] = wreq.sector
      /\ \A b \in {"async", "sync"} : b # wreq.ptr => dest'[b] = dest[b]
  <2>1. CASE amtRead' = TRUE /\ dest' = [dest EXCEPT ![wreq.ptr] = wreq.sector]
    BY <1>2, <2>1 DEF CallData
  <2>2. CASE amtRead' = FALSE /\ dest' = dest
    BY <2>2 DEF CallData
  <2> QED
    BY <1>3, <2>1, <2>2
<1>5. CallData'
  BY <1>1, <1>4 DEF CallData
<1>6. WhatIsLeft'
  BY <1>1, <1>2, <1>4 DEF WhatIsLeft, PInv, RequestIsAwaited, Null
<1>7. RequestIsForCaller'
  BY <1>1, <1>2, <1>4 DEF RequestIsForCaller, Writing, Delivering, Null
<1>8. AnswerIsThere'
  <2>1. reqPtr # Null
    BY <1>2 DEF Null
  <2>2. ~inProgress /\ readLsn # NoSector => wreq.ptr # "async"
    BY <1>2 DEF RequestIsForCaller, CallData
  <2>3. ee = "ok" => call.buf \in {"async", "sync"} /\ wreq.ptr # call.buf
    BY <1>2 DEF RequestIsForCaller, CallData
  <2> QED
    BY <1>1, <1>4, <2>1, <2>2, <2>3 DEF AnswerIsThere, SectorIsTheOneAskedFor, Starting
<1> QED
  BY <1>5, <1>6, <1>7, <1>8

\* A request whose pointer differs is not the one that was delivered.
LEMMA PartsSwap ==
    ASSUME PInv, SInv, Swap
    PROVE  RequestIsForCaller'
<1>1. /\ UNCHANGED <<reqSector, wreq, ahead, amtRead, dest, ee, call, current, inProgress>>
      /\ worker = "swap"
      /\ \/ reqPtr = wreq.ptr /\ reqPtr' = Null /\ worker' = "notify"
         \/ reqPtr # wreq.ptr /\ reqPtr' = reqPtr /\ worker' = "retry"
  BY DEF Swap, io, body, eeVars, isoVars
<1>2. reqPtr # wreq.ptr => ~Delivering
  BY DEF SInv, RequestIsForCaller
<1> QED
  BY <1>1, <1>2 DEF SInv, RequestIsForCaller, Writing, Delivering, Null

\* The next file's reader has no request.
LEMMA PartsReopen ==
    ASSUME Reopen
    PROVE  RequestIsForCaller'
<1>1. reqPtr' = Null /\ worker' = "start"
  BY DEF Reopen
<1> QED
  BY <1>1 DEF RequestIsForCaller, Writing, Delivering, Null

\* The EE thread's own decoding leaves the sector, or all of it still to read.
LEMMA PartsInline ==
    ASSUME DInv, PInv, SInv, Inline
    PROVE  WhatIsLeft'
<1>1. ee' = "store" /\ call'.buf = call.buf /\ call'.sector = call.sector
  BY DEF Inline, DInv, Locals, CallIsRecord
<1>2. \/ call'.left = FALSE /\ dest' = [dest EXCEPT !["sync"] = call.sector]
      \/ call'.left = TRUE /\ ~amtRead'
  <2>1. ~amtRead
    BY DEF Inline, SInv, WhatIsLeft
  <2> QED
    BY <2>1 DEF Inline, DInv, Locals, CallIsRecord, SInv, CallData
<1>3. call.buf = "sync" /\ dest \in [{"async", "sync"} -> Int]
  BY DEF Inline, SInv, CallData
<1> QED
  BY <1>1, <1>2, <1>3 DEF WhatIsLeft

\* The worker, and the EE thread while the worker waits, keep the block buffers
\* in whole chunks.
LEMMA BlocksStep == Overlap = {} /\ DInv /\ PInv /\ SInv /\ [Next]_vars => Blocks'
<1> SUFFICES ASSUME Overlap = {}, DInv, PInv, SInv, [Next]_vars PROVE Blocks'
  OBVIOUS
<1> USE DEF DInv, RunningMeansBusy, Locals, SInv, Blocks, CallData, Busy, WorkerStates, Closing, Empty, shared, reqVars, cacheVars, io, workerVars, body, isoVars, eeVars
<1>1. ASSUME NEW s \in Asked, BeginRead(s) PROVE Blocks'
  BY <1>1, AskedAssumption DEF BeginRead, Enter, NoCall
<1>2. ASSUME NEW s \in Asked, ReadSync(s) PROVE Blocks'
  BY <1>2, AskedAssumption DEF ReadSync, Enter, NoCall
<1>3. ASSUME NEW i \in {0, 1}, GetFound(i) PROVE Blocks'
  BY <1>3 DEF GetFound
<1>4. CASE TryCachedRead
  BY <1>4 DEF TryCachedRead, Lock, MayInline, Hit, IsCached
<1>5. CASE CopyCached
  BY <1>5 DEF CopyCached, Answer, NoCall
<1>6. CASE Inline
  <2>1. CASE UNCHANGED cacheVars
    BY <1>6, <2>1 DEF Inline
  <2>2. CASE ~UNCHANGED cacheVars
    <3>1. PICK b \in {Empty, [off |-> ChunkOf(call.sector), size |-> chunk]} :
            bufs' = [bufs EXCEPT ![nextBuffer] = b]
      BY <1>6, <2>2 DEF Inline
    <3>2. b \in [off : Nat, size : Nat] /\ Multiple(b.off, chunk) /\ Multiple(b.size, chunk)
      <4>1. ChunkOf(call.sector) \in Nat /\ Multiple(ChunkOf(call.sector), chunk)
        BY ChunkBegins DEF ChunkOf
      <4>2. Multiple(0, chunk) /\ Multiple(chunk, chunk)
        BY LeastMultiples
      <4> QED
        BY <3>1, <4>1, <4>2
    <3>3. nextBuffer' \in {0, 1} /\ worker # "decode" /\ ee' = "store"
      BY <1>6, <2>2 DEF Inline
    <3> QED
      BY <1>6, <3>1, <3>2, <3>3 DEF Inline
  <2> QED
    BY <2>1, <2>2
<1>7. CASE StoreRequest
  BY <1>7 DEF StoreRequest
<1>8. CASE NotifyWorker
  BY <1>8 DEF NotifyWorker, Answer, NoCall
<1>9. CASE Returned
  BY <1>9 DEF Returned, NoCall
<1>10. CASE FinishLook
  BY <1>10 DEF FinishLook, Return, Answer, NoCall
<1>11. CASE WaitLock
  BY <1>11 DEF WaitLock
<1>12. CASE WaitCheck
  BY <1>12 DEF WaitCheck, Over, Return, Answer, NoCall
<1>13. CASE WaitSleep
  BY <1>13 DEF WaitSleep
<1>14. CASE Close2
  BY <1>14 DEF Close2
<1>15. CASE Quit
  BY <1>15 DEF Quit
<1>16. CASE Reopen
  <2>1. chunk' \in Nat \ {0}
    BY <1>16, ChunkAssumption, CapAssumption DEF Reopen
  <2>2. want' = 0 /\ bufs' = [i \in {0, 1} |-> Empty] /\ worker' = "start" /\ ee' = "idle"
    BY <1>16 DEF Reopen
  <2>3. Multiple(0, chunk')
    BY <2>1, LeastMultiples
  <2> QED
    BY <1>16, <2>1, <2>2, <2>3 DEF Reopen
<1>17. CASE FinishRead3
  BY <1>17 DEF FinishRead3, Enter, NoCall
<1>18. CASE CancelRead
  BY <1>18 DEF CancelRead, Enter, NoCall
<1>19. CASE Close
  BY <1>19 DEF Close, Enter, NoCall
<1>20. CASE WorkerLock
  BY <1>20 DEF WorkerLock, WGoto
<1>21. CASE WorkerSleep
  BY <1>21 DEF WorkerSleep, WGoto
<1>22. CASE WorkerWait
  BY <1>22 DEF WorkerWait, WGoto
<1>23. CASE WorkerExit
  BY <1>23 DEF WorkerExit, WGoto
<1>24. CASE WorkerTake
  BY <1>24 DEF WorkerTake, Load
<1>25. CASE WorkerDecompress
  <2>1. want' \in Nat /\ Multiple(want', chunk)
    BY <1>25, ChunkBegins DEF WorkerDecompress, ChunkOf
  <2> QED
    BY <1>25, <2>1 DEF WorkerDecompress
<1>26. CASE GetEvict
  <2>1. Multiple(0, chunk)
    BY LeastMultiples
  <2>2. bufs' = [bufs EXCEPT ![nextBuffer] = [off |-> 0, size |-> 0]]
    BY <1>26 DEF GetEvict
  <2>3. ee \notin Closing
    BY <1>26 DEF GetEvict, WGoto
  <2> QED
    BY <1>26, <2>1, <2>2, <2>3 DEF GetEvict, WGoto
<1>27. CASE GetDecode
  <2>1. Multiple(chunk, chunk)
    BY LeastMultiples
  <2>2. ee \notin Closing
    BY <1>27 DEF GetDecode
  <2>3. CASE bufs' = [bufs EXCEPT ![nextBuffer] = [off |-> want, size |-> chunk]]
    BY <1>27, <2>1, <2>2, <2>3 DEF GetDecode
  <2>4. CASE UNCHANGED cacheVars
    BY <1>27, <2>4 DEF GetDecode
  <2> QED
    BY <1>27, <2>3, <2>4 DEF GetDecode
<1>28. CASE Fill
  BY <1>28 DEF Fill, WGoto
<1>29. CASE Filled
  BY <1>29 DEF Filled, WGoto
<1>30. CASE Swap
  BY <1>30 DEF Swap
<1>31. CASE NotifyDone
  <2>1. want' \in Nat /\ Multiple(want', chunk)
    <3>1. wreq.sector + 1 \in Nat
      OBVIOUS
    <3>2. ChunkOf(wreq.sector + 1) \in Nat /\ Multiple(ChunkOf(wreq.sector + 1), chunk)
      BY <3>1, ChunkBegins DEF ChunkOf
    <3> QED
      BY <1>31, <3>2 DEF NotifyDone
  <2> QED
    BY <1>31, <2>1 DEF NotifyDone
<1>32. CASE ReadAhead
  <2>1. Multiple(bufs[cur].off + bufs[cur].size, chunk)
    BY MultipleOfSum
  <2>2. want' \in Nat /\ Multiple(want', chunk)
    BY <1>32, <2>1 DEF ReadAhead
  <2>3. worker' \in {"end", "append", "get"}
    BY <1>32 DEF ReadAhead
  <2> QED
    BY <1>32, <2>2, <2>3 DEF ReadAhead
<1>33. CASE Append1
  <2>1. Multiple(bufs[cur].size + chunk, chunk)
    BY LeastMultiples, MultipleOfSum
  <2>2. ee \notin Closing
    BY <1>33 DEF Append1
  <2> QED
    BY <1>33, <2>1, <2>2 DEF Append1
<1>34. CASE WorkerEnd
  <2>1. Multiple(0, chunk)
    BY LeastMultiples
  <2> QED
    BY <1>34, <2>1 DEF WorkerEnd, WGoto, EndOfBody
<1>35. CASE UNCHANGED vars
  BY <1>35 DEF vars
<1> QED
  BY <1>1, <1>2, <1>3, <1>4, <1>5, <1>6, <1>7, <1>8, <1>9, <1>10, <1>11, <1>12, <1>13, <1>14, <1>15, <1>16, <1>17, <1>18, <1>19, <1>20, <1>21, <1>22, <1>23, <1>24, <1>25, <1>26, <1>27, <1>28, <1>29, <1>30, <1>31, <1>32, <1>33, <1>34, <1>35
     DEF Next, EeStep, EeChoice, WorkerStep

\* A buffer is not emptied while somebody copies from it.
LEMMA SourceIsThereStep == Overlap = {} /\ DInv /\ PInv /\ SInv /\ [Next]_vars => SourceIsThere'
<1> SUFFICES ASSUME Overlap = {}, DInv, PInv, SInv, [Next]_vars PROVE SourceIsThere'
  OBVIOUS
<1> USE DEF SInv, SourceIsThere, Direct, ChunkOf, shared, reqVars, cacheVars, io, workerVars, body, isoVars, eeVars
<1>1. ASSUME NEW s \in Asked, BeginRead(s) PROVE SourceIsThere'
  BY <1>1, AskedAssumption DEF BeginRead, Enter, NoCall
<1>2. ASSUME NEW s \in Asked, ReadSync(s) PROVE SourceIsThere'
  BY <1>2, AskedAssumption DEF ReadSync, Enter, NoCall
<1>3. ASSUME NEW i \in {0, 1}, GetFound(i) PROVE SourceIsThere'
  <2>1. worker' = "fill" => Covers(bufs[i], wreq.sector)
    <3>1. worker' = "fill" => want = ChunkOf(wreq.sector)
      BY <1>3 DEF GetFound
    <3>2. /\ bufs[i] \in [off : Nat, size : Nat] /\ wreq.sector \in Nat /\ chunk \in Nat \ {0}
          /\ Multiple(bufs[i].off, chunk) /\ Multiple(bufs[i].size, chunk)
      BY DEF Blocks, CallData
    <3>3. Covers(bufs[i], (wreq.sector \div chunk) * chunk) => Covers(bufs[i], wreq.sector)
      BY <3>2, WholeChunks
    <3> QED
      BY <1>3, <3>1, <3>3 DEF GetFound
  <2> QED
    BY <1>3, <2>1 DEF GetFound
<1>4. CASE TryCachedRead
  <2>1. ee' = "copy" => call'.hit \in {0, 1} /\ Covers(bufs[call'.hit], call'.sector)
    BY <1>4 DEF TryCachedRead, IsCached, Hit, DInv, Locals, CallIsRecord
  <2> QED
    BY <1>4, <2>1 DEF TryCachedRead
<1>5. CASE CopyCached
  BY <1>5 DEF CopyCached, Answer, NoCall
<1>6. CASE Inline
  <2>1. worker \notin Busy
    BY <1>6 DEF Inline, DInv, RunningMeansBusy
  <2> QED
    BY <1>6, <2>1 DEF Inline, Busy, WorkerStates
<1>7. CASE StoreRequest
  BY <1>7 DEF StoreRequest
<1>8. CASE NotifyWorker
  BY <1>8 DEF NotifyWorker, Answer, NoCall
<1>9. CASE Returned
  BY <1>9 DEF Returned, NoCall
<1>10. CASE FinishLook
  BY <1>10 DEF FinishLook, Return, Answer, NoCall
<1>11. CASE WaitLock
  BY <1>11 DEF WaitLock
<1>12. CASE WaitCheck
  BY <1>12 DEF WaitCheck, Over, Return, Answer, NoCall
<1>13. CASE WaitSleep
  BY <1>13 DEF WaitSleep
<1>14. CASE Close2
  <2>1. worker \notin Busy
    BY <1>14 DEF Close2, DInv, RunningMeansBusy, Closing
  <2> QED
    BY <1>14, <2>1 DEF Close2, Busy, WorkerStates
<1>15. CASE Quit
  BY <1>15 DEF Quit
<1>16. CASE Reopen
  BY <1>16 DEF Reopen, NoCall
<1>17. CASE FinishRead3
  BY <1>17 DEF FinishRead3, Enter, NoCall
<1>18. CASE CancelRead
  BY <1>18 DEF CancelRead, Enter, NoCall
<1>19. CASE Close
  BY <1>19 DEF Close, Enter, NoCall
<1>20. CASE WorkerLock
  BY <1>20 DEF WorkerLock, WGoto
<1>21. CASE WorkerSleep
  BY <1>21 DEF WorkerSleep, WGoto
<1>22. CASE WorkerWait
  BY <1>22 DEF WorkerWait, WGoto
<1>23. CASE WorkerExit
  BY <1>23 DEF WorkerExit, WGoto
<1>24. CASE WorkerTake
  BY <1>24 DEF WorkerTake, Load
<1>25. CASE WorkerDecompress
  BY <1>25 DEF WorkerDecompress
<1>26. CASE GetEvict
  <2>1. ee # "copy" /\ worker' = "decode"
    BY <1>26 DEF GetEvict, WGoto, DInv, MutexHeld
  <2> QED
    BY <1>26, <2>1 DEF GetEvict, WGoto
<1>27. CASE GetDecode
  <2>1. CASE bufs' = [bufs EXCEPT ![nextBuffer] = [off |-> want, size |-> chunk]]
    <3>1. ee = "copy" => call.hit # nextBuffer
      BY <1>27 DEF GetDecode, Blocks, Covers
    <3>2. ee' = "copy" => call'.hit \in {0, 1} /\ Covers(bufs'[call'.hit], call'.sector)
      BY <1>27, <2>1, <3>1 DEF GetDecode, Blocks
    <3>3. worker' = "fill" => Covers([off |-> want, size |-> chunk], wreq.sector)
      <4>1. worker' = "fill" => want = (wreq.sector \div chunk) * chunk
        BY <1>27 DEF GetDecode
      <4>2. want \in Nat /\ chunk \in Nat \ {0} /\ wreq.sector \in Nat
        BY DEF Blocks, CallData
      <4>3. want = (wreq.sector \div chunk) * chunk
              => want <= wreq.sector /\ wreq.sector < want + chunk
        BY <4>2, ChunkBegins
      <4> QED
        BY <4>1, <4>2, <4>3 DEF Covers
    <3>4. worker' = "fill" => bufs'[cur'] = [off |-> want, size |-> chunk]
      BY <1>27, <2>1 DEF GetDecode, Blocks
    <3>5. worker' \in {"ahead", "fill", "end", "swap"}
      BY <1>27 DEF GetDecode
    <3> QED
      BY <1>27, <3>2, <3>3, <3>4, <3>5 DEF GetDecode
  <2>2. CASE UNCHANGED cacheVars /\ worker' \in {"end", "swap"}
    BY <1>27, <2>2 DEF GetDecode
  <2> QED
    BY <1>27, <2>1, <2>2 DEF GetDecode
<1>28. CASE Fill
  BY <1>28 DEF Fill, WGoto
<1>29. CASE Filled
  BY <1>29 DEF Filled, WGoto
<1>30. CASE Swap
  BY <1>30 DEF Swap
<1>31. CASE NotifyDone
  BY <1>31 DEF NotifyDone
<1>32. CASE ReadAhead
  <2>1. ahead' = TRUE /\ worker' \in {"end", "append", "get"}
    BY <1>32 DEF ReadAhead, PInv, WriterIsWaitedFor
  <2> QED
    BY <1>32, <2>1 DEF ReadAhead
<1>33. CASE Append1
  <2>1. \A i \in {0, 1}, s \in Nat : Covers(bufs[i], s) => Covers(bufs'[i], s)
    BY <1>33 DEF Append1, Blocks, Covers
  <2>2. worker' \in {"ahead", "end"}
    BY <1>33 DEF Append1
  <2> QED
    BY <1>33, <2>1, <2>2 DEF Append1, CallData
<1>34. CASE WorkerEnd
  BY <1>34 DEF WorkerEnd, WGoto, EndOfBody, NoRequest
<1>35. CASE UNCHANGED vars
  BY <1>35 DEF vars
<1> QED
  BY <1>1, <1>2, <1>3, <1>4, <1>5, <1>6, <1>7, <1>8, <1>9, <1>10, <1>11, <1>12, <1>13, <1>14, <1>15, <1>16, <1>17, <1>18, <1>19, <1>20, <1>21, <1>22, <1>23, <1>24, <1>25, <1>26, <1>27, <1>28, <1>29, <1>30, <1>31, <1>32, <1>33, <1>34, <1>35
     DEF Next, EeStep, EeChoice, WorkerStep

\* Every call keeps its buffer and its sector to its end.
LEMMA CallDataStep == Overlap = {} /\ DInv /\ PInv /\ SInv /\ [Next]_vars => CallData'
<1> SUFFICES ASSUME Overlap = {}, DInv, PInv, SInv, [Next]_vars PROVE CallData'
  OBVIOUS
<1> USE DEF DInv, Locals, CallIsRecord, PInv, RequestIsAwaited, SInv, CallData, NoSector, shared, reqVars, cacheVars, io, workerVars, body, isoVars, eeVars
<1>1. ASSUME NEW s \in Asked, BeginRead(s) PROVE CallData'
  BY <1>1, PartsBegin
<1>2. ASSUME NEW s \in Asked, ReadSync(s) PROVE CallData'
  BY <1>2, AskedAssumption DEF ReadSync, Enter, NoCall
<1>3. ASSUME NEW i \in {0, 1}, GetFound(i) PROVE CallData'
  BY <1>3 DEF GetFound
<1>4. CASE TryCachedRead
  BY <1>4, PartsTry
<1>5. CASE CopyCached
  BY <1>5, PartsCopy
<1>6. CASE Inline
  BY <1>6 DEF Inline
<1>7. CASE StoreRequest
  BY <1>7 DEF StoreRequest
<1>8. CASE NotifyWorker
  BY <1>8, PartsNotify
<1>9. CASE Returned
  BY <1>9 DEF Returned, NoCall
<1>10. CASE FinishLook
  BY <1>10, ReturnLeaves, PartsReturn, PartsWait
<1>11. CASE WaitLock
  BY <1>11 DEF WaitLock
<1>12. CASE WaitCheck
  BY <1>12, ReturnLeaves, PartsReturn, PartsWait
<1>13. CASE WaitSleep
  BY <1>13 DEF WaitSleep
<1>14. CASE Close2
  BY <1>14 DEF Close2
<1>15. CASE Quit
  BY <1>15 DEF Quit
<1>16. CASE Reopen
  BY <1>16 DEF Reopen, NoCall
<1>17. CASE FinishRead3
  BY <1>17, PartsFetch
<1>18. CASE CancelRead
  BY <1>18 DEF CancelRead, Enter, NoCall
<1>19. CASE Close
  BY <1>19 DEF Close, Enter, NoCall
<1>20. CASE WorkerLock
  BY <1>20 DEF WorkerLock, WGoto
<1>21. CASE WorkerSleep
  BY <1>21 DEF WorkerSleep, WGoto
<1>22. CASE WorkerWait
  BY <1>22 DEF WorkerWait, WGoto
<1>23. CASE WorkerExit
  BY <1>23 DEF WorkerExit, WGoto
<1>24. CASE WorkerTake
  BY <1>24 DEF WorkerTake, Load
<1>25. CASE WorkerDecompress
  BY <1>25 DEF WorkerDecompress
<1>26. CASE GetEvict
  BY <1>26 DEF GetEvict, WGoto
<1>27. CASE GetDecode
  BY <1>27 DEF GetDecode
<1>28. CASE Fill
  BY <1>28, PartsFill
<1>29. CASE Filled
  BY <1>29, PartsFilled
<1>30. CASE Swap
  BY <1>30 DEF Swap
<1>31. CASE NotifyDone
  BY <1>31 DEF NotifyDone
<1>32. CASE ReadAhead
  BY <1>32 DEF ReadAhead
<1>33. CASE Append1
  BY <1>33 DEF Append1
<1>34. CASE WorkerEnd
  BY <1>34 DEF WorkerEnd, WGoto, EndOfBody, NoRequest
<1>35. CASE UNCHANGED vars
  BY <1>35 DEF vars
<1> QED
  BY <1>1, <1>2, <1>3, <1>4, <1>5, <1>6, <1>7, <1>8, <1>9, <1>10, <1>11, <1>12, <1>13, <1>14, <1>15, <1>16, <1>17, <1>18, <1>19, <1>20, <1>21, <1>22, <1>23, <1>24, <1>25, <1>26, <1>27, <1>28, <1>29, <1>30, <1>31, <1>32, <1>33, <1>34, <1>35
     DEF Next, EeStep, EeChoice, WorkerStep

\* What the block buffers had is copied before the request for the rest is made.
LEMMA WhatIsLeftStep == Overlap = {} /\ DInv /\ PInv /\ SInv /\ [Next]_vars => WhatIsLeft'
<1> SUFFICES ASSUME Overlap = {}, DInv, PInv, SInv, [Next]_vars PROVE WhatIsLeft'
  OBVIOUS
<1> USE DEF DInv, Locals, CallIsRecord, PInv, RequestIsAwaited, SInv, WhatIsLeft, shared, reqVars, cacheVars, io, workerVars, body, isoVars, eeVars
<1>1. ASSUME NEW s \in Asked, BeginRead(s) PROVE WhatIsLeft'
  BY <1>1, PartsBegin
<1>2. ASSUME NEW s \in Asked, ReadSync(s) PROVE WhatIsLeft'
  BY <1>2, AskedAssumption DEF ReadSync, Enter, NoCall
<1>3. ASSUME NEW i \in {0, 1}, GetFound(i) PROVE WhatIsLeft'
  BY <1>3 DEF GetFound
<1>4. CASE TryCachedRead
  BY <1>4, PartsTry
<1>5. CASE CopyCached
  BY <1>5, PartsCopy
<1>6. CASE Inline
  BY <1>6, PartsInline
<1>7. CASE StoreRequest
  BY <1>7 DEF StoreRequest
<1>8. CASE NotifyWorker
  BY <1>8, PartsNotify
<1>9. CASE Returned
  BY <1>9 DEF Returned, NoCall
<1>10. CASE FinishLook
  BY <1>10, ReturnLeaves, PartsReturn, PartsWait
<1>11. CASE WaitLock
  BY <1>11 DEF WaitLock
<1>12. CASE WaitCheck
  BY <1>12, ReturnLeaves, PartsReturn, PartsWait
<1>13. CASE WaitSleep
  BY <1>13 DEF WaitSleep
<1>14. CASE Close2
  BY <1>14 DEF Close2
<1>15. CASE Quit
  BY <1>15 DEF Quit
<1>16. CASE Reopen
  BY <1>16 DEF Reopen, NoCall
<1>17. CASE FinishRead3
  BY <1>17, PartsFetch
<1>18. CASE CancelRead
  BY <1>18 DEF CancelRead, Enter, NoCall
<1>19. CASE Close
  BY <1>19 DEF Close, Enter, NoCall
<1>20. CASE WorkerLock
  BY <1>20 DEF WorkerLock, WGoto
<1>21. CASE WorkerSleep
  BY <1>21 DEF WorkerSleep, WGoto
<1>22. CASE WorkerWait
  BY <1>22 DEF WorkerWait, WGoto
<1>23. CASE WorkerExit
  BY <1>23 DEF WorkerExit, WGoto
<1>24. CASE WorkerTake
  BY <1>24 DEF WorkerTake, Load
<1>25. CASE WorkerDecompress
  BY <1>25 DEF WorkerDecompress
<1>26. CASE GetEvict
  BY <1>26 DEF GetEvict, WGoto
<1>27. CASE GetDecode
  BY <1>27 DEF GetDecode
<1>28. CASE Fill
  BY <1>28, PartsFill
<1>29. CASE Filled
  BY <1>29, PartsFilled
<1>30. CASE Swap
  BY <1>30 DEF Swap
<1>31. CASE NotifyDone
  BY <1>31 DEF NotifyDone
<1>32. CASE ReadAhead
  BY <1>32 DEF ReadAhead
<1>33. CASE Append1
  BY <1>33 DEF Append1
<1>34. CASE WorkerEnd
  BY <1>34 DEF WorkerEnd, WGoto, EndOfBody, NoRequest
<1>35. CASE UNCHANGED vars
  BY <1>35 DEF vars
<1> QED
  BY <1>1, <1>2, <1>3, <1>4, <1>5, <1>6, <1>7, <1>8, <1>9, <1>10, <1>11, <1>12, <1>13, <1>14, <1>15, <1>16, <1>17, <1>18, <1>19, <1>20, <1>21, <1>22, <1>23, <1>24, <1>25, <1>26, <1>27, <1>28, <1>29, <1>30, <1>31, <1>32, <1>33, <1>34, <1>35
     DEF Next, EeStep, EeChoice, WorkerStep

\* The worker delivers what the caller waiting for the pointer asked for.
LEMMA RequestIsForCallerStep == Overlap = {} /\ DInv /\ PInv /\ SInv /\ [Next]_vars => RequestIsForCaller'
<1> SUFFICES ASSUME Overlap = {}, DInv, PInv, SInv, [Next]_vars PROVE RequestIsForCaller'
  OBVIOUS
<1> USE DEF DInv, Locals, CallIsRecord, PInv, RequestIsAwaited, WriterIsWaitedFor, Writing, Delivering, SInv, CallData, WhatIsLeft, RequestIsForCaller, shared, reqVars, cacheVars, io, workerVars, body, isoVars, eeVars
<1>1. ASSUME NEW s \in Asked, BeginRead(s) PROVE RequestIsForCaller'
  BY <1>1, PartsBegin
<1>2. ASSUME NEW s \in Asked, ReadSync(s) PROVE RequestIsForCaller'
  BY <1>2, AskedAssumption DEF ReadSync, Enter, NoCall
<1>3. ASSUME NEW i \in {0, 1}, GetFound(i) PROVE RequestIsForCaller'
  BY <1>3 DEF GetFound
<1>4. CASE TryCachedRead
  BY <1>4, PartsTry
<1>5. CASE CopyCached
  BY <1>5, PartsCopy
<1>6. CASE Inline
  BY <1>6 DEF Inline
<1>7. CASE StoreRequest
  BY <1>7 DEF StoreRequest
<1>8. CASE NotifyWorker
  BY <1>8, PartsNotify
<1>9. CASE Returned
  BY <1>9 DEF Returned, NoCall
<1>10. CASE FinishLook
  BY <1>10, ReturnLeaves, PartsReturn, PartsWait
<1>11. CASE WaitLock
  BY <1>11 DEF WaitLock
<1>12. CASE WaitCheck
  BY <1>12, ReturnLeaves, PartsReturn, PartsWait
<1>13. CASE WaitSleep
  BY <1>13 DEF WaitSleep
<1>14. CASE Close2
  BY <1>14 DEF Close2
<1>15. CASE Quit
  BY <1>15 DEF Quit
<1>16. CASE Reopen
  BY <1>16, PartsReopen
<1>17. CASE FinishRead3
  BY <1>17, PartsFetch
<1>18. CASE CancelRead
  BY <1>18 DEF CancelRead, Enter, NoCall
<1>19. CASE Close
  BY <1>19 DEF Close, Enter, NoCall
<1>20. CASE WorkerLock
  BY <1>20 DEF WorkerLock, WGoto
<1>21. CASE WorkerSleep
  BY <1>21 DEF WorkerSleep, WGoto
<1>22. CASE WorkerWait
  BY <1>22 DEF WorkerWait, WGoto
<1>23. CASE WorkerExit
  BY <1>23 DEF WorkerExit, WGoto
<1>24. CASE WorkerTake
  BY <1>24 DEF WorkerTake, Load
<1>25. CASE WorkerDecompress
  BY <1>25 DEF WorkerDecompress
<1>26. CASE GetEvict
  BY <1>26 DEF GetEvict, WGoto
<1>27. CASE GetDecode
  BY <1>27 DEF GetDecode
<1>28. CASE Fill
  BY <1>28, PartsFill
<1>29. CASE Filled
  BY <1>29, PartsFilled
<1>30. CASE Swap
  BY <1>30, PartsSwap
<1>31. CASE NotifyDone
  BY <1>31 DEF NotifyDone
<1>32. CASE ReadAhead
  BY <1>32 DEF ReadAhead
<1>33. CASE Append1
  BY <1>33 DEF Append1
<1>34. CASE WorkerEnd
  BY <1>34 DEF WorkerEnd, WGoto, EndOfBody, NoRequest
<1>35. CASE UNCHANGED vars
  BY <1>35 DEF vars
<1> QED
  BY <1>1, <1>2, <1>3, <1>4, <1>5, <1>6, <1>7, <1>8, <1>9, <1>10, <1>11, <1>12, <1>13, <1>14, <1>15, <1>16, <1>17, <1>18, <1>19, <1>20, <1>21, <1>22, <1>23, <1>24, <1>25, <1>26, <1>27, <1>28, <1>29, <1>30, <1>31, <1>32, <1>33, <1>34, <1>35
     DEF Next, EeStep, EeChoice, WorkerStep

\* What has been delivered stays until it is handed out.
LEMMA AnswerIsThereStep == Overlap = {} /\ DInv /\ PInv /\ SInv /\ [Next]_vars => AnswerIsThere'
<1> SUFFICES ASSUME Overlap = {}, DInv, PInv, SInv, [Next]_vars PROVE AnswerIsThere'
  OBVIOUS
<1> USE DEF DInv, Locals, CallIsRecord, PInv, RequestIsAwaited, WriterIsWaitedFor, Writing, Delivering, Starting, SInv, CallData, WhatIsLeft, RequestIsForCaller, AnswerIsThere, SectorIsTheOneAskedFor, shared, reqVars, cacheVars, io, workerVars, body, isoVars, eeVars
<1>1. ASSUME NEW s \in Asked, BeginRead(s) PROVE AnswerIsThere'
  BY <1>1, PartsBegin
<1>2. ASSUME NEW s \in Asked, ReadSync(s) PROVE AnswerIsThere'
  BY <1>2, AskedAssumption DEF ReadSync, Enter, NoCall
<1>3. ASSUME NEW i \in {0, 1}, GetFound(i) PROVE AnswerIsThere'
  BY <1>3 DEF GetFound
<1>4. CASE TryCachedRead
  BY <1>4, PartsTry
<1>5. CASE CopyCached
  BY <1>5, PartsCopy
<1>6. CASE Inline
  BY <1>6 DEF Inline
<1>7. CASE StoreRequest
  BY <1>7 DEF StoreRequest
<1>8. CASE NotifyWorker
  BY <1>8, PartsNotify
<1>9. CASE Returned
  BY <1>9 DEF Returned, NoCall
<1>10. CASE FinishLook
  BY <1>10, ReturnLeaves, PartsReturn, PartsWait
<1>11. CASE WaitLock
  BY <1>11 DEF WaitLock
<1>12. CASE WaitCheck
  BY <1>12, ReturnLeaves, PartsReturn, PartsWait
<1>13. CASE WaitSleep
  BY <1>13 DEF WaitSleep
<1>14. CASE Close2
  BY <1>14 DEF Close2
<1>15. CASE Quit
  BY <1>15 DEF Quit
<1>16. CASE Reopen
  BY <1>16 DEF Reopen, NoCall
<1>17. CASE FinishRead3
  BY <1>17, PartsFetch
<1>18. CASE CancelRead
  BY <1>18 DEF CancelRead, Enter, NoCall
<1>19. CASE Close
  BY <1>19 DEF Close, Enter, NoCall
<1>20. CASE WorkerLock
  BY <1>20 DEF WorkerLock, WGoto
<1>21. CASE WorkerSleep
  BY <1>21 DEF WorkerSleep, WGoto
<1>22. CASE WorkerWait
  BY <1>22 DEF WorkerWait, WGoto
<1>23. CASE WorkerExit
  BY <1>23 DEF WorkerExit, WGoto
<1>24. CASE WorkerTake
  BY <1>24 DEF WorkerTake, Load
<1>25. CASE WorkerDecompress
  BY <1>25 DEF WorkerDecompress
<1>26. CASE GetEvict
  BY <1>26 DEF GetEvict, WGoto
<1>27. CASE GetDecode
  BY <1>27 DEF GetDecode
<1>28. CASE Fill
  BY <1>28, PartsFill
<1>29. CASE Filled
  BY <1>29, PartsFilled
<1>30. CASE Swap
  BY <1>30 DEF Swap
<1>31. CASE NotifyDone
  BY <1>31 DEF NotifyDone
<1>32. CASE ReadAhead
  BY <1>32 DEF ReadAhead
<1>33. CASE Append1
  BY <1>33 DEF Append1
<1>34. CASE WorkerEnd
  BY <1>34 DEF WorkerEnd, WGoto, EndOfBody, NoRequest
<1>35. CASE UNCHANGED vars
  BY <1>35 DEF vars
<1> QED
  BY <1>1, <1>2, <1>3, <1>4, <1>5, <1>6, <1>7, <1>8, <1>9, <1>10, <1>11, <1>12, <1>13, <1>14, <1>15, <1>16, <1>17, <1>18, <1>19, <1>20, <1>21, <1>22, <1>23, <1>24, <1>25, <1>26, <1>27, <1>28, <1>29, <1>30, <1>31, <1>32, <1>33, <1>34, <1>35
     DEF Next, EeStep, EeChoice, WorkerStep

\* The block buffers begin empty, so they hold what they say.
LEMMA SInvInit == Init => SInv
<1> SUFFICES ASSUME Init PROVE SInv
  OBVIOUS
<1>1. chunk \in Nat \ {0}
  BY ChunkAssumption, CapAssumption DEF Init
<1>2. Multiple(0, chunk)
  BY <1>1, LeastMultiples
<1>3. Blocks
  BY <1>1, <1>2 DEF Init, Blocks, Empty, Busy, Closing
<1>4. SourceIsThere
  BY DEF Init, SourceIsThere
<1>5. CallData
  <2>1. /\ ee = "idle" /\ call.op = "none" /\ reqPtr = Null /\ current = NoSector
        /\ reqSector \in Nat /\ call.sector \in Nat /\ wreq.sector \in Nat /\ amtRead \in BOOLEAN
    BY DEF Init, NoCall, NoRequest
  <2>2. dest \in [{"async", "sync"} -> Int]
    BY DEF Init, NoSector
  <2> QED
    BY <2>1, <2>2 DEF CallData
<1>6. WhatIsLeft
  BY DEF Init, WhatIsLeft, NoCall
<1>7. RequestIsForCaller
  BY DEF Init, RequestIsForCaller, Writing, Delivering, Null
<1>8. AnswerIsThere
  BY DEF Init, AnswerIsThere, SectorIsTheOneAskedFor, NoSector
<1> QED
  BY <1>3, <1>4, <1>5, <1>6, <1>7, <1>8 DEF SInv

\* SectorIsTheOneAskedFor: whatever is cached, read ahead, decoded by the EE
\* thread, failing, cancelled or closed, a sector handed out as read is the one
\* asked for, provided that the drive fetches a sector before it asks for
\* another.
THEOREM SectorIsTheOneAskedForCorrect ==
    ASSUME Overlap = {}
    PROVE  Spec => []SectorIsTheOneAskedFor
<1>1. DInv /\ PInv /\ [Next]_vars => PInv'
  BY PInvStep
<1>2. DInv /\ PInv /\ SInv /\ [Next]_vars => SInv'
  BY BlocksStep, SourceIsThereStep, CallDataStep, WhatIsLeftStep, RequestIsForCallerStep,
     AnswerIsThereStep DEF SInv
<1>3. SInv => SectorIsTheOneAskedFor
  BY DEF SInv, AnswerIsThere
<1> QED
  BY <1>1, <1>2, <1>3, DInvInit, DInvStep, PInvInit, SInvInit, PTL DEF Spec
====
