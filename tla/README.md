# TLA+ models of BionicSX2

BionicSX2 is an iOS port of the PCSX2 PlayStation 2 emulator. This directory
models the parts of it where threads, or the emulated processors, meet: the semaphore all its threads are
fed through, the two rings that carry work from the emulation thread to the
GS and VU1 threads, the packet that carries a frame, the buffer GS packets are
read out of in place, the thread that decodes compressed discs, the link between the
console's two processors, and the order in which the iOS app builds and tears down
the machine. Paths below are relative to the repository; `PROJECT.json` maps every definition to its lines.

A definition named `X_Y` is the definition `X` with a slip `Y` in it (a dropped
guard, an off-by-one, a missing reset). No action uses it: it is swapped in for
`X` to see that a property fails when the code is wrong in that way.

## Inventory

| Component | State | Operations | Meets | Hard part | Correct when | Here |
|---|---|---|---|---|---|---|
| `Threading::WorkSema` (`src/common/Threading.h`, `Semaphore.cpp`) | one `s32`: count of notifications, flag, SLEEPING/SPINNING/DEAD; two kernel semaphores | notify, check, wait, wait spinning, wait for empty, kill, reset | MTGS, MTVU, GS software renderer | every access is a bare atomic; lost or left-over tokens | no lost wake-up, no stale token, "empty" is true | `WorkSema`, `WorkSignal` |
| MTGS (`src/MTGS.cpp`) | ring, read and write position, ring-stall signal, frame throttle, open/close flags | send packets, WaitGS, ResetGS, WaitForOpen, WaitForClose, drain | VMManager, GIF unit, MTVU, GS | full ring, stall signals counted by two threads, reset while draining | packets arrive once, whole and in order; every wait ends | `Mtgs`, `VsyncPacket` |
| MTVU (`src/MTVU.cpp`) | ring with NULL packets, four positions, shutdown flag, interrupt flags | ExecuteVU, VifUnpack, Write*, WaitVU, Reset, Open, Close | EE, GIF unit, MTGS (`semaXGkick`) | contiguous packets, wrap-around, full against empty | as MTGS; WaitVU means done | `MtvuRing`; XGKICK in `GifPath`; flags not |
| iOS lifecycle (`ios/platform/iOSVMManager.mm`, `MetalViewController.mm`) with `SysMemory` | memory map, mappings, tables, vtlb, renderer, `s_initialized` | StartVM, StopVM | UIKit, SysMemory, HostSys, GS | any step may fail; the view comes and goes | no pointer overwritten that leads to a piece, no area destroyed with mappings, flag tells the truth | `IosLifecycle` |
| iOS host memory and faults (`ios/platform/HostSys_iOS.mm`, `PageFaultHandler.cpp`) | mapping areas, handler | create, map, unmap, protect, install | SysMemory, vtlb | an unmap that fails; installed at every start | assertions hold; installed once | part of `IosLifecycle`; neither holds, cases (f), (g) |
| iOS threads (`ios/platform/Threading_iOS.cpp`) | Mach semaphores and threads | wait, post, start, join | everything | kernel errors are only logged | the models' primitive | no |
| iOS controllers (`ios/ui/GameControllerManager.swift`) | list of controllers, captured indices | connect, disconnect | UIKit, pads | captured index goes stale | one pad per controller | no |
| GIF unit (`src/Gif_Unit.h`, `Gif_Unit.cpp`, `Gif.cpp`) | path buffers, atomic amount to read, GS packet queue | transfer, realign, execute, arbitrate | EE, MTVU, MTGS | up to three threads on one buffer; reuse behind a reader known by one number | no packet overwritten; tags and programs stay paired; waits end | `GifPath`; arbitration as far as it keeps tags back |
| VMManager (`src/VMManager.cpp`) | VM state, requests | initialize, reset, pause, shut down, save states | every thread | requests from other threads | order of WaitGS, reset, close | only its call order, in `Mtgs` |
| CDVD and threaded reading (`src/CDVD/`) | one request, two block buffers, one sector buffer | BeginRead, ReadSync, FinishRead, CancelRead, Close | CDVD, worker thread | a request replaced while executed; a decoder two threads may use; notify without the lock | the sector handed out is the one asked for; a buffer given back is not written; calls end | `ThreadedFileReader`; drive commands not |
| Audio ring (`src/Host/AudioStream.cpp`) | read/write position | write chunk, read frames, overrun | SPU2, audio callback | both threads move the read position | samples in order or dropped whole | no |
| SIO, pads, memory cards (`src/SIO/`) | FIFOs, command state | send byte, DMA | IOP | protocol | answers match commands | no |
| SIF (`src/Sif0.cpp`, `Sif1.cpp`) | FIFO of 128 words, two DMA ends, queued starts | start, stop, fill, drain, interrupts | EE and IOP DMA, DMAC | quadwords against words; restart in the middle of a tag; the loop over both ends | packets whole and in order; an interrupt means the packet is there, or sent; neither end waits for the other for good | `Sif` |
| DMAC, VIF, IPU, SPR, counters, events | registers, emulated time | DMA chains, interrupts | EE | none is concurrent | data paths | no |
| Interpreters, IOP, SPU2, DEV9, USB | registers, devices | instructions | one thread | semantics of instructions | too large, and pure data | no |
| GS renderers, recompilers | pixels, generated code | draw, compile | GS thread | the renderer's job queue | - | no |
| Save states, input, patches, PINE, achievements, settings, overlays, stubs | files, UI | - | front end | mostly I/O | - | no |

Interaction: the EE thread runs the machine and is the only producer of both
rings. It publishes by moving a write position and calls `NotifyOfWork`; the GS
and VU threads wait in `WaitForWork`, drain up to the write position and move
the read position. `WaitGS` and `WaitVU` are `WaitForEmpty`. GS packets
travel through the GS ring as pointers into a path buffer; with MTVU the VU thread
fills that buffer, and the ring carries a tag for each program instead. The drive
leaves one request at a time with the reader's worker. The app's main thread starts
and stops the machine.

**What the iOS build compiles.** The repository holds two builds. The root
`CMakeLists.txt` is the iOS app's. Of the modelled files it compiles
`Semaphore.cpp`, `MTGS.cpp`, `Gif.cpp`, `Gif_Unit.cpp`, `Memory.cpp`, `vtlb.cpp`, `Dmac.cpp`,
`IopDma.cpp` and `ios/platform/`; of the others the interpreters, the IOP, the counters and
VIF, SPU2, SIO (without the pads and the files behind memory cards) and the core of
the GS. It leaves out, and mostly has stubs for (`HWStubs.mm`, `PCSX2Stubs.mm`,
`VMManagerStubs.cpp`, `AudioStreamStubs.mm`): MTVU, SIF, CDVD with the threaded readers, the
registers of `GS.cpp`, the FIFOs, IPU, USB, DEV9, the pads, the VM manager, save states, the
recompilers, the audio streams, the settings, patches and overlays, and the Swift files
under `ios/ui/`. `src/src/CMakeLists.txt` is the upstream emulator's and compiles all of
them but the iOS files. So `MtvuRing`, `Sif`, `ThreadedFileReader` and the MTVU half of
`GifPath` model code of the repository that runs in that build and not in today's app.

## Modules

    WorkSignal  <-- implemented by --  WorkSema  <-- proved in --  WorkSemaProofs
        ^ used by Mtgs (s_sem_event) and MtvuRing (semaEvent)
    Mtgs      <-- proved in --  MtgsProofs
    MtvuRing  <-- proved in --  MtvuRingProofs
    VsyncPacket: inside one packet of Mtgs    <-- proved in --  VsyncPacketProofs
    GifPath: what the pointer and XGKICK packets of Mtgs point at, and the tags and
        programs of MtvuRing; rings cut down to counts    <-- proved in --  GifPathProofs
    ThreadedFileReader  <-- proved in --  ThreadedFileReaderProofs
    IosLifecycle  <-- proved in --  IosLifecycleProofs
    Sif: on its own; both ends of both channels    <-- proved in --  SifProofs

- **WorkSignal** is the abstract specification: notifications coalesce into one
  `pending` bit, a worker runs, waits or is dead, and one waiter is let go when
  there is nothing to take. It has no state word, no spinning and no tokens.
- **WorkSema** has one action per atomic access of `m_state` and per `Post` and
  `Wait`. A compare-exchange loop is one action, because only the iteration
  whose expected value is the current one has an effect. `todo` is the users'
  queue as the class comment describes it (work is added before the
  notification); `owed` and `died` are history for `EmptyMeansDone`. The three
  wait calls differ and are three actions. `NotifyFits` is the bound of fewer
  than 2^29 notifications between two waits of the worker.
- **Mtgs** follows the EE thread through `GenericStall`, the packet builders,
  `PostVsyncStart`, `WaitGS`, `ResetGS`, `WaitForOpen`, `WaitForClose` and
  `ShutdownThread`, and the GS thread through `ThreadEntryPoint` and `MainLoop`.
  `ee` and `gs` are program counters; every access to a variable of the other
  thread is a step, so a position may move between a look and its use. The drain
  loop's test of the write position and read of the tag are one step: the write
  position only advances while the loop runs, so the packet found by a fresh
  look is the packet an earlier look would have found. The signal is
  `WorkSignal`, justified by the refinement proved for `WorkSema`. `sent` is the
  queue the ring should be.
- **VsyncPacket** looks inside a vsync packet: the two wrap-around copies, the
  plain pointer to the packet's tail, and the registers that lie directly behind
  the ring in memory. Giving room back blanks it, so that a stale read shows.
- **MtvuRing** follows `ReserveSpace`, `WaitOnSize`, `CommitWritePos`,
  `KickStart`, `WaitVU`, `Reset`, `Open`, `Close` and `ExecuteRingBuffer`, with the
  local positions apart from the published ones. `SizeAssumption` has packets
  of at most `SafetyNet + 2` words, see (d).
- **GifPath** is the buffer of one path. Without MTVU (`mtvu` is chosen at the
  start) the EE thread copies transfers in, cuts them into packets and sends
  pointers; with it the VU thread does for path 1, one packet a program, and
  `queue`, `kicks` and `tags` pair packets, tokens of `semaXGkick` and packets of
  the GS ring. Sizes are quadwords, the contents of packets do not matter. A tag
  cut out of the data has any size. `UnreadCells` are the places the GS thread has
  yet to read, `Written` those about to be written. `SizeAssumption` has packets of at
  most half the limit: a longer one realigned twice would wait for its own blank
  space. Under it the place a packet is moved to never overlaps the old one (`Intersect`
  is 0). The code does not enforce it: it is an assumption about the programs. Of the
  arbitration between the paths the module has what keeps tags in the GIF unit (`fake`):
  `stalled` (a second SIGNAL, PSE or DIR) and `busy` (another path is active and in the middle
  of its packet), and the calls of `Execute` that may send them later. A transfer that runs off
  the end of VU memory comes in two parts, of which the first is only copied
  (`x86/microVU_Lower.inl:1698`). THREAD_VU1 is off on arm64, so the iOS app only
  has the other half.
- **ThreadedFileReader** follows `Loop`, `Decompress`, `GetBlockPtr`,
  `TryCachedRead`, `BeginRead`, `ReadSync`, `FinishRead`, `CancelRead`, `Close`
  and the destructor, with the calls of `InputIsoFile` around them. The mutex is
  held over several actions wherever the other thread can reach the data
  without it. A buffer's contents are the number of the sector in it. Every wait
  on the condition tests again, so a spurious wake-up is a stutter. `CancelRead` has no
  caller in the tree today; it is a legal call and is modelled. A read past
  the end of the disc is refused before it gets here.
- **Sif** is SIF0 or SIF1, chosen at the start: the same fifo and the same loop, with
  the ends exchanged. `pass` is the place in `SIF0Dma` or `SIF1Dma` and `did` its
  `BusyCheck`; while they run nothing else does, as the two processors are emulated
  in one thread. At `Rest` either processor starts its end, the EE stops its own
  (`ForceStop`) or turns the DMAC off and on, which queues and starts it, and a pending
  interrupt is delivered. A program is a ring of packets with tags that match; a word is
  its packet and its place in it, -3 to 0 for the tag's words and 1 on for the data, so
  `writeJunk`'s words can be told from data. On SIF1 the EE sends what follows in its
  memory (`Path`), whatever the amounts of its own tags. On a
  restart the program writes CHCR back with the tag it stopped in. Chain mode only.
  Cycles, the mailbox flags, stall control, TTE and NORMAL mode are left out, and tags
  whose ID the chain does not know. A program leaves the two TIE bits as they are.
- **IosLifecycle** has one action per step of StartVM and StopVM that can fail
  or that allocates, releases or resets something. `handle`, `area`, `held`, `tables`, `vtlb` and
  `gs` are the pointers through which the program knows its pieces; `mapped` is what the
  mapping area counts, which an `Unmap` that fails leaves counted. Two things no pointer
  leads to are counted apart: `shared`, the memory blocks that `vm_deallocate` with size 0 does
  not free, and `handlers`, the exception ports with their threads, one more at every
  `vtlb_Core_Alloc`. The app may end at a release assertion (`aborted`) or without a port
  (`noport`). The fastmem area has no mappings to undo, as the recompilers are off.

The `MC_*` modules instantiate these for TLC; only `MC_MtvuRing` needs a
definition of its own, the packet sizes.

## Runs

| Run | Shows | Bounds and why they are enough |
|---|---|---|
| `worksema` | types, `EmptyMeansDone`, `NoLostWakeup`, `NoStaleWorkToken`, `OneEmptyPost`; refinement of `WorkSignal`; `WorkIsServed`, `WaitForEmptyReturns` | two notifiers with two entries each: a second notifier meets a state word another has just raised, and a third count would behave as the second; flag 8 leaves the same classes of values as 2^30 |
| `mtgs` | the ring is the queue and the packet executed its oldest, frames counted are frames queued, one post per stall and both assertions of the stall, WaitGS and the open/close handshake; `EeReturns`: the EE thread comes back from every call but the frame throttle (finding 1) | 6 quadwords and packets of 1 and 2: packets wrap, fill the ring to the last quadword, stall by spinning and by signal; throttle at 1, so a second frame waits |
| `mtgs_vsync` | finding 1 | 5 quadwords, the throttle at 1 |
| `mtgs_reset` | finding 2 | 5 quadwords, `ResetWaits = FALSE` |
| `mtvu_ring` | the ring is the queue, equal positions mean empty, WaitVU means done, every send, wait and close ends, everything sent is executed | 9 words, packets of 2 and 3, safety net 1: both packets wrap at different places, the ring fills |
| `mtvu_lap` | finding 3 | `MayLap = TRUE` |
| `vsync_packet` | frames arrive as sent, registers untouched by the EE thread | 13 quadwords, 3 registers, two frames in flight, every start position but the one of `AnyStart` |
| `ios_lifecycle` | StartVM overwrites no pointer that leads to a piece, a mapping area dies with mappings only after a failed `Unmap`, the flag means a whole machine | five shared blocks: five starts, each with every failing step |
| `tfr` | the sector handed out is the one asked for, a buffer given back is not written, one decoder, calls return | 5 sectors, so the last chunk is short; sectors 0, 2 and 4 in three chunks, one more than there are block buffers; chunks of a sector (decoded in place) and of two; readahead stops at `Cap` 2 |
| `tfr_reissue` | finding 4 | `Overlap = {"begin"}` |
| `gif_path` | nothing unread is overwritten, `readAmount` is what is under way, tags and programs are paired; transfers end if no tag is kept back, and the GS thread does not wait for a program for good | 8 quadwords, limit 6, packets to 3: a packet may end behind the limit, be realigned with or without a blank, be moved again before its next tag is cut, and find the reader in front of it and behind it; a ring of one packet stalls; two programs, so one is run while the other's packet is read |
| `sif` | packets arrive in order with their junk words, an interrupt of the receiver means the packet is there, one of the sender that a last packet is sent, neither end waits for the other, the loop returns | 8 words for 128: packets of 1, 4, 6, 7 and 12 words, so under, at and over a quadword and over the fifo; two packets, with or without an end for either side; tags of 1 to 3 quadwords, so that they straddle packets; SIF1's TIE set, VIF1's clear |

Deadlock checking is off in `mtgs` and `mtgs_vsync` because finding 1 is a
state in which both threads sleep, in `gif_path` because the case (a) below is
one, in `ios_lifecycle` because the app may end, and in the other violation runs of
the rings because they stop at their violation.

Constants that keep known disagreements out of the passing runs: `ResetWaits`
(every ResetGS(true) follows a WaitGS with nothing sent between), `MayLap` (the EE
thread does not come round to word 0 while the reader still stands there),
`AnyStart` (no vsync packet's tail straddles the end of the ring, case (b)), `Overlap` (the
drive fetches a sector it has asked for before it asks for another), `StaleBusy` (case (c)),
and `OthersWait` (no other path waits for the GS thread between a program and its kick,
case (e)). The
premise `[]~TagsAreKeptBack` of `TransfersEnd` keeps out case (a). The violation runs take
`ResetWaits`, `MayLap` and `Overlap` (for "begin" alone) away; `AnyStart`, `StaleBusy`, `OthersWait`
and `Overlap` for "sync" are not admitted in any run. Sizes
are assumed in `SizeAssumption` of `MtvuRing` (case (d)) and of `GifPath` (packets of at most
half the limit, which is the programs' doing and not enforced by the code).

Environment assumptions of `Mtgs`: one EE thread; the callers' order is that of
`VMManager.cpp` (WaitGS before closing a running VM; a close without it only with
no frame in the ring). `GSopen` may fail.

**Fairness.** Weak fairness of each thread as a whole: a thread that can step is
scheduled. Beginning an operation is never fair (`EeChoice`, `AddWork`,
`CallWaitForEmpty`, `Kill`, `Reset`), as nothing obliges the caller. A mutex is
handed over fairly as far as weak fairness of its waiters gives it: in
`ThreadedFileReader` the worker leaves it for good only by exiting, in `GifPath`
the VU thread polls for it while the GS thread, in `semaXGkick.Wait`, lets it go. In
`WorkSema` a notifier that has added work goes on to notify, since the two calls
are in line. `WaitForEmptyReturns` needs notifiers that leave the worker alone
from some time on: a worker that is notified for ever need not find its queue empty.

## Findings

1. `mtgs_vsync`: `PostVsyncStart` counts a frame and registers as listener in two
   steps (`src/MTGS.cpp:274`, `277`). If the GS thread finishes all frames, passes
   its safety valve and sleeps in between, nobody posts `s_sem_Vsync`. The valve's
   comment says it keeps the EE core from sleeping for ever.
2. `mtgs_reset`: `ResetGS(true)` stores `s_ReadPos` from the EE thread (210) while
   the GS thread may be inside a packet and then adds its size to the moved
   position. `MainLoop` says the position is only modified by its own thread.
3. `mtvu_lap`: at the end of the buffer `ReserveSpace` wraps the write position to
   0 when `m_ato_read_pos` is still 0, so a full ring is published as empty.
   `MTVU.h:18` says equal positions have no pending packets.
4. `tfr_reissue`: after an aborted read the drive asks for another sector while the
   worker decodes the first. The compare-exchange (`ThreadedFileReader.cpp:89`)
   compares buffer pointers, which are equal, and clears the new request; the old
   sector is handed out. Its comment says it detects this and tries again.

Found with the models and described here without a run of their own. Each is seen by giving
the constant named its other value, or by taking the definition named as the invariant of the
component's run:

- (a) Tags are kept back in the GIF unit, by a second SIGNAL, PSE or DIR, or by another
  path in the middle of its packet (`Gif_Unit.h:750-786`), while the VU thread fills the
  buffer and enters its weak `WaitGS`, which notified the GS thread once, before
  the tags were sent. If they are sent without a notification (`s_CopyDataTally` below
  its limit) and the EE thread enters `WaitVU`, all three sleep; that takes a ring of two
  packets (`RingSize` 2). The same happens when the EE thread enters `WaitVU` while the
  tags are still kept back.
- (b) `AnyStart = TRUE` breaks both properties of `vsync_packet`: with a vsync packet
  whose tail begins on the ring's last quadword, the tail's second quadword is written
  over the renderer's first register and read back as one (`MTGS.cpp:254`, `503`).
- (c) `StaleBusy = TRUE` breaks `InterruptMeansArrived` and `InterruptMeansSent`: a force stop
  leaves the channel's busy flag (`Dmac.cpp:231`), so a start that the DMAC, being disabled,
  only queues runs with the IOP's next step, ends, and is started once more when the DMAC is
  enabled.
- (d) `WaitOnSize(1)` (`MTVU.cpp:247`) asks for the NULL packet's word alone. With
  a packet longer than the safety net and two words, a writer that has come round can
  wrap a second time in front of a reader that is still near the end of the buffer,
  and so pass it: without the last conjunct of `SizeAssumption`, net 0 and packets of
  2 and 3 words, `EqualMeansEmpty` fails. This fits the comment at
  `MTVU.cpp:219`, which has no cause for what the net of 4096 words repairs. Every
  packet is shorter than that but the memories a loaded state writes
  (`MTVU.cpp:57`), which come right behind a `Reset`.
- (e) `OthersWait = TRUE` breaks `KicksArrive`. `ExecuteVU` puts the program into the VU ring
  and its tag into the GS ring before it calls `KickStart` (`MTVU.cpp:448-453`). In
  between, `Gif_Unit::Execute` goes on with the other paths, and one that has to realign
  waits for the GS thread (`Gif_Unit.h:362`, `295`), which waits in `semaXGkick` for the program
  nobody has been told of.
- (f) `NoMappingsLeft` of `IosLifecycle` fails. `ReleaseMemoryMap` ignores an `Unmap` that
  failed (`Memory.cpp:156`, `162`) and destroys the area, whose count of mappings is then not
  zero (`HostSys_iOS.mm:161-164`): the release assertion at line 108 ends the app.
- (g) `InstalledOnce` of `IosLifecycle` fails. `PageFaultHandler::Install` runs at every start
  (`vtlb.cpp:1343`), and every time it allocates a port and starts a thread that nothing ends
  (`PageFaultHandler.cpp:318`): the process keeps a send right on the port, so the
  notification that would end the thread does not come. The versions for Linux and macOS
  assert that they are called once (`LnxHostSys.cpp:323`, `DarwinMisc.cpp:611`).
- (h) `EndIsKept` of `Sif` fails (in seconds with packets of 4 words and tags of 3
  quadwords). `dmaSIF1` looks at VIF1's TIE bit for its own channel (`Sif1.cpp:346`), where
  `ProcessEETag` (96) looks at SIF1's, so a chain stopped in its last tag, which ends by that
  tag's IRQ, goes on behind it when it is started again.

## Theorems

`WorkSemaProofs` proves, for every set of notifiers, every queue bound and every
flag value from 8 (`FlagAssumption`, `MaxTodoAssumption`):

- `TypeCorrect`: `Spec => []TypeOK`.
- `IInvCorrect`: the inductive invariant `IInv`. `OneEmptyPost` and `NoLostWakeup`
  are not inductive alone. `IInv` adds which values of the word go with which
  place of the worker (`StateMatchesWorker`), that a notified sleeper has exactly
  one token or one poster and nobody else has either (`WakeUpOnItsWay`), that
  notified work is in front of the worker (`WorkIsSeen`), and that what a
  WaitForEmpty call is owed is still queued until the worker lets it go
  (`OwedIsQueued`, `ReleasedMeansDone`, `DeadMeansDied`).
- `EmptyMeansDoneCorrect`, `NoLostWakeupCorrect`, `NoStaleWorkTokenCorrect`,
  `OneEmptyPostCorrect`: each safety property of the run, from `IInv`.
- `Refinement`: `Spec => ImplementsSignal`, action by action, from `IInv`: a step of
  the state word is a step of the signal, or leaves the mapped variables alone.

`IosLifecycleProofs` proves the safety properties of `IosLifecycle` for every
bound on the number of shared blocks, that is for any number of starts, with every `Unmap`
free to fail: `StartsFromNothingCorrect`, `AbortsOnlyByUnmapCorrect`,
`InitializedMeansWholeCorrect`. Its `IInv` says that the area counts as mapped what the
program holds of it until an `Unmap` fails (`MapMatches`), what is allocated at each step of
StartVM (`StartProgress`), what is released at each step of StopVM (`StopProgress`), that a
start that failed leaves no renderer behind (`AtRest`), and that there is at most one exception
port to a block of memory (`HandlersBehindBlocks`, for the types). None of them says that the
blocks or the ports are given back, which they are not.

`ThreadedFileReaderProofs` proves three properties for every disc, every set of
chunk sizes and every block size, each with an inductive invariant of its own:

- `OneDecoderCorrect`, for every `Overlap`: `DInv` says who may hold the mutex at
  which place, what `m_running` tells about the worker, and that the caller
  decodes inline only with the worker in its wait and the mutex held.
- `ClearedMeansNotWrittenCorrect`, for `Overlap = {}`: `PInv` adds which request
  the worker has taken and that it is still the one in `m_requestPtr`, or that the
  caller waits in the cancel.
- `SectorIsTheOneAskedForCorrect`, for `Overlap = {}`: `SInv` adds that a block
  buffer holds the sectors it says (`Blocks`), that a hit found is still there when it is
  copied (`SourceIsThere`), what is left of a request split between buffers
  (`WhatIsLeft`), and that the answer belongs to the call. The arithmetic
  of chunks is in lemmas of its own (`ChunkBegins`, `LeastMultiples`, ...).

`GifPathProofs` proves the three invariants of the path buffer for every size and bound.

- `TagsMatchProgramsCorrect`, from `IInv`: a tag in the GS thread's hand is the ring's
  first (`TagInHand`), and at which places of the VU and EE threads a program, packet or
  tag is on its way.
- `AmountMatchesCorrect` and `UnreadIsKeptCorrect`, from `BInv`, which adds:
  `FillPlaces` and `GsPlaces`, which places of the filler and of the GS thread go with
  which of their local variables; `Lengths`, that what is in the buffer fits and no packet
  grows past the limit; `Lies`, that a packet not yet given back is found by its distance
  from the end of all data, or lies before the last wrap-around; and `MoveIsSafe` and
  `CopyIsSafe`, that what the filler found when it looked at `readAmount` still holds when it
  writes, whatever the GS thread gives back meanwhile. `UnreadIsKept` follows at the write.

The amount is a sum over a sequence. `SetInduction` proves induction over the positions of a
sequence from the well-foundedness of `<`, one set at a time; with it partial sums exist
(`SumsExist`), rise (`SumsRise`) and follow a push and a pop (`SumsOfAppend`, `SumsOfTail`).
Where a packet lies is in lemmas without a variable of the module (`LiesAfterAppend`,
`LookBeforeMove`, `LookBeforeCopy`, `NothingThere`).

`MtvuRingProofs` proves the four invariants of the VU1 ring for every buffer, every
set of packet sizes with `SizeAssumption` and every safety net, with `MayLap = FALSE`
(finding 3 is what happens without). `IInv` is, in parts:

- `RingInv`: the packets chain from the published read position to the published write
  position, each is whole in the buffer, and at most one of them, the `c`-th, is a NULL
  packet, with the packets before it behind the reader and those after it in front of
  the writer (`InOrder`). `EqualMeansEmpty` follows from it and is not inductive alone.
- `EeProgress`: the room the EE thread has found is still there when it uses it.
  This is where the bound on the sizes is needed, when it wraps (`NullRoom`).
- `VuProgress`, `Threads`, `Told`, `Quiet`: what the VU thread has in hand, which
  of its places go with which state of `semaEvent`, that what is published was or will
  be told, and that a `WaitVU` that was let go leaves the VU thread asleep.

What the operators on queues keep (`AppendInOrder`, `TailInOrder`, `HeldOutside`) are
lemmas of their own, without a variable of the module.

`MtgsProofs` proves the five invariants of the GS thread for every ring, vsync packet,
spin and tally limit and frame throttle, with `ResetWaits = TRUE` (finding 2 is what
happens without). None of them is inductive alone. `IInv` is, in parts:

- `RingInv`: the packets chain from `readPos` to `writePos` (`Chain`) and come round at most
  once (`InOrder`, in distances `Off` from `readPos`), each whole in the ring. That
  packets do not overlap, and that equal positions mean an empty ring (`EqualIsEmpty`),
  follow from the distances.
- `EeHand`: the room `GenericStall` found is still there when the packet is written and
  published, whatever the GS thread frees in between. `GsHand`: the packet executed is the
  oldest.
- `Handshake`: which places of the two threads go together with which flags and
  completions, in six phases from no thread to shut down.
- `WorkerMatches`, `Told`, `Quiet`: which place of the GS thread goes with which state of
  `s_sem_event`; under WaitGS what is in the ring has been or will be told;
  once WaitGS is let go the ring is empty.
- `Frames`, `Posts`: the two conservation laws of the properties, with what they need to
  survive a close (no frame is dropped with the ring) and the count of a stall (`sig.pos`).

The steps are grouped by what they touch (`NextSplit`), one lemma to each group
(`KeptBySends` to `KeptByExit`). What the ring's three operations keep (`RingUntouched`,
`RingGrows`, `RingAdvances`) is proved without the module's variables.

`VsyncPacketProofs` proves both properties of the frame's packet for every ring, every
number of registers and every set of frames, with `AnyStart = FALSE` ((b) is what happens
without). `IInv` is: `Types`; `Placed`, packets lie one behind the other and leave a quadword
free; `Stored`, each is whole but the one being written, of which the part behind the EE
thread's place is; `Taken`, what the GS thread has of the oldest. Places are counted as
distances from `readPos` (`Cell`), so that a packet that wraps is one run of distances, and
`CellsDiffer` is why writing one packet leaves the others alone.

`SifProofs` proves the four invariants of the SIF for every fifo of two or more whole
quadwords (`FifoAssumption`), every program of packets, every set of amounts and both
directions. What travels is one endless row of places: a packet's tag, its words, on SIF0 the
junk that fills its last quadword, then the next packet's tag (`PlaceOf`, `Succ`; `Content`
is the word that is sent for a place). `IInv` is, in parts:

- `InTransit`: the fifo holds the stretch of the row from the receiver's place to the
  sender's (`Carries`), and the receiver has the part of its packet that is before its place
  (`Has`). `ArrivesInOrderCorrect` follows, for all values of the constants. It is not
  inductive alone: `Sending` adds that while a packet is being sent the fifo's memory behind
  the write position still has its words back to the tag (`Behind`), which is where
  `writeJunk` takes the junk from, and `Aligned` that whatever is cut up by the other end
  comes to whole quadwords, so that a tag is never read in halves and junk always has room.
- `Turns`: what each end of the loop knows when it hands the turn on. With `Aligned` it gives
  `WaitsForTheOtherCorrect`, for all values of the constants.
- `Ends`: which packet the receiver's end flag and pending interrupt stand for, and
  `SenderEnds`, that the sender's stand for a last packet or tag of which nothing is left to
  send. They give `InterruptMeansArrivedCorrect` and `InterruptMeansSentCorrect`, the latter for
  all values of the two TIE bits, and need `StaleBusy = FALSE` ((c) is what happens without),
  which is a condition inside `IInv`, so that the parts before them hold whatever the flag.
  That a restarted chain still ends (`EndIsKept`) is not a theorem: case (h).

The steps that move words are proved from lemmas on `Read`, `Write` and `WriteJunk` that know
nothing of the processors (`ReadCarries`, `WriteRun`, `BehindWrite`, `JunkIs`). That the path
through memory exists (`PathExists`), a recursive function, is again `SetInduction`.

Every invariant and action property of a passing run is thus the subject of a theorem; a few
hold under an assumption on a constant, which is named above with the finding that
shows what happens without. Only model-checked are the liveness properties, which rest on
fairness and so on ENABLED, out of the prover's reach. No module uses a RECURSIVE operator.

## Not modelled

Weak memory: every atomic is sequentially consistent here, and the ring's own
words are visible once the position that publishes them is. Packet contents other
than a vsync packet's registers. `s_run_idle_flag` and idle presentation (the
choice between polling and waiting is free). The VU thread's interrupt flags (the
effect of a second SIGNAL is in `GifPath`). SIF2, and what a driver does with the
packets and the mailbox flags. Soft reset of a path: the only call of
`Gif_Path::Reset(true)` is commented out (`GS.cpp:36`). Arbitration of the three
paths beyond what keeps tags back, PATH3 masking and slicing, A+D handlers, cycles. Kernel
errors other than those of `Unmap` and of the fault handler's installation. Everything
the inventory marks "no".

Most of the repository's lines are not modelled and cannot usefully be: of
some 360,000 lines, the renderers and their device back ends, the interpreters' and
vector units' instruction semantics, the x86 recompilers, the settings and overlay
windows, the device and USB emulation and the signal processing make up the bulk.
They are sequential and made of data: pixels, registers, layout, arithmetic. A
state machine of them has no control to check, and a copy of their arithmetic
would be a second implementation. The modules cover the code in which
threads, or the two processors, meet; that is a few thousand lines.

What is left, in the order of its worth:

1. `VmState`: VMManager's state machine with requests from other threads. On iOS
   it is replaced by `iOSVMManager.mm` and stubs, which `IosLifecycle` models.
2. `AudioRing`: the overrun that moves the reader's position
   (`AudioStream.cpp:776`). The file is not in the iOS build.
3. `Sif`: stall control, with its static flag that a reset of the SIF does not clear
   (`Sif1.cpp:14`), and TTE.
4. The software renderer's job queue, SIO2 and the memory card protocol, the
   controllers' slots: a queue like `MtvuRing`'s, and two sequential protocols.

Rings are small so that they wrap within a few packets; runs of one component are
merged rather than multiplied.
