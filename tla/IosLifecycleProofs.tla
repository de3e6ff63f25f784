---- MODULE IosLifecycleProofs ----
(***************************************************************************)
(* IosLifecycle for any number of shared blocks: the types, what is there  *)
(* at each step of StartVM and StopVM, and the guarantees that follow.     *)
(***************************************************************************)
EXTENDS IosLifecycle, TLAPS

-----------------------------------------------------------------------------
(* The inductive invariant *)

MapWhole == handle /\ area /\ held = {"code", "data"}
MachineBare == ~tables /\ vtlb = {} /\ ~gs
VtlbWhole == vtlb = {"vmap", "area"} /\ installed
Whole == MapWhole /\ tables /\ VtlbWhole /\ gs

StartSteps == {"share", "area", "mapdata", "mapcode", "tables", "vtlb", "cpureset",
               "gsopen", "started", "unmap"}

\* The area counts what the program holds of it, until an Unmap fails.  A mapping
\* is held only of an area.
MapMatches ==
    /\ at # "aborted" => mapped = held
    /\ held # {} => area
    /\ AbortsOnlyByUnmap

\* What StartVM has allocated when it comes to each of its steps.
StartProgress ==
    /\ at \in StartSteps => shown /\ ~initialized
    /\ at = "share" => NothingHeld
    /\ at = "area" => handle /\ ~area /\ held = {} /\ MachineBare
    /\ at = "mapdata" => handle /\ area /\ held = {} /\ MachineBare
    /\ at = "mapcode" => handle /\ area /\ held = {"data"} /\ MachineBare
    /\ at = "unmap" => MachineBare
    /\ at = "tables" => MapWhole /\ MachineBare
    /\ at = "vtlb" => MapWhole /\ tables /\ vtlb = {} /\ ~gs
    /\ at \in {"cpureset", "gsopen"} => MapWhole /\ tables /\ VtlbWhole /\ ~gs
    /\ at = "started" => Whole

\* Every start that comes to the fault handler has left a block of memory before.
HandlersBehindBlocks ==
    /\ handlers <= shared
    /\ at \in {"area", "mapdata", "mapcode", "tables", "vtlb"} => handlers < shared

\* What StopVM has released when it comes to each of its steps.
StopProgress ==
    /\ at \in {"gsclose", "release", "stopunmap", "stopped"} => ~shown
    /\ at \in {"release", "stopunmap", "stopped"} => ~gs
    /\ at \in {"stopunmap", "stopped"} => ~tables /\ vtlb = {}
    /\ at = "stopped" => NothingHeld

\* A start that failed may leave pieces behind, but never the renderer; the view
\* off screen holds nothing.
AtRest ==
    at = "rest" => /\ initialized => Whole
                   /\ ~initialized => ~gs
                   /\ ~shown => NothingHeld /\ ~initialized

IInv ==
    /\ TypeOK /\ HandlersBehindBlocks
    /\ MapMatches /\ StartProgress /\ StopProgress /\ AtRest

-----------------------------------------------------------------------------

\* The machine is not there before the view has appeared.
LEMMA IInvInit == Init => IInv
<1> SUFFICES ASSUME Init PROVE IInv
  OBVIOUS
<1>1. TypeOK /\ HandlersBehindBlocks
  <2>1. shared \in 0 .. MaxShared /\ handlers \in 0 .. shared
    BY MaxSharedAssumption, SMT DEF Init
  <2>2. HandlersBehindBlocks
    BY SMT DEF Init, HandlersBehindBlocks
  <2> QED
    BY <2>1, <2>2, Zenon DEF Init, TypeOK
<1>2. MapMatches /\ StartProgress /\ StopProgress
  BY DEF Init, MapMatches, AbortsOnlyByUnmap, StartProgress, StopProgress, StartSteps
<1>3. AtRest
  BY DEF Init, AtRest, NothingHeld
<1> QED
  BY <1>1, <1>2, <1>3 DEF IInv

\* Every step of StartVM and StopVM, failing or not, keeps the invariant.
LEMMA IInvStep == IInv /\ [Next]_vars => IInv'
<1> SUFFICES ASSUME IInv, [Next]_vars PROVE IInv'
  OBVIOUS
<1>0. MaxShared \in Nat /\ shared \in Nat /\ handlers \in Nat
  BY MaxSharedAssumption DEF IInv, TypeOK
<1> USE <1>0
    DEF IInv, TypeOK, HandlersBehindBlocks, MapMatches, AbortsOnlyByUnmap, StartProgress,
        StopProgress, AtRest, StartSteps, MapWhole, MachineBare, VtlbWhole, Whole, NothingHeld,
        mapVars, vtlbVars
<1>1. CASE ViewDidAppear
  BY <1>1 DEF ViewDidAppear
<1>2. ASSUME NEW ok \in BOOLEAN, CreateSharedMemory(ok) PROVE IInv'
  BY <1>2 DEF CreateSharedMemory
<1>3. ASSUME NEW ok \in BOOLEAN, CreateArea(ok) PROVE IInv'
  BY <1>3 DEF CreateArea
<1>4. ASSUME NEW ok \in BOOLEAN, GSopen(ok) PROVE IInv'
  BY <1>4 DEF GSopen
<1>5. ASSUME NEW ok \in BOOLEAN, Map("data", "mapdata", "mapcode", ok) PROVE IInv'
  BY <1>5 DEF Map
<1>6. ASSUME NEW ok \in BOOLEAN, Map("code", "mapcode", "tables", ok) PROVE IInv'
  BY <1>6 DEF Map
<1>7. ASSUME NEW outcome \in {"noarea", "noport", "nohandler", "ok"}, VtlbCoreAlloc(outcome)
      PROVE  IInv'
  <2>1. CASE outcome = "ok"
    <3>1. /\ at = "vtlb" /\ at' = "cpureset" /\ vtlb' = {"vmap", "area"} /\ installed'
          /\ handlers' = handlers + 1
          /\ UNCHANGED <<shown, mapVars, tables, gs, initialized>>
      BY <1>7, <2>1 DEF VtlbCoreAlloc
    <3>2. installed' \in BOOLEAN
      BY <1>7 DEF VtlbCoreAlloc
    <3> QED
      BY <3>1, <3>2
  <2>2. CASE outcome = "noport"
    BY <1>7, <2>2 DEF VtlbCoreAlloc
  <2>3. CASE outcome = "nohandler"
    BY <1>7, <2>3 DEF VtlbCoreAlloc
  <2>4. CASE outcome = "noarea"
    BY <1>7, <2>4 DEF VtlbCoreAlloc
  <2> QED
    BY <2>1, <2>2, <2>3, <2>4
<1>8. CASE AllocateTables
  BY <1>8 DEF AllocateTables
<1>9. CASE CpuReset
  BY <1>9 DEF CpuReset
<1>10. CASE Started
  BY <1>10 DEF Started
<1>11. CASE ViewWillDisappear
  BY <1>11 DEF ViewWillDisappear
<1>12. CASE GSclose
  BY <1>12 DEF GSclose
<1>13. CASE ReleaseTables
  BY <1>13 DEF ReleaseTables
<1>14. ASSUME NEW failed \in SUBSET {"data", "code"}, ReleaseMemoryMap(failed) PROVE IInv'
  <2>1. mapped = held /\ mapped' = failed
    BY <1>14 DEF ReleaseMemoryMap, Unmapped
  <2>2. at' # "aborted" => mapped' = {}
    BY <1>14, <2>1 DEF ReleaseMemoryMap, Unmapped
  <2> QED
    BY <1>14, <2>1, <2>2 DEF ReleaseMemoryMap
<1>15. CASE Stopped
  BY <1>15 DEF Stopped
<1>16. CASE UNCHANGED vars
  BY <1>16 DEF vars
<1> QED
  BY <1>1, <1>2, <1>3, <1>4, <1>5, <1>6, <1>7, <1>8, <1>9, <1>10, <1>11, <1>12, <1>13,
     <1>14, <1>15, <1>16
     DEF Next

\* At every step exactly the pieces allocated and not yet released are held, and what
\* no pointer leads to is counted: at most one handler for each block.
THEOREM IInvCorrect == Spec => []IInv
  BY IInvInit, IInvStep, PTL DEF Spec

\* Every variable stays in its range (iOSVMManager.mm, Memory.cpp, vtlb.cpp).
THEOREM TypeCorrect == Spec => []TypeOK
<1>1. IInv => TypeOK
  BY DEF IInv
<1> QED
  BY <1>1, IInvCorrect, PTL

\* StartVM overwrites no pointer that still leads to a piece of an earlier start
\* (SysMemory::Allocate, vtlb_Core_Alloc), whichever step of that start failed and
\* with Unmap failing or not.
THEOREM StartsFromNothingCorrect == Spec => []StartsFromNothing
<1>1. IInv => StartsFromNothing
  BY DEF IInv, StartProgress, MapMatches, NothingHeld, StartsFromNothing
<1> QED
  BY <1>1, IInvCorrect, PTL

\* "No mappings left" ends the app only after an Unmap that failed and whose result
\* ReleaseMemoryMap did not look at.
THEOREM AbortsOnlyByUnmapCorrect == Spec => []AbortsOnlyByUnmap
<1>1. IInv => AbortsOnlyByUnmap
  BY DEF IInv, MapMatches
<1> QED
  BY <1>1, IInvCorrect, PTL

\* The initialized flag stands for a whole machine, fault handler included.
THEOREM InitializedMeansWholeCorrect == Spec => []InitializedMeansWhole
<1>1. IInv => InitializedMeansWhole
  BY DEF IInv, TypeOK, MapMatches, AtRest, Whole, VtlbWhole, MapWhole, InitializedMeansWhole
<1> QED
  BY <1>1, IInvCorrect, PTL
====
