---- MODULE IosLifecycle ----
(***************************************************************************)
(* The iOS port's VM, from appearing to disappearing (iOSVMManager.mm,     *)
(* MetalViewController.mm, the allocation half of Memory.cpp, vtlb.cpp,    *)
(* HostSys_iOS.mm and PageFaultHandler.cpp).  UIKit calls viewDidAppear    *)
(* and viewWillDisappear in turn on the main thread; StartVM allocates the *)
(* pieces of the machine one after the other and any of them may fail,     *)
(* StopVM releases whatever is there.                                      *)
(*                                                                         *)
(* A definition named X_Y is X with a slip Y in it; no action uses it.     *)
(***************************************************************************)
EXTENDS Naturals

CONSTANT MaxShared   \* shared memory blocks the process may have asked for

ASSUME MaxSharedAssumption == MaxShared \in Nat

VARIABLES
    at,          \* the next step of StartVM or StopVM; "rest" outside them
    shown,       \* the view is on screen
    shared,      \* blocks from CreateSharedMemory that were not given back
    handle,      \* s_data_memory_file_handle is set
    area,        \* s_memory_mapping_area is set
    mapped,      \* what the area counts as mapped: "data", "code"
    held,        \* which of s_data_memory, s_code_memory are set
    unmapFailed, \* history: an Unmap has failed
    tables,      \* memAllocate, iopMemAlloc, vuMemAllocate were done
    vtlb,        \* which of vtlbdata.vmap and s_fastmem_area are set
    handlers,    \* exception ports, each with a thread that waits on it for good
    installed,   \* s_installed of the page fault handler
    gs,          \* g_gs_device and g_gs_renderer are there
    initialized

mapVars == <<shared, handle, area, mapped, held, unmapFailed>>
vtlbVars == <<vtlb, handlers, installed>>
vars == <<at, shown, mapVars, tables, vtlbVars, gs, initialized>>

Init ==
    /\ at = "rest" /\ shown = FALSE
    /\ shared = 0 /\ handle = FALSE
    /\ area = FALSE /\ mapped = {} /\ held = {} /\ unmapFailed = FALSE
    /\ tables = FALSE /\ vtlb = {}
    /\ handlers = 0 /\ installed = FALSE
    /\ gs = FALSE /\ initialized = FALSE

-----------------------------------------------------------------------------
(* StartVM *)

ViewDidAppear ==
    /\ at = "rest" /\ ~shown
    /\ shown' = TRUE
    /\ at' = IF initialized THEN "rest" ELSE "share"
    /\ UNCHANGED <<mapVars, tables, vtlbVars, gs, initialized>>

CreateSharedMemory(ok) ==
    /\ at = "share"
    /\ ok => shared < MaxShared
    /\ handle' = ok
    /\ shared' = IF ok THEN shared + 1 ELSE shared
    /\ at' = IF ok THEN "area" ELSE "unmap"
    /\ UNCHANGED <<shown, area, mapped, held, unmapFailed, tables, vtlbVars, gs, initialized>>

\* The old area, were there one, is destroyed by the assignment: pxAssertRel
\* "No mappings left".
CreateArea(ok) ==
    /\ at = "area"
    /\ area' = ok
    /\ at' = IF area /\ mapped # {} THEN "aborted" ELSE IF ok THEN "mapdata" ELSE "unmap"
    /\ UNCHANGED <<shown, shared, handle, mapped, held, unmapFailed, tables, vtlbVars, gs, initialized>>

Map(what, here, next, ok) ==
    /\ at = here
    /\ mapped' = IF ok THEN mapped \union {what} ELSE mapped
    /\ held' = IF ok THEN held \union {what} ELSE held \ {what}
    /\ at' = IF ok THEN next ELSE "unmap"
    /\ UNCHANGED <<shown, shared, handle, area, unmapFailed, tables, vtlbVars, gs, initialized>>

AllocateTables ==
    /\ at = "tables"
    /\ tables' = TRUE
    /\ at' = "vtlb"
    /\ UNCHANGED <<shown, mapVars, vtlbVars, gs, initialized>>

\* vtlb_Core_Alloc, with PageFaultHandler::Install.  Without a port the process
\* ends (pxFailRel).  With one, a thread is started on it at once: it stays, and
\* so does the port, whether or not one of the calls behind it fails.
VtlbCoreAlloc(outcome) ==
    /\ at = "vtlb"
    /\ vtlb' = IF outcome = "noarea" THEN {"vmap"} ELSE {"vmap", "area"}
    /\ handlers' = IF outcome \in {"nohandler", "ok"} THEN handlers + 1 ELSE handlers
    /\ installed' = (installed \/ outcome = "ok")
    /\ at' = CASE outcome = "ok" -> "cpureset"
               [] outcome = "noport" -> "noport"
               [] OTHER -> "rest"
    /\ UNCHANGED <<shown, mapVars, tables, gs, initialized>>

CpuReset ==
    /\ at = "cpureset"
    /\ at' = "gsopen"
    /\ UNCHANGED <<shown, mapVars, tables, vtlbVars, gs, initialized>>

GSopen(ok) ==
    /\ at = "gsopen"
    /\ gs' = ok
    /\ at' = IF ok THEN "started" ELSE "rest"
    /\ UNCHANGED <<shown, mapVars, tables, vtlbVars, initialized>>

\* MetalViewController.mm passes no ISO.
Started ==
    /\ at = "started"
    /\ initialized' = TRUE
    /\ at' = "rest"
    /\ UNCHANGED <<shown, mapVars, tables, vtlbVars, gs>>

-----------------------------------------------------------------------------
(* StopVM *)

ViewWillDisappear_OnlyIfStarted ==
    /\ at = "rest" /\ shown
    /\ shown' = FALSE
    /\ at' = IF initialized THEN "gsclose" ELSE "rest"
    /\ UNCHANGED <<mapVars, tables, vtlbVars, gs, initialized>>
ViewWillDisappear ==
    /\ at = "rest" /\ shown
    /\ shown' = FALSE
    /\ at' = "gsclose"
    /\ UNCHANGED <<mapVars, tables, vtlbVars, gs, initialized>>

GSclose ==
    /\ at = "gsclose"
    /\ gs' = FALSE
    /\ at' = "release"
    /\ UNCHANGED <<shown, mapVars, tables, vtlbVars, initialized>>

\* vtlb_Core_Free, which knows nothing of the handler, then the tables.
ReleaseTables ==
    /\ at = "release"
    /\ vtlb' = {}
    /\ tables' = FALSE
    /\ at' = "stopunmap"
    /\ UNCHANGED <<shown, mapVars, handlers, installed, gs, initialized>>

\* The pieces ReleaseMemoryMap unmaps before it drops the area.
Unmapped_CodeOnly == held \intersect {"code"}
Unmapped == held

\* ReleaseMemoryMap, on a failed start and on every stop.  It does not look at what
\* Unmap returns.  DestroySharedMemory hands vm_deallocate a size of 0
\* (HostSys_iOS.mm:77), which frees nothing.
ReleaseMemoryMap(failed) ==
    /\ at \in {"unmap", "stopunmap"}
    /\ failed \subseteq Unmapped
    /\ mapped' = mapped \ (Unmapped \ failed)
    /\ unmapFailed' = (unmapFailed \/ failed # {})
    /\ held' = {} /\ area' = FALSE /\ handle' = FALSE
    /\ at' = IF area /\ mapped' # {} THEN "aborted"
             ELSE IF at = "unmap" THEN "rest" ELSE "stopped"
    /\ UNCHANGED <<shown, shared, tables, vtlbVars, gs, initialized>>

Stopped_KeepsFlag ==
    /\ at = "stopped"
    /\ at' = "rest"
    /\ UNCHANGED <<shown, mapVars, tables, vtlbVars, gs, initialized>>
Stopped ==
    /\ at = "stopped"
    /\ initialized' = FALSE
    /\ at' = "rest"
    /\ UNCHANGED <<shown, mapVars, tables, vtlbVars, gs>>

-----------------------------------------------------------------------------
Next ==
    \/ ViewDidAppear
    \/ \E ok \in BOOLEAN :
        \/ CreateSharedMemory(ok) \/ CreateArea(ok) \/ GSopen(ok)
        \/ Map("data", "mapdata", "mapcode", ok) \/ Map("code", "mapcode", "tables", ok)
    \/ \E outcome \in {"noarea", "noport", "nohandler", "ok"} : VtlbCoreAlloc(outcome)
    \/ AllocateTables \/ CpuReset \/ Started
    \/ ViewWillDisappear \/ GSclose \/ ReleaseTables \/ Stopped
    \/ \E failed \in SUBSET {"data", "code"} : ReleaseMemoryMap(failed)

Spec == Init /\ [][Next]_vars

-----------------------------------------------------------------------------
(* Properties *)

\* The pointers through which the program knows its pieces are all null.  What no
\* pointer leads to is not in it: the blocks DestroySharedMemory does not free
\* (shared) and the exception ports with their threads (handlers).
NothingHeld == ~handle /\ ~area /\ held = {} /\ ~tables /\ vtlb = {} /\ ~gs

TypeOK ==
    /\ at \in {"rest", "share", "area", "mapdata", "mapcode", "tables", "vtlb", "cpureset",
               "gsopen", "started", "gsclose", "release", "unmap", "stopunmap", "stopped",
               "aborted", "noport"}
    /\ shared \in 0 .. MaxShared /\ handlers \in 0 .. shared
    /\ shown \in BOOLEAN /\ initialized \in BOOLEAN /\ gs \in BOOLEAN
    /\ handle \in BOOLEAN /\ area \in BOOLEAN /\ tables \in BOOLEAN
    /\ unmapFailed \in BOOLEAN /\ installed \in BOOLEAN
    /\ mapped \subseteq {"data", "code"} /\ held \subseteq {"data", "code"}
    /\ vtlb \subseteq {"vmap", "area"}

\* However a start failed and however often the view comes and goes, StartVM
\* overwrites no pointer that still leads to a piece, nor an area with mappings
\* in it, and vtlb_Core_Alloc's assertion (vtlb.cpp:1325) holds.  (The fault
\* handler is outside: InstalledOnce.)
StartsFromNothing == at = "share" => NothingHeld /\ mapped = {}

\* Only an Unmap that failed brings a mapping area to its destructor with a
\* mapping left in it ("No mappings left", HostSys_iOS.mm:108): no order of
\* starts, failed starts and stops does.
AbortsOnlyByUnmap == at = "aborted" => unmapFailed

\* s_initialized is set exactly while the whole machine is there, so that the
\* "already initialized" return of StartVM never stands for half a machine.
InitializedMeansWhole ==
    at = "rest" => (initialized <=> /\ handle /\ area /\ tables /\ gs
                                    /\ held = {"data", "code"} /\ mapped = held
                                    /\ vtlb = {"vmap", "area"} /\ installed)

\* "No mappings left" (HostSys_iOS.mm:108): the release assertion of the mapping
\* area's destructor never ends the app.  An Unmap that fails breaks this, as the
\* second start does the next one, so neither is in a run.
NoMappingsLeft == at # "aborted"

\* "Page fault handler has already been installed." (LnxHostSys.cpp:323): Install
\* is not called a second time.
InstalledOnce == at = "vtlb" => ~installed
====
