---- MODULE WorkSignal ----
(***************************************************************************)
(* What Threading::WorkSema promises to its users, without its encoding:  *)
(* one worker consumes coalesced notifications, and at most one thread     *)
(* waits for the worker to run dry.  WorkSema.tla implements this module;  *)
(* Mtgs.tla and MtvuRing.tla are written against it.                       *)
(***************************************************************************)

VARIABLES
    pending,  \* a notification was made that the worker has not taken
    worker,   \* "running", "waiting" (in a wait call) or "dead"
    waiter    \* "idle", "waiting" (for empty) or "released"

vars == <<pending, worker, waiter>>

TypeOK ==
    /\ pending \in BOOLEAN
    /\ worker \in {"running", "waiting", "dead"}
    /\ waiter \in {"idle", "waiting", "released"}

Init ==
    /\ pending = FALSE
    /\ worker = "running"
    /\ waiter = "idle"

Released == IF waiter = "waiting" THEN "released" ELSE waiter

\* Notifications coalesce, and a dead worker takes none.
Notify ==
    /\ pending' = (worker # "dead")
    /\ UNCHANGED <<worker, waiter>>

\* A waiting worker comes out of its wait only for a notification ...
Wake ==
    /\ worker = "waiting"
    /\ pending
    /\ worker' = "running"
    /\ UNCHANGED <<pending, waiter>>

\* ... and takes all that were made at once before it goes to its queue.
Take ==
    /\ worker = "running"
    /\ pending
    /\ pending' = FALSE
    /\ UNCHANGED <<worker, waiter>>

\* With nothing to take the worker starts waiting; the queue is empty.
StartWait ==
    /\ worker = "running"
    /\ ~pending
    /\ worker' = "waiting"
    /\ waiter' = Released
    /\ UNCHANGED pending

\* CheckForWork found nothing: the worker stays running, the waiter is let go.
PollEmpty ==
    /\ worker = "running"
    /\ ~pending
    /\ waiter' = Released
    /\ UNCHANGED <<pending, worker>>

\* WaitForEmpty has to wait only while the worker has or may have work.
StartWaitEmpty ==
    /\ waiter = "idle"
    /\ worker = "running" \/ pending
    /\ waiter' = "waiting"
    /\ UNCHANGED <<pending, worker>>

ReturnEmpty ==
    /\ waiter = "released"
    /\ waiter' = "idle"
    /\ UNCHANGED <<pending, worker>>

\* The worker dies running; it drops what it was told and frees the waiter.
Kill ==
    /\ worker = "running"
    /\ worker' = "dead"
    /\ pending' = FALSE
    /\ waiter' = Released

Reset ==
    /\ worker = "dead"
    /\ worker' = "running"
    /\ UNCHANGED <<pending, waiter>>

Next ==
    \/ Notify \/ Wake \/ Take \/ StartWait \/ PollEmpty
    \/ StartWaitEmpty \/ ReturnEmpty \/ Kill \/ Reset

Spec == Init /\ [][Next]_vars
====
