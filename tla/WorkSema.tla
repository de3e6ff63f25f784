---- MODULE WorkSema ----
(***************************************************************************)
(* Threading::WorkSema (common/Threading.h, common/Semaphore.cpp): the     *)
(* semaphore by which the emulation thread feeds the GS thread (MTGS), the *)
(* VU1 thread (MTVU) and the software renderer's job queues.               *)
(*                                                                         *)
(* One worker, any number of notifiers, one thread that waits for empty.   *)
(* Every atomic access to m_state is one action.  A compare-exchange loop  *)
(* retries until its expected value is the current one, so the iteration   *)
(* that succeeds is the one that counts and the loop is one action.  The   *)
(* queue beside the semaphore is the one its usage comment describes: work *)
(* is added before NotifyOfWork, and the worker drains it between waits.   *)
(*                                                                         *)
(* A definition named X_Y is the definition X with a slip Y in it; no      *)
(* action uses it.  The project swaps it in to see its properties fail.    *)
(***************************************************************************)
EXTENDS Integers

CONSTANTS
    Notifiers,   \* threads that add work
    FLAG,        \* STATE_FLAG_WAITING_EMPTY, 1 << 30 in the code
    MaxTodo      \* bound: entries of one notifier in the queue

ASSUME FlagAssumption == FLAG \in Nat /\ FLAG >= 8
ASSUME MaxTodoAssumption == MaxTodo \in Nat \ {0}

VARIABLES
    state,      \* m_state, an s32: -2*FLAG .. 2*FLAG - 1
    sema,       \* m_sema's count
    emptySema,  \* m_empty_sema's count
    wpc,        \* where the worker is
    npc,        \* where each notifier is
    epc,        \* where the thread that waits for empty is
    todo,       \* entries of each notifier still in the queue
    owed,       \* history: notified entries the WaitForEmpty call must see done
    died        \* history: Kill happened since that call began

vars == <<state, sema, emptySema, wpc, npc, epc, todo, owed, died>>

STATE_SPINNING == -2
STATE_SLEEPING == -1
STATE_RUNNING_0 == 0
STATE_DEAD == -(2 * FLAG)     \* std::numeric_limits<s32>::min()

\* Bit 30 of a two's-complement s32, and the bits below it all zero.
HasFlag(v) == v >= FLAG \/ (v < 0 /\ v >= -FLAG)
IsReadyForSleep_MissesFirst(v) == v % FLAG <= 2
IsReadyForSleep(v) == v \in {STATE_DEAD, -FLAG, STATE_RUNNING_0, FLAG}
IsDead(v) == v < STATE_SPINNING
KeepFlag_Cleared(v) == STATE_RUNNING_0
KeepFlag(v) == IF HasFlag(v) THEN FLAG ELSE 0

NextStateWaitForWork_DropsFlag(v) ==
    IF IsReadyForSleep(v) THEN STATE_SLEEPING ELSE STATE_RUNNING_0
NextStateWaitForWork(v) ==
    IF IsReadyForSleep(v) THEN STATE_SLEEPING ELSE KeepFlag(v)

\* Bound: fewer than FLAG / 2 notifications (2^29) between two waits of the
\* worker, so the count does not run into the flag or out of the dead range.
NotifyFits ==
    \/ state < 0 /\ IsDead(state + 2) = IsDead(state)
    \/ state >= 0 /\ KeepFlag(state + 2) = KeepFlag(state) /\ state + 2 < 2 * FLAG

\* Entries of n in the queue whose NotifyOfWork has been made.
Notified(n) == todo[n] - (IF npc[n] = "added" THEN 1 ELSE 0)

WorkerPcs == {"work", "idle", "sleep", "wake", "spin", "dead",
              "post_sleep", "post_check", "post_spin", "post_kill"}
PostPcs == {"post_sleep", "post_check", "post_spin", "post_kill"}

Init ==
    /\ state = STATE_RUNNING_0
    /\ sema = 0
    /\ emptySema = 0
    /\ wpc = "idle"
    /\ npc = [n \in Notifiers |-> "idle"]
    /\ epc = "idle"
    /\ todo = [n \in Notifiers |-> 0]
    /\ owed = [n \in Notifiers |-> 0]
    /\ died = FALSE

-----------------------------------------------------------------------------
(* Notifiers *)

\* "first add their work to the queue, then call NotifyOfWork()"
AddWork(n) ==
    /\ npc[n] = "idle"
    /\ todo[n] < MaxTodo
    /\ npc' = [npc EXCEPT ![n] = "added"]
    /\ todo' = [todo EXCEPT ![n] = @ + 1]
    /\ UNCHANGED <<state, sema, emptySema, wpc, epc, owed, died>>

\* The old values for which the notifier has to wake the worker.
Wakes_Never(old) == FALSE
Wakes_AlsoSpinning(old) == old \in {STATE_SLEEPING, STATE_SPINNING}
Wakes(old) == old = STATE_SLEEPING

\* fetch_add(2); the Post follows only if the worker slept.
NotifyAdd(n) ==
    /\ npc[n] = "added"
    /\ NotifyFits
    /\ state' = state + 2
    /\ npc' = [npc EXCEPT ![n] = IF Wakes(state) THEN "post" ELSE "idle"]
    /\ UNCHANGED <<sema, emptySema, wpc, epc, todo, owed, died>>

NotifyPost(n) ==
    /\ npc[n] = "post"
    /\ sema' = sema + 1
    /\ npc' = [npc EXCEPT ![n] = "idle"]
    /\ UNCHANGED <<state, emptySema, wpc, epc, todo, owed, died>>

-----------------------------------------------------------------------------
(* Worker *)

\* One entry of the queue is processed.
Process(n) ==
    /\ wpc = "work"
    /\ todo[n] > 0
    /\ todo' = [todo EXCEPT ![n] = @ - 1]
    /\ owed' = [owed EXCEPT ![n] = IF @ > 0 THEN @ - 1 ELSE 0]
    /\ UNCHANGED <<state, sema, emptySema, wpc, npc, epc, died>>

QueueSeenEmpty ==
    /\ wpc = "work"
    /\ \A n \in Notifiers : todo[n] = 0
    /\ wpc' = "idle"
    /\ UNCHANGED <<state, sema, emptySema, npc, epc, todo, owed, died>>

CheckForWork ==
    /\ wpc = "idle"
    /\ state' = KeepFlag(IF IsReadyForSleep(state) THEN STATE_RUNNING_0 ELSE state)
    /\ wpc' = IF ~IsReadyForSleep(state) THEN "work"
              ELSE IF HasFlag(state) THEN "post_check" ELSE "idle"
    /\ UNCHANGED <<sema, emptySema, npc, epc, todo, owed, died>>

WaitForWork ==
    /\ wpc = "idle"
    /\ state' = NextStateWaitForWork(state)
    /\ wpc' = IF ~IsReadyForSleep(state) THEN "work"
              ELSE IF HasFlag(state) THEN "post_sleep" ELSE "sleep"
    /\ UNCHANGED <<sema, emptySema, npc, epc, todo, owed, died>>

WaitForWorkWithSpin ==
    /\ wpc = "idle"
    /\ state' = IF IsReadyForSleep(state) THEN STATE_SPINNING ELSE state
    /\ wpc' = IF ~IsReadyForSleep(state) THEN "wake"
              ELSE IF HasFlag(state) THEN "post_spin" ELSE "spin"
    /\ UNCHANGED <<sema, emptySema, npc, epc, todo, owed, died>>

\* The spin loop leaves when a notifier has made the state non-negative ...
SpinNotified ==
    /\ wpc = "spin"
    /\ state >= 0
    /\ wpc' = "wake"
    /\ UNCHANGED <<state, sema, emptySema, npc, epc, todo, owed, died>>

\* ... or after SPIN_TIME_NS puts the worker to sleep.
SpinTimeout ==
    /\ wpc = "spin"
    /\ state < 0
    /\ state' = STATE_SLEEPING
    /\ wpc' = "sleep"
    /\ UNCHANGED <<sema, emptySema, npc, epc, todo, owed, died>>

\* m_empty_sema.Post() of the four callers.
PostEmpty ==
    /\ wpc \in PostPcs
    /\ emptySema' = emptySema + 1
    /\ wpc' = CASE wpc = "post_sleep" -> "sleep"
                [] wpc = "post_check" -> "idle"
                [] wpc = "post_spin"  -> "spin"
                [] wpc = "post_kill"  -> "dead"
    /\ UNCHANGED <<state, sema, npc, epc, todo, owed, died>>

SemaWait_NotBlocking ==
    /\ wpc = "sleep"
    /\ sema' = sema - 1
    /\ wpc' = "wake"
    /\ UNCHANGED <<state, emptySema, npc, epc, todo, owed, died>>
SemaWait ==
    /\ wpc = "sleep"
    /\ sema > 0
    /\ sema' = sema - 1
    /\ wpc' = "wake"
    /\ UNCHANGED <<state, emptySema, npc, epc, todo, owed, died>>

\* fetch_and(STATE_FLAG_WAITING_EMPTY)
Acknowledge ==
    /\ wpc = "wake"
    /\ state' = KeepFlag(state)
    /\ wpc' = "work"
    /\ UNCHANGED <<sema, emptySema, npc, epc, todo, owed, died>>

\* The worker gives up, with its queue in whatever state it is.
Kill ==
    /\ wpc \in {"work", "idle"}
    /\ state' = STATE_DEAD
    /\ wpc' = IF HasFlag(state) THEN "post_kill" ELSE "dead"
    /\ died' = TRUE
    /\ UNCHANGED <<sema, emptySema, npc, epc, todo, owed>>

\* A restarted worker looks at its queue before it waits.
Reset ==
    /\ wpc = "dead"
    /\ state' = STATE_RUNNING_0
    /\ wpc' = "work"
    /\ UNCHANGED <<sema, emptySema, npc, epc, todo, owed, died>>

-----------------------------------------------------------------------------
(* The thread that waits for empty.  The spinning variant only repeats the *)
(* first load until it times out, which the delay in "calling" covers.     *)

CallWaitForEmpty ==
    /\ epc = "idle"
    /\ epc' = "calling"
    /\ owed' = [n \in Notifiers |-> IF Notified(n) > 0 THEN Notified(n) ELSE 0]
    /\ died' = IsDead(state)
    /\ UNCHANGED <<state, sema, emptySema, wpc, npc, todo>>

\* SLEEPING, SPINNING or DEAD: the queue is empty or nobody will empty it.
NothingToWaitFor_Running0(v) == v <= 0
NothingToWaitFor(v) == v < 0

EmptyNow ==
    /\ epc = "calling"
    /\ NothingToWaitFor(state)
    /\ epc' = IF IsDead(state) THEN "false" ELSE "true"
    /\ UNCHANGED <<state, sema, emptySema, wpc, npc, todo, owed, died>>

SetEmptyFlag ==
    /\ epc = "calling"
    /\ ~NothingToWaitFor(state)
    /\ state' = IF HasFlag(state) THEN state ELSE state + FLAG
    /\ epc' = "blocked"
    /\ UNCHANGED <<sema, emptySema, wpc, npc, todo, owed, died>>

EmptySemaWait ==
    /\ epc = "blocked"
    /\ emptySema > 0
    /\ emptySema' = emptySema - 1
    /\ epc' = "woken"
    /\ UNCHANGED <<state, sema, wpc, npc, todo, owed, died>>

\* return !IsDead(m_state.load())
EmptyAnswer ==
    /\ epc = "woken"
    /\ epc' = IF IsDead(state) THEN "false" ELSE "true"
    /\ UNCHANGED <<state, sema, emptySema, wpc, npc, todo, owed, died>>

EmptyReturn ==
    /\ epc \in {"true", "false"}
    /\ epc' = "idle"
    /\ owed' = [n \in Notifiers |-> 0]
    /\ UNCHANGED <<state, sema, emptySema, wpc, npc, todo, died>>

-----------------------------------------------------------------------------
NotifierStep(n) == AddWork(n) \/ NotifyAdd(n) \/ NotifyPost(n)

\* What the worker does by itself; dying and reviving are not among it.
WorkerStep ==
    \/ \E n \in Notifiers : Process(n)
    \/ QueueSeenEmpty \/ CheckForWork \/ WaitForWork \/ WaitForWorkWithSpin
    \/ SpinNotified \/ SpinTimeout \/ PostEmpty \/ SemaWait \/ Acknowledge

EmptyStep ==
    \/ EmptyNow \/ SetEmptyFlag \/ EmptySemaWait \/ EmptyAnswer \/ EmptyReturn

Next ==
    \/ \E n \in Notifiers : NotifierStep(n)
    \/ WorkerStep
    \/ Kill
    \/ Reset
    \/ CallWaitForEmpty
    \/ EmptyStep

Spec == Init /\ [][Next]_vars

\* Threads are scheduled: one that can step does so.  A notifier that has
\* added work goes on to notify; nobody has to add work, to die, to revive or to wait.
Fairness ==
    /\ WF_vars(WorkerStep)
    /\ WF_vars(EmptyStep)
    /\ \A n \in Notifiers : WF_vars(NotifyAdd(n) \/ NotifyPost(n))

FairSpec == Spec /\ Fairness

-----------------------------------------------------------------------------
(* Properties *)

\* Every variable stays in its range; state is an s32.
TypeOK ==
    /\ state \in -(2 * FLAG) .. (2 * FLAG - 1)
    /\ sema \in Nat
    /\ emptySema \in Nat
    /\ wpc \in WorkerPcs
    /\ npc \in [Notifiers -> {"idle", "added", "post"}]
    /\ epc \in {"idle", "calling", "blocked", "woken", "true", "false"}
    /\ todo \in [Notifiers -> Nat]
    /\ owed \in [Notifiers -> Nat]
    /\ died \in BOOLEAN

\* WaitForEmpty answers true only after all work notified before the call was
\* processed, unless the worker died meanwhile (Semaphore.cpp:94-126).
EmptyMeansDone ==
    epc = "true" /\ ~died => \A n \in Notifiers : owed[n] = 0

\* No lost wake-up: a worker blocked in m_sema.Wait() with no token and no
\* Post on its way has no notified work in its queue (WaitForWork's CAS to
\* SLEEPING against NotifyOfWork's fetch_add).
NoLostWakeup ==
    wpc = "sleep" /\ sema = 0 /\ (\A n \in Notifiers : npc[n] # "post")
        => \A n \in Notifiers : Notified(n) <= 0

\* A wake-up token exists only for a worker that is about to take it: one left
\* over would let a later WaitForWork return with nothing to do, and the next
\* NotifyOfWork's token would be left over in turn.
NoStaleWorkToken ==
    sema > 0 => /\ sema = 1
                /\ wpc \in {"post_sleep", "sleep"}
                /\ state # STATE_SLEEPING
                /\ \A n \in Notifiers : npc[n] # "post"

\* The thread in m_empty_sema.Wait() is owed exactly one Post, which is still
\* the flag in m_state, or a Post about to be made, or a token; nobody else is
\* owed one, so no later WaitForEmpty returns on a token left over.
OneEmptyPost ==
    (IF state >= FLAG THEN 1 ELSE 0) + (IF wpc \in PostPcs THEN 1 ELSE 0) + emptySema
        = (IF epc = "blocked" THEN 1 ELSE 0)

\* Notified work gets the worker to its queue, unless it dies first, whatever
\* mixture of waiting, spinning and polling the worker uses.
WorkIsServed ==
    (\E n \in Notifiers : Notified(n) > 0) ~> (wpc \in {"work", "dead"})

\* Once notifiers leave the worker alone, WaitForEmpty returns.
WaitForEmptyReturns ==
    <>[](\A n \in Notifiers : npc[n] = "idle") =>
        (epc = "calling" ~> epc = "idle")

-----------------------------------------------------------------------------
(* The promise of WorkSignal.tla *)

AbsPending ==
    IF wpc \in {"sleep", "spin", "post_sleep", "post_spin"} THEN state >= 0
    ELSE IF wpc = "wake" THEN TRUE
    ELSE state >= 0 /\ ~IsReadyForSleep(state)

AbsWorker ==
    CASE wpc \in {"dead", "post_kill"} -> "dead"
      [] wpc \in {"sleep", "spin", "post_sleep", "post_spin"} -> "waiting"
      [] OTHER -> "running"

AbsWaiter ==
    IF epc # "blocked" THEN "idle"
    ELSE IF state >= FLAG THEN "waiting" ELSE "released"

Signal == INSTANCE WorkSignal
    WITH pending <- AbsPending, worker <- AbsWorker, waiter <- AbsWaiter

\* The state word and the two semaphores together implement the coalescing
\* signal (Threading.h, class WorkSema).
ImplementsSignal == Signal!Spec
====
