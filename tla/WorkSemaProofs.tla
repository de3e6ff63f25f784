---- MODULE WorkSemaProofs ----
(***************************************************************************)
(* WorkSema for every set of notifiers, every queue bound and every width  *)
(* of m_state: its types, the inductive invariant behind its guarantees,   *)
(* and that it implements WorkSignal.                                      *)
(***************************************************************************)
EXTENDS WorkSema, TLAPS

-----------------------------------------------------------------------------
(* The inductive invariant, one part per pairing of the state word with a  *)
(* thread.                                                                 *)

\* The worker's position says which states the word can be in.
StateMatchesWorker ==
    /\ wpc \in {"dead", "post_kill"} <=> IsDead(state)
    /\ state = STATE_SPINNING => wpc \in {"spin", "post_spin"}
    /\ state = STATE_SLEEPING => wpc \in {"sleep", "post_sleep"}
    /\ wpc \in {"sleep", "post_sleep"} /\ IsReadyForSleep(state) => FALSE

\* The wake-up is on its way exactly when the sleeper was notified.
AtMostOnePoster ==
    \A m, n \in Notifiers : npc[m] = "post" /\ npc[n] = "post" => m = n

Posting == \E n \in Notifiers : npc[n] = "post"

WakeUpOnItsWay ==
    /\ sema \in {0, 1}
    /\ sema = 1 \/ Posting => wpc \in {"sleep", "post_sleep"} /\ state >= 0
    /\ ~(sema = 1 /\ Posting)
    /\ wpc \in {"sleep", "post_sleep"} /\ state >= 0 => sema = 1 \/ Posting
    /\ AtMostOnePoster

\* Notified work is always in front of the worker: it is in its queue loop or
\* on the way there, or the word tells it to look again, or it is dead.
WorkIsSeen ==
    (\E n \in Notifiers : Notified(n) > 0)
        => \/ wpc \in {"work", "wake", "dead", "post_kill"}
           \/ wpc \in {"sleep", "post_sleep", "spin", "post_spin"} /\ state >= 0
           \/ wpc \in {"idle", "post_check"} /\ ~IsReadyForSleep(state)

\* What a WaitForEmpty call is owed is still in the queue, and nothing of it
\* is left from the moment the worker lets the caller go.
OwedIsQueued ==
    \A n \in Notifiers : owed[n] > 0 => owed[n] <= Notified(n)

ReleasedMeansDone ==
    (epc = "blocked" /\ state < FLAG) \/ epc \in {"woken", "true"}
        => died \/ \A n \in Notifiers : owed[n] = 0

DeadMeansDied == epc # "idle" /\ IsDead(state) => died

IInv ==
    /\ TypeOK
    /\ StateMatchesWorker
    /\ WakeUpOnItsWay
    /\ OneEmptyPost
    /\ WorkIsSeen
    /\ OwedIsQueued
    /\ ReleasedMeansDone
    /\ DeadMeansDied

-----------------------------------------------------------------------------
(* Types *)

LEMMA TypeInit == Init => TypeOK
<1> SUFFICES ASSUME Init PROVE TypeOK
  OBVIOUS
<1>1. state \in -(2 * FLAG) .. (2 * FLAG - 1)
  BY FlagAssumption DEF Init, STATE_RUNNING_0
<1>2. /\ npc \in [Notifiers -> {"idle", "added", "post"}]
      /\ todo \in [Notifiers -> Nat]
      /\ owed \in [Notifiers -> Nat]
  BY DEF Init
<1> QED
  BY <1>1, <1>2 DEF Init, TypeOK, WorkerPcs

LEMMA TypeStep == TypeOK /\ [Next]_vars => TypeOK'
<1> SUFFICES ASSUME TypeOK, [Next]_vars PROVE TypeOK'
  OBVIOUS
<1> USE FlagAssumption DEF TypeOK, WorkerPcs, PostPcs
<1>1. ASSUME NEW n \in Notifiers, AddWork(n) PROVE TypeOK'
  BY <1>1 DEF AddWork
<1>2. ASSUME NEW n \in Notifiers, NotifyAdd(n) PROVE TypeOK'
  BY <1>2 DEF NotifyAdd, NotifyFits, IsDead, STATE_SPINNING
<1>3. ASSUME NEW n \in Notifiers, NotifyPost(n) PROVE TypeOK'
  BY <1>3 DEF NotifyPost
<1>4. ASSUME NEW n \in Notifiers, Process(n) PROVE TypeOK'
  BY <1>4 DEF Process
<1>5. CASE QueueSeenEmpty
  BY <1>5 DEF QueueSeenEmpty
<1>6. CASE CheckForWork
  BY <1>6 DEF CheckForWork, KeepFlag
<1>7. CASE WaitForWork
  BY <1>7 DEF WaitForWork, NextStateWaitForWork, KeepFlag, STATE_SLEEPING
<1>8. CASE WaitForWorkWithSpin
  BY <1>8 DEF WaitForWorkWithSpin, STATE_SPINNING
<1>9. CASE SpinNotified
  BY <1>9 DEF SpinNotified
<1>10. CASE SpinTimeout
  BY <1>10 DEF SpinTimeout, STATE_SLEEPING
<1>11. CASE PostEmpty
  BY <1>11 DEF PostEmpty
<1>12. CASE SemaWait
  BY <1>12 DEF SemaWait
<1>13. CASE Acknowledge
  BY <1>13 DEF Acknowledge, KeepFlag
<1>14. CASE Kill
  BY <1>14 DEF Kill, STATE_DEAD
<1>15. CASE Reset
  BY <1>15 DEF Reset, STATE_RUNNING_0
<1>16. CASE CallWaitForEmpty
  <2>1. \A n \in Notifiers : Notified(n) \in Int
    BY DEF Notified
  <2>2. owed' \in [Notifiers -> Nat]
    BY <1>16, <2>1 DEF CallWaitForEmpty
  <2> QED
    BY <1>16, <2>2 DEF CallWaitForEmpty, IsDead
<1>17. CASE EmptyNow
  BY <1>17 DEF EmptyNow
<1>18. CASE SetEmptyFlag
  BY <1>18 DEF SetEmptyFlag, NothingToWaitFor, HasFlag
<1>19. CASE EmptySemaWait
  BY <1>19 DEF EmptySemaWait
<1>20. CASE EmptyAnswer
  BY <1>20 DEF EmptyAnswer
<1>21. CASE EmptyReturn
  BY <1>21 DEF EmptyReturn
<1>22. CASE UNCHANGED vars
  BY <1>22 DEF vars
<1> QED
  BY <1>1, <1>2, <1>3, <1>4, <1>5, <1>6, <1>7, <1>8, <1>9, <1>10, <1>11, <1>12,
     <1>13, <1>14, <1>15, <1>16, <1>17, <1>18, <1>19, <1>20, <1>21, <1>22
     DEF Next, NotifierStep, WorkerStep, EmptyStep

\* Every variable keeps its range whatever the threads do, for any number of
\* notifiers (WorkSema as a whole).
THEOREM TypeCorrect == Spec => []TypeOK
  BY TypeInit, TypeStep, PTL DEF Spec

-----------------------------------------------------------------------------
(* The inductive invariant *)

LEMMA IInvInit == Init => IInv
<1> SUFFICES ASSUME Init PROVE IInv
  OBVIOUS
<1>1. \A n \in Notifiers : npc[n] = "idle" /\ todo[n] = 0 /\ owed[n] = 0
  BY DEF Init
<1>2. ASSUME NEW n \in Notifiers PROVE Notified(n) = 0
  <2>1. (IF npc[n] = "added" THEN 1 ELSE 0) = 0
    BY <1>1
  <2> QED
    BY <1>1, <2>1 DEF Notified
<1> QED
  BY <1>1, <1>2, TypeInit, FlagAssumption
     DEF Init, IInv, StateMatchesWorker, WakeUpOnItsWay, AtMostOnePoster,
         Posting, OneEmptyPost, WorkIsSeen, OwedIsQueued, ReleasedMeansDone,
         DeadMeansDied, PostPcs, IsDead, STATE_SPINNING, STATE_SLEEPING,
         STATE_RUNNING_0

LEMMA IInvStep == IInv /\ [Next]_vars => IInv'
<1> SUFFICES ASSUME IInv, [Next]_vars PROVE IInv'
  OBVIOUS
<1> USE FlagAssumption
    DEF IInv, StateMatchesWorker, WakeUpOnItsWay, AtMostOnePoster, Posting,
        OneEmptyPost, WorkIsSeen, OwedIsQueued, ReleasedMeansDone,
        DeadMeansDied, PostPcs, WorkerPcs, IsDead, IsReadyForSleep, KeepFlag,
        HasFlag, STATE_SPINNING, STATE_SLEEPING, STATE_RUNNING_0, STATE_DEAD,
        Notified, TypeOK
<1>0. TypeOK'
  BY TypeStep
<1>1. ASSUME NEW n \in Notifiers, AddWork(n) PROVE IInv'
  BY <1>0, <1>1 DEF AddWork
<1>2. ASSUME NEW n \in Notifiers, NotifyAdd(n) PROVE IInv'
  BY <1>0, <1>2 DEF NotifyAdd, NotifyFits, Wakes
<1>3. ASSUME NEW n \in Notifiers, NotifyPost(n) PROVE IInv'
  BY <1>0, <1>3 DEF NotifyPost
<1>4. ASSUME NEW n \in Notifiers, Process(n) PROVE IInv'
  BY <1>0, <1>4 DEF Process
<1>5. CASE QueueSeenEmpty
  BY <1>0, <1>5 DEF QueueSeenEmpty
<1>6. CASE CheckForWork
  BY <1>0, <1>6 DEF CheckForWork
<1>7. CASE WaitForWork
  BY <1>0, <1>7 DEF WaitForWork, NextStateWaitForWork
<1>8. CASE WaitForWorkWithSpin
  BY <1>0, <1>8 DEF WaitForWorkWithSpin
<1>9. CASE SpinNotified
  BY <1>0, <1>9 DEF SpinNotified
<1>10. CASE SpinTimeout
  BY <1>0, <1>10 DEF SpinTimeout
<1>11. CASE PostEmpty
  BY <1>0, <1>11 DEF PostEmpty
<1>12. CASE SemaWait
  BY <1>0, <1>12 DEF SemaWait
<1>13. CASE Acknowledge
  BY <1>0, <1>13 DEF Acknowledge
<1>14. CASE Kill
  BY <1>0, <1>14 DEF Kill
<1>15. CASE Reset
  BY <1>0, <1>15 DEF Reset
<1>16. CASE CallWaitForEmpty
  <2>1. \A n \in Notifiers : Notified(n) \in Int /\ Notified(n)' = Notified(n)
    BY <1>16 DEF CallWaitForEmpty
  <2>2. OwedIsQueued'
    <3> SUFFICES ASSUME NEW n \in Notifiers, owed'[n] > 0
                 PROVE  owed'[n] <= Notified(n)'
      BY DEF OwedIsQueued
    <3>1. owed'[n] = IF Notified(n) > 0 THEN Notified(n) ELSE 0
      BY <1>16 DEF CallWaitForEmpty
    <3> QED
      BY <3>1, <2>1
  <2>3. /\ StateMatchesWorker'
        /\ WakeUpOnItsWay'
        /\ OneEmptyPost'
        /\ WorkIsSeen'
    BY <1>16 DEF CallWaitForEmpty
  <2>4. ReleasedMeansDone' /\ DeadMeansDied'
    BY <1>16 DEF CallWaitForEmpty
  <2> QED
    BY <1>0, <2>2, <2>3, <2>4
<1>17. CASE EmptyNow
  BY <1>0, <1>17 DEF EmptyNow, NothingToWaitFor
<1>18. CASE SetEmptyFlag
  BY <1>0, <1>18 DEF SetEmptyFlag, NothingToWaitFor
<1>19. CASE EmptySemaWait
  <2>1. state < FLAG /\ epc = "blocked" /\ emptySema = 1 /\ wpc \notin PostPcs
    BY <1>19 DEF EmptySemaWait
  <2>2. died \/ \A n \in Notifiers : owed[n] = 0
    BY <2>1
  <2>3. OneEmptyPost' /\ ReleasedMeansDone' /\ DeadMeansDied'
    BY <1>19, <2>1, <2>2 DEF EmptySemaWait
  <2>4. /\ StateMatchesWorker'
        /\ WakeUpOnItsWay'
        /\ WorkIsSeen'
        /\ OwedIsQueued'
    BY <1>19 DEF EmptySemaWait
  <2> QED
    BY <1>0, <2>3, <2>4
<1>20. CASE EmptyAnswer
  BY <1>0, <1>20 DEF EmptyAnswer
<1>21. CASE EmptyReturn
  BY <1>0, <1>21 DEF EmptyReturn
<1>22. CASE UNCHANGED vars
  BY <1>0, <1>22 DEF vars
<1> QED
  BY <1>1, <1>2, <1>3, <1>4, <1>5, <1>6, <1>7, <1>8, <1>9, <1>10, <1>11, <1>12, <1>13, <1>14, <1>15, <1>16, <1>17, <1>18, <1>19, <1>20, <1>21, <1>22
     DEF Next, NotifierStep, WorkerStep, EmptyStep

-----------------------------------------------------------------------------
(* What follows from it *)

\* The inductive invariant holds in every reachable state.
THEOREM IInvCorrect == Spec => []IInv
  BY IInvInit, IInvStep, PTL DEF Spec

\* WaitForEmpty never answers true with work of before the call unprocessed.
THEOREM EmptyMeansDoneCorrect == Spec => []EmptyMeansDone
<1>1. IInv => EmptyMeansDone
  BY DEF IInv, ReleasedMeansDone, EmptyMeansDone
<1> QED
  BY <1>1, IInvCorrect, PTL

\* A sleeping worker has no notified work without a wake-up on its way.
THEOREM NoLostWakeupCorrect == Spec => []NoLostWakeup
<1>1. IInv => NoLostWakeup
  <2> SUFFICES ASSUME IInv, wpc = "sleep", sema = 0,
                      \A n \in Notifiers : npc[n] # "post",
                      NEW n \in Notifiers
               PROVE  Notified(n) <= 0
    BY DEF NoLostWakeup
  <2>1. state < 0
    BY DEF IInv, TypeOK, WakeUpOnItsWay, Posting
  <2>2. ~(Notified(n) > 0)
    BY <2>1 DEF IInv, WorkIsSeen, TypeOK
  <2>3. Notified(n) \in Int
    BY DEF Notified, IInv, TypeOK
  <2> QED
    BY <2>2, <2>3
<1> QED
  BY <1>1, IInvCorrect, PTL

\* Wake-up tokens are made one at a time, for a worker that will take them.
THEOREM NoStaleWorkTokenCorrect == Spec => []NoStaleWorkToken
<1>1. IInv => NoStaleWorkToken
  BY DEF IInv, TypeOK, WakeUpOnItsWay, Posting, NoStaleWorkToken, STATE_SLEEPING
<1> QED
  BY <1>1, IInvCorrect, PTL

\* Whoever waits for empty is owed exactly one Post and nobody else is.
THEOREM OneEmptyPostCorrect == Spec => []OneEmptyPost
<1>1. IInv => OneEmptyPost
  BY DEF IInv
<1> QED
  BY <1>1, IInvCorrect, PTL

-----------------------------------------------------------------------------
(* Refinement *)

LEMMA SignalInit == Init => Signal!Init
  BY FlagAssumption
     DEF Init, Signal!Init, AbsPending, AbsWorker, AbsWaiter, IsReadyForSleep,
         STATE_RUNNING_0

LEMMA SignalStep == IInv /\ [Next]_vars => [Signal!Next]_(Signal!vars)
<1> SUFFICES ASSUME IInv, [Next]_vars PROVE [Signal!Next]_(Signal!vars)
  OBVIOUS
<1> USE FlagAssumption
    DEF IInv, StateMatchesWorker, WakeUpOnItsWay, OneEmptyPost, PostPcs,
        WorkerPcs, IsDead, IsReadyForSleep, KeepFlag, HasFlag, STATE_SPINNING,
        STATE_SLEEPING, STATE_RUNNING_0, STATE_DEAD, TypeOK, AbsPending,
        AbsWorker, AbsWaiter, Signal!vars
<1>1. ASSUME NEW n \in Notifiers, AddWork(n) PROVE UNCHANGED Signal!vars
  BY <1>1 DEF AddWork
<1>2. ASSUME NEW n \in Notifiers, NotifyAdd(n) PROVE Signal!Notify
  <2>1. CASE IsDead(state)
    <3>1. AbsPending' = FALSE /\ AbsWorker = "dead"
      BY <1>2, <2>1 DEF NotifyAdd, NotifyFits
    <3>2. AbsWorker' = AbsWorker /\ AbsWaiter' = AbsWaiter
      BY <1>2, <2>1 DEF NotifyAdd, NotifyFits
    <3> HIDE DEF AbsPending, AbsWorker, AbsWaiter
    <3> QED
      BY <3>1, <3>2 DEF Signal!Notify
  <2>2. CASE ~IsDead(state)
    <3>1. AbsPending' = TRUE
      BY <1>2, <2>2 DEF NotifyAdd, NotifyFits
    <3>2. AbsWorker # "dead"
      BY <2>2
    <3>3. AbsWorker' = AbsWorker /\ AbsWaiter' = AbsWaiter
      BY <1>2, <2>2 DEF NotifyAdd, NotifyFits
    <3> HIDE DEF AbsPending, AbsWorker, AbsWaiter
    <3> QED
      BY <3>1, <3>2, <3>3 DEF Signal!Notify
  <2> QED
    BY <2>1, <2>2
<1>3. ASSUME NEW n \in Notifiers, NotifyPost(n) PROVE UNCHANGED Signal!vars
  BY <1>3 DEF NotifyPost
<1>4. ASSUME NEW n \in Notifiers, Process(n) PROVE UNCHANGED Signal!vars
  BY <1>4 DEF Process
<1>5. CASE QueueSeenEmpty
  BY <1>5 DEF QueueSeenEmpty
<1>6. CASE CheckForWork
  <2>1. CASE IsReadyForSleep(state)
    <3>1. Signal!PollEmpty
      BY <1>6, <2>1 DEF CheckForWork, Signal!PollEmpty, Signal!Released
    <3> QED
      BY <3>1 DEF Signal!Next
  <2>2. CASE ~IsReadyForSleep(state)
    <3>1. Signal!Take
      BY <1>6, <2>2 DEF CheckForWork, Signal!Take
    <3> QED
      BY <3>1 DEF Signal!Next
  <2> QED
    BY <2>1, <2>2
<1>7. CASE WaitForWork
  <2>1. CASE IsReadyForSleep(state)
    <3>1. Signal!StartWait
      BY <1>7, <2>1 DEF WaitForWork, NextStateWaitForWork, Signal!StartWait, Signal!Released
    <3> QED
      BY <3>1 DEF Signal!Next
  <2>2. CASE ~IsReadyForSleep(state)
    <3>1. Signal!Take
      BY <1>7, <2>2 DEF WaitForWork, NextStateWaitForWork, Signal!Take
    <3> QED
      BY <3>1 DEF Signal!Next
  <2> QED
    BY <2>1, <2>2
<1>8. CASE WaitForWorkWithSpin
  <2>1. CASE IsReadyForSleep(state)
    <3>1. Signal!StartWait
      BY <1>8, <2>1 DEF WaitForWorkWithSpin, Signal!StartWait, Signal!Released
    <3> QED
      BY <3>1 DEF Signal!Next
  <2>2. CASE ~IsReadyForSleep(state)
    <3>1. AbsPending = TRUE /\ AbsPending' = TRUE
      BY <1>8, <2>2 DEF WaitForWorkWithSpin
    <3>2. AbsWorker' = AbsWorker /\ AbsWaiter' = AbsWaiter
      BY <1>8, <2>2 DEF WaitForWorkWithSpin
    <3> HIDE DEF AbsPending, AbsWorker, AbsWaiter
    <3> QED
      BY <3>1, <3>2
  <2> QED
    BY <2>1, <2>2
<1>9. CASE SpinNotified
  <2>1. Signal!Wake
    BY <1>9 DEF SpinNotified, Signal!Wake
  <2> QED
    BY <2>1 DEF Signal!Next
<1>10. CASE SpinTimeout
  BY <1>10 DEF SpinTimeout
<1>11. CASE PostEmpty
  BY <1>11 DEF PostEmpty
<1>12. CASE SemaWait
  <2>1. AbsPending = TRUE /\ AbsPending' = TRUE
    BY <1>12 DEF SemaWait
  <2>2. AbsWorker = "waiting" /\ AbsWorker' = "running" /\ AbsWaiter' = AbsWaiter
    BY <1>12 DEF SemaWait
  <2> HIDE DEF AbsPending, AbsWorker, AbsWaiter
  <2> QED
    BY <2>1, <2>2 DEF Signal!Wake, Signal!Next
<1>13. CASE Acknowledge
  <2>1. Signal!Take
    BY <1>13 DEF Acknowledge, Signal!Take
  <2> QED
    BY <2>1 DEF Signal!Next
<1>14. CASE Kill
  <2>1. Signal!Kill
    BY <1>14 DEF Kill, Signal!Kill, Signal!Released
  <2> QED
    BY <2>1 DEF Signal!Next
<1>15. CASE Reset
  <2>1. Signal!Reset
    BY <1>15 DEF Reset, Signal!Reset
  <2> QED
    BY <2>1 DEF Signal!Next
<1>16. CASE CallWaitForEmpty
  BY <1>16 DEF CallWaitForEmpty
<1>17. CASE EmptyNow
  BY <1>17 DEF EmptyNow
<1>18. CASE SetEmptyFlag
  <2>1. AbsWaiter = "idle" /\ AbsWaiter' = "waiting"
    BY <1>18 DEF SetEmptyFlag, NothingToWaitFor
  <2>2. AbsWorker = "running" \/ AbsPending
    BY <1>18 DEF SetEmptyFlag, NothingToWaitFor
  <2>3. AbsPending' = AbsPending
    <3>1. state \in 0 .. FLAG - 1 /\ state' = state + FLAG /\ wpc' = wpc
      BY <1>18 DEF SetEmptyFlag, NothingToWaitFor
    <3>2. ASSUME wpc \in {"sleep", "spin", "post_sleep", "post_spin", "wake"}
          PROVE  AbsPending = TRUE /\ AbsPending' = TRUE
      BY <3>1, <3>2
    <3>3. ASSUME wpc \notin {"sleep", "spin", "post_sleep", "post_spin", "wake"},
                 state = 0
          PROVE  AbsPending = FALSE /\ AbsPending' = FALSE
      BY <3>1, <3>3
    <3>4. ASSUME wpc \notin {"sleep", "spin", "post_sleep", "post_spin", "wake"},
                 state # 0
          PROVE  AbsPending = TRUE /\ AbsPending' = TRUE
      BY <3>1, <3>4
    <3> HIDE DEF AbsPending
    <3>5. CASE wpc \in {"sleep", "spin", "post_sleep", "post_spin", "wake"}
      BY <3>2, <3>5
    <3>6. CASE wpc \notin {"sleep", "spin", "post_sleep", "post_spin", "wake"}
      <4>1. CASE state = 0
        BY <3>3, <3>6, <4>1
      <4>2. CASE state # 0
        BY <3>4, <3>6, <4>2
      <4> QED
        BY <4>1, <4>2
    <3> QED
      BY <3>5, <3>6
  <2>4. AbsWorker' = AbsWorker
    BY <1>18 DEF SetEmptyFlag
  <2> HIDE DEF AbsPending, AbsWorker, AbsWaiter
  <2> QED
    BY <2>1, <2>2, <2>3, <2>4 DEF Signal!StartWaitEmpty, Signal!Next
<1>19. CASE EmptySemaWait
  <2>1. Signal!ReturnEmpty
    BY <1>19 DEF EmptySemaWait, Signal!ReturnEmpty
  <2> QED
    BY <2>1 DEF Signal!Next
<1>20. CASE EmptyAnswer
  BY <1>20 DEF EmptyAnswer
<1>21. CASE EmptyReturn
  BY <1>21 DEF EmptyReturn
<1>22. CASE UNCHANGED vars
  BY <1>22 DEF vars
<1> QED
  BY <1>1, <1>2, <1>3, <1>4, <1>5, <1>6, <1>7, <1>8, <1>9, <1>10, <1>11, <1>12,
     <1>13, <1>14, <1>15, <1>16, <1>17, <1>18, <1>19, <1>20, <1>21, <1>22
     DEF Next, NotifierStep, WorkerStep, EmptyStep, Signal!Next

\* Every behaviour of the state word and its two semaphores is one of the
\* coalescing signal its users are written against.
THEOREM Refinement == Spec => ImplementsSignal
  BY SignalInit, SignalStep, IInvCorrect, PTL
     DEF Spec, ImplementsSignal, Signal!Spec
====
