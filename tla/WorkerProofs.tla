---------------------------- MODULE WorkerProofs ----------------------------
(***************************************************************************)
(* What the runs check of a worker, for any number of fibers, tasks and    *)
(* clients, any bounds and both modes: its containers and counters agree,  *)
(* it switches to the right fibers, no notification is lost, no timeout is *)
(* overslept, and nothing is left when the worker stops.                   *)
(***************************************************************************)
EXTENDS WorkerSteps

\* The inductive invariant holds in every reachable state of a worker, whatever
\* the mode and however many fibers, tasks, clients and timeouts there are.
THEOREM Invariance == Spec => []IInv
BY InitInv, NextInv, PTL DEF Spec

\* The variables of the worker keep their types: in particular work.num and
\* work.numBlockedFibers, unsigned in the code, never go below zero.
THEOREM TypeCorrect == Spec => []TypeOK
<1>1. IInv => TypeOK
  BY DEF IInv
<1> QED BY <1>1, Invariance, PTL

\* work.num counts the queued tasks and fibers, as waitForWork() and
\* runUntilIdle() assert ("work.num out of sync").
THEOREM NumCorrect == Spec => []NumInSync
<1>1. IInv => NumInSync
  BY DEF IInv
<1> QED BY <1>1, Invariance, PTL

\* The two containers of WaitingFibers agree, as take() and erase() assert.
THEOREM WaitingCorrect == Spec => []WaitingInSync
<1>1. IInv => WaitingInSync
  BY DEF IInv
<1> QED BY <1>1, Invariance, PTL

\* numBlockedFibers, which runUntilShutdown() waits for, counts the fibers
\* parked in suspend().
THEOREM BlockedCorrect == Spec => []BlockedCounted
<1>1. IInv => BlockedCounted
  BY DEF IInv
<1> QED BY <1>1, Invariance, PTL

\* Fiber::state tells where a fiber is: queued once iff Queued, in `waiting' iff
\* Waiting, in idleFibers iff Idle, Running iff it executes outside suspend().
THEOREM FiberStatesCorrect == Spec => []FiberStates
<1>1. ASSUME IInv PROVE FiberStates
  <2> TypeOK /\ Placed /\ Listed /\ IdleListed /\ Leaving
    BY <1>1 DEF IInv
  <2>1. Created \subseteq Fibers
    BY CreatedType
  <2>2. \A j, k \in DOMAIN fibers : fibers[j] = fibers[k] => j = k
    BY DEF Listed
  <2>3. ASSUME NEW f \in Created PROVE InQueue(f) <=> state[f] = "Queued" /\ ~SwitchedTo(f)
    BY <2>1 DEF Listed
  <2>4. ASSUME NEW f \in Created PROVE state[f] = "Waiting" <=> Contains(waiting, f)
    BY <2>1 DEF Listed
  <2>5. ASSUME NEW f \in Created, state[f] = "Idle", ~SwitchedTo(f) PROVE f \in idleFibers
    <3>1. pc[f] = "idle" /\ f # currentFiber
      BY Zenon, <2>1, <2>5 DEF Placed, SwitchedTo
    <3> QED BY <2>1, <3>1 DEF IdleListed
  <2>6. ASSUME NEW f \in Created, f \in idleFibers
        PROVE  (state[f] = "Idle" /\ pc[f] = "idle") \/ (f = Main /\ MainRejoined)
    BY Zenon, <2>1, <2>6 DEF IdleListed, Placed
  <2>7. ASSUME NEW f \in Created
        PROVE  state[f] = "Running" <=> \/ f = currentFiber /\ ~InSuspend(f) /\ pc[f] # "idle"
                                        \/ pc[f] = "exited"
    <3>1. f \in Fibers /\ state[f] \in States /\ pc[f] # "none"
      BY Zenon, <2>1 DEF TypeOK, Placed
    <3>2. state[f] = "Running" <=> ~InSuspend(f) /\ pc[f] # "idle"
      BY Zenon, <3>1 DEF Placed, States
    <3>3. f # currentFiber => pc[f] \in {"blocked", "idle", "exited"}
      BY Zenon, <3>1 DEF Placed, Parked
    <3>4. pc[f] = "exited" => ~InSuspend(f)
      BY DEF InSuspend, Suspending
    <3>5. pc[f] = "blocked" => InSuspend(f)
      BY Zenon, <3>1 DEF InSuspend, Suspending, Placed, Tasking
    <3> QED BY Zenon, <3>2, <3>3, <3>4, <3>5
  <2> QED BY Zenon, <2>2, <2>3, <2>4, <2>5, <2>6, <2>7 DEF FiberStates
<1> QED BY <1>1, Invariance, PTL

\* Every fiber the worker may switch to is parked where the switch expects it,
\* which is what the assertions of runUntilIdle() say.
THEOREM SwitchTargetsCorrect == Spec => []SwitchTargets
<1>1. ASSUME IInv PROVE SwitchTargets
  <2> TypeOK /\ Placed /\ Listed /\ IdleListed /\ Leaving /\ BlockedCounted
    BY <1>1 DEF IInv
  <2>1. ASSUME NEW j \in DOMAIN fibers
        PROVE  fibers[j] \in Fibers /\ state[fibers[j]] = "Queued" /\ InSuspend(fibers[j])
    <3>1. fibers[j] \in Fibers
      BY DEF TypeOK
    <3>2. InQueue(fibers[j])
      BY DEF InQueue
    <3> QED BY Zenon, <3>1, <3>2 DEF Listed, Placed
  <2>2. ASSUME At("runUntilIdle"), NEW j \in DOMAIN fibers
        PROVE  fibers[j] # currentFiber /\ fibers[j] \notin idleFibers
    <3>1. fibers[j] # currentFiber
      BY Zenon, <2>1, <2>2 DEF At, InSuspend, Suspending
    <3>2. pc[fibers[j]] = "blocked"
      BY Zenon, <2>1, <3>1 DEF Placed, Parked, InSuspend, Suspending
    <3> QED BY Zenon, <1>1, <2>1, <3>1, <3>2, Here DEF IdleListed
  <2>3. ASSUME At("exit"), currentFiber # Main PROVE Main \in idleFibers /\ pc[Main] = "idle"
    <3>1. Main \in Fibers /\ Main \in Created
      BY CreatedType, ConstantTypes
    <3>2. pc[Main] # "blocked"
      BY <2>3, <3>1, BlockedPositive DEF At, Leaving
    <3>3. pc[Main] = "idle"
      BY Zenon, <2>3, <3>1, <3>2 DEF Placed, Parked
    <3> QED BY <2>3, <3>1, <3>3 DEF IdleListed
  <2> QED BY Zenon, <2>1, <2>2, <2>3 DEF SwitchTargets
<1> QED BY <1>1, Invariance, PTL

\* A fiber is created only when every existing fiber is blocked (suspend(),
\* createWorkerFiber()).
THEOREM CreateCorrect == Spec => CreateOnlyWhenAllBlocked
<1> DEFINE Creates == numFibers' > numFibers => \A f \in Created : pc'[f] = "blocked"
<1>1. ASSUME IInv, [Next]_vars PROVE [Creates]_vars
  <2> TypeOK /\ Placed /\ IdleListed
    BY <1>1 DEF IInv
  <2>1. CASE SwitchToNew
    <3>1. /\ idleFibers = {} /\ ~stopped /\ pc[currentFiber] = "switch" /\ numFibers < MaxFibers
          /\ pc' = [pc EXCEPT ![currentFiber] = "blocked", ![numFibers + 1] = EntryOfRun]
      BY Zenon, <2>1 DEF SwitchToNew, NoFiberToResume, At
    <3>2. numFibers + 1 \notin Created /\ Created \subseteq Fibers
      <4>1. numFibers \in Fibers
        BY Zenon DEF TypeOK
      <4> QED BY ONLY <4>1, WorkerAssumption DEF Created, Fibers
    <3>3. \A f \in Created : pc'[f] = IF f = currentFiber THEN "blocked" ELSE pc[f]
      BY Zenon, <3>1, <3>2, Here, <1>1
    <3>4. ~MainRejoined
      BY <3>1, <1>1, Here
    <3>5. \A f \in Created : f # currentFiber => pc[f] = "blocked"
      BY Zenon, <3>1, <3>2, <3>4 DEF IdleListed, Placed, Parked, MainRejoined
    <3> QED BY Zenon, <3>3, <3>5
  <2>2. CASE ~SwitchToNew
    <3>1. numFibers' = numFibers
      BY ZenonT(60), <1>1, <2>2 DEF Next, WorkerStep, TaskStep, ClientStep, ClientStarts,
         Terminated,
         Quiescent, vars, fiberVars, Start, Run, RunWakes, RunUntilShutdown, Exit, WaitForWork,
         SpinForWorkAndLock, WorkWaits, WorkWakes, EnqueueFiberTimeouts, TimeoutsTaken,
         TakeTimeout, RunFiber, IdleResumes, RunTask, RunUntilIdleReturns, TaskReturns,
         StopSingleThreaded, LockAndSuspend, SwitchToQueued, SwitchToIdle, BlockedResumes, Relock,
         BeginWait, RawWait, TaskSchedules, TaskNotifies, RunWakesSpuriously, WorkWakesSpuriously,
         SpinSteals, ClientNotifiesAdded, ClientNotifiesNobody, ClientNotifies, ClientEnqueues,
         ClientSteals, ClientUnlocks, ClientSignals, ClientNotifiesRaw, Tick, WorkWait, WakeUp,
         WakeUpSpuriously
    <3>2. numFibers \in Fibers
      BY Zenon DEF TypeOK
    <3>3. ~(numFibers' > numFibers)
      BY ONLY <3>1, <3>2 DEF Fibers
    <3> QED BY ZenonT(60), <3>3
  <2> QED BY <2>1, <2>2
<1> QED BY <1>1, Invariance, PTL DEF Spec, CreateOnlyWhenAllBlocked
-----------------------------------------------------------------------------
(* What a worker promises its users.                                       *)

\* What the sleeping worker should wake for.
SleepPred == IF pc[currentFiber] = "asleep" THEN WorkPred ELSE RunPred

\* Work::wait() asks to be notified before it sleeps.
AsksToBeNotified == Asleep => notifyAdded

\* Between the test of the predicate and suspend() the fiber holds the lock of
\* its wait(), so the predicate stays false.
LockedUntilSuspend ==
  pc[currentFiber] = "lockWork" /\ MyTask \in Tasks \ RawTasks
    => waitLock[MyTask] = "fiber" /\ ~pred[MyTask]

\* Where a task can be, and whether it is there once.
InTasks(t) == \E i \in DOMAIN tasks : tasks[i] = t
OnFiber(t) == \E f \in Fibers : task[f] = t
OnceInTasks(t) == \A i, j \in DOMAIN tasks : tasks[i] = t /\ tasks[j] = t => i = j
OnceOnFiber(t) == \A f, g \in Fibers : task[f] = t /\ task[g] = t => f = g

\* Every task that was enqueued is still queued, on the stack of a fiber, stolen
\* or done, and only tasks that may be stolen have been.
Accounted ==
  /\ \A t \in AllTasks :
       t \in scheduled <=> InTasks(t) \/ OnFiber(t) \/ t \in stolen \/ t \in done
  /\ \A t \in stolen : Stealable(t)

\* A task that does not schedule itself again is at one of these places only.
OnePlace ==
  \A t \in AllTasks \ Periodic :
    /\ OnceInTasks(t) /\ OnceOnFiber(t)
    /\ InTasks(t) => ~OnFiber(t) /\ t \notin stolen /\ t \notin done
    /\ OnFiber(t) => t \notin stolen /\ t \notin done
    /\ t \in stolen => t \notin done

\* The inductive invariant these guarantees need, next to IInv.
GInv ==
  /\ AsksToBeNotified /\ NoLostWork /\ TimeoutNotLost
  /\ LockedUntilSuspend /\ NoLostWakeup
  /\ Accounted /\ OnePlace
-----------------------------------------------------------------------------
(* Sleeping.                                                               *)

\* Where the steps of the worker's thread that are not about sleeping do not end.
LEMMA EndsElsewhere ==
  ASSUME IInv,
         \/ Start \/ RunUntilShutdown \/ Exit \/ WaitForWork \/ SpinForWorkAndLock
         \/ EnqueueFiberTimeouts \/ TimeoutsTaken \/ (\E a \in waiting.timeouts : TakeTimeout(a))
         \/ RunFiber \/ IdleResumes \/ RunTask \/ RunUntilIdleReturns
         \/ TaskReturns \/ StopSingleThreaded
         \/ LockAndSuspend \/ SwitchToQueued \/ SwitchToNew
         \/ (\E f \in idleFibers : SwitchToIdle(f))
         \/ BlockedResumes \/ Relock \/ TaskStep \/ (\E t \in Tasks : SpinSteals(t))
         \/ RunWakesSpuriously \/ WorkWakesSpuriously
  PROVE  /\ ~Asleep'
         /\ pc'[currentFiber'] = "lockWork"
              => Relock \/ \E d \in Timepoints \cup {NoTimeout} : BeginWait(d)
<1> DEFINE me == currentFiber
           Sleeps == {"asleep", "runAsleep"}
           Begins == Relock \/ \E d \in Timepoints \cup {NoTimeout} : BeginWait(d)
           Elsewhere == ~Asleep' /\ (pc'[currentFiber'] = "lockWork" => Begins)
<1> SUFFICES Elsewhere
  OBVIOUS
<1>1. /\ me \in Fibers /\ Main \in Fibers /\ pc \in [Fibers -> Places]
      /\ \A f \in Fibers : f # me => pc[f] \notin Sleeps \cup {"lockWork"}
  BY Zenon, Here DEF IInv, Placed, Parked
<1>2. ASSUME NEW p, p \notin Sleeps, p # "lockWork" \/ Begins, Goto(p), UNCHANGED currentFiber
      PROVE  Elsewhere
  BY Zenon, <1>1, <1>2 DEF Goto, Asleep
<1>3. ASSUME NEW p, p \notin Sleeps \cup {"lockWork"}, Goto(p), NEW f \in Fibers, currentFiber' = f
      PROVE  Elsewhere
  BY Zenon, <1>1, <1>3 DEF Goto, Asleep
<1>4. ASSUME pc[me] \notin Sleeps \cup {"lockWork"}, UNCHANGED <<pc, currentFiber>> PROVE Elsewhere
  BY Zenon, <1>4 DEF Asleep
<1>5. EntryOfRun \notin Sleeps \cup {"lockWork"} /\ AfterWaitForWork \notin Sleeps \cup {"lockWork"}
  BY Zenon DEF EntryOfRun, AfterWaitForWork
<1> USE DEF fiberVars
<1>6. CASE Start \/ RunUntilShutdown \/ SpinForWorkAndLock \/ RunUntilIdleReturns \/ IdleResumes
  BY Zenon, <1>2, <1>6 DEF Start, RunUntilShutdown, SpinForWorkAndLock, RunUntilIdleReturns,
     IdleResumes
<1>7. CASE Exit
  <2>1. CASE currentFiber = Main
    BY Zenon, <1>7, <2>1 DEF Exit, Asleep, At
  <2>2. CASE currentFiber # Main
    BY Zenon, <1>1, <1>3, <1>7, <2>2 DEF Exit
  <2> QED BY <2>1, <2>2
<1>8. CASE WaitForWork \/ EnqueueFiberTimeouts \/ TimeoutsTaken
  BY Zenon, <1>2, <1>5, <1>8 DEF WaitForWork, EnqueueFiberTimeouts, TimeoutsTaken
<1>9. ASSUME NEW a, TakeTimeout(a) PROVE Elsewhere
  BY Zenon, <1>4, <1>9 DEF TakeTimeout, At
<1>10. CASE RunFiber
  <2>1. Head(fibers) \in Fibers
    BY <1>10, NumPositive DEF RunFiber, IInv
  <2> QED BY ZenonT(60), <1>3, <1>10, <2>1 DEF RunFiber
<1>11. CASE RunTask \/ TaskReturns \/ StopSingleThreaded
  BY Zenon, <1>2, <1>11 DEF RunTask, TaskReturns, StopSingleThreaded
<1>12. CASE LockAndSuspend \/ \E d \in Timepoints \cup {NoTimeout} : RawWait(d)
  BY Zenon, <1>2, <1>12 DEF LockAndSuspend, RawWait, Suspend
<1>13. CASE SwitchToQueued
  <2>1. Head(fibers) \in Fibers
    BY <1>13, NumPositive DEF SwitchToQueued, IInv
  <2> QED BY Zenon, <1>3, <1>13, <2>1 DEF SwitchToQueued
<1>14. CASE SwitchToNew
  <2>1. numFibers + 1 \in Fibers
    BY Zenon, <1>14, ConstantTypes DEF SwitchToNew, IInv, TypeOK
  <2> QED BY Zenon, <1>1, <1>5, <1>14, <2>1 DEF SwitchToNew, Asleep
<1>15. ASSUME NEW f \in idleFibers, SwitchToIdle(f) PROVE Elsewhere
  <2>1. f \in Fibers
    BY ZenonT(60), <1>15 DEF IInv, TypeOK
  <2> QED BY Zenon, <1>3, <1>15, <2>1 DEF SwitchToIdle
<1>16. CASE BlockedResumes \/ Relock
  BY Zenon, <1>2, <1>16 DEF BlockedResumes, Relock
<1>17. ASSUME NEW d \in Timepoints \cup {NoTimeout}, BeginWait(d) PROVE Elsewhere
  BY Zenon, <1>2, <1>17 DEF BeginWait
<1>18. ASSUME NEW t, TaskSchedules(t) \/ TaskNotifies(t) PROVE Elsewhere
  BY Zenon, <1>4, <1>18 DEF TaskSchedules, TaskNotifies, At
<1>19. ASSUME NEW t, SpinSteals(t) PROVE Elsewhere
  BY Zenon, <1>2, <1>19 DEF SpinSteals
<1>20. CASE RunWakesSpuriously \/ WorkWakesSpuriously
  BY Zenon, <1>2, <1>20 DEF RunWakesSpuriously, WorkWakesSpuriously, WakeUpSpuriously,
     WorkWaitReturns
<1> QED
  BY Zenon, <1>6, <1>7, <1>8, <1>9, <1>10, <1>11, <1>12, <1>13, <1>14, <1>15, <1>16, <1>17, <1>18,
     <1>19, <1>20 DEF TaskStep

\* The worker falls asleep with nothing to wake for, or wakes up for nothing and
\* sleeps on.
LEMMA FallsAsleep ==
  ASSUME IInv, Run \/ WorkWaits \/ RunWakes \/ WorkWakes, Asleep'
  PROVE  /\ ~SleepPred' /\ UNCHANGED waiting
         /\ \/ notifyAdded' /\ sleepUntil' = TimePoint
            \/ Asleep /\ UNCHANGED <<notifyAdded, sleepUntil>>
<1> DEFINE me == currentFiber
           Sleeps == {"asleep", "runAsleep"}
<1> USE DEF At, Goto, workVars, fiberVars, ctrlVars, RunPred, WorkPred
<1>1. me \in Fibers /\ pc \in [Fibers -> Places]
  BY Here
<1>2. ASSUME NEW p, p \notin Sleeps, Goto(p), UNCHANGED currentFiber PROVE FALSE
  BY Zenon, <1>1, <1>2 DEF Asleep
<1>3. CASE Run
  <2>1. ~RunPred /\ notifyAdded' /\ Goto("runAsleep") /\ sleepUntil' = TimePoint
    BY Zenon, <1>2, <1>3 DEF Run, WorkWait
  <2>2. UNCHANGED <<workVars, fiberVars, ctrlVars>>
    BY Zenon, <1>3 DEF Run, WorkWait
  <2>3. pc'[me] = "runAsleep"
    BY Zenon, <1>1, <2>1
  <2> QED BY <2>1, <2>2, <2>3 DEF SleepPred
<1>4. CASE WorkWaits
  <2>1. ~WorkPred /\ notifyAdded' /\ Goto("asleep") /\ sleepUntil' = TimePoint
    BY Zenon, <1>2, <1>4 DEF WorkWaits, WorkWait
  <2>2. UNCHANGED <<workVars, fiberVars, ctrlVars>>
    BY Zenon, <1>4 DEF WorkWaits, WorkWait
  <2>3. pc'[me] = "asleep"
    BY Zenon, <1>1, <2>1
  <2> QED BY SMTT(30), ZenonT(60), <2>1, <2>2, <2>3 DEF SleepPred
<1>5. CASE RunWakes
  <2>1. ~RunPred /\ UNCHANGED <<pc, notifyAdded, sleepUntil>> /\ pc[me] = "runAsleep" /\ ~stopped
    BY Zenon, <1>2, <1>5 DEF RunWakes, WakeUp, WorkWaitReturns
  <2>2. UNCHANGED <<workVars, fiberVars, ctrlVars>>
    BY Zenon, <1>5 DEF RunWakes, WakeUp
  <2> QED BY <2>1, <2>2 DEF SleepPred, Asleep
<1>6. CASE WorkWakes
  <2>1. ~WorkPred /\ UNCHANGED <<pc, notifyAdded, sleepUntil>> /\ pc[me] = "asleep" /\ ~stopped
    BY Zenon, <1>2, <1>6 DEF WorkWakes, WakeUp, WorkWaitReturns
  <2>2. UNCHANGED <<workVars, fiberVars, ctrlVars>>
    BY Zenon, <1>6 DEF WorkWakes, WakeUp
  <2> QED BY <2>1, <2>2 DEF SleepPred, Asleep
<1> QED BY Zenon, <1>3, <1>4, <1>5, <1>6

\* What a client's step may do to the queues, to `waiting' and to the notification
\* that is due: work is added only together with a notification, if the worker
\* has asked for it.
LEMMA ClientSteps ==
  ASSUME TypeOK, NEW c \in Clients, ClientStep(c) \/ ClientStarts(c)
  PROVE  /\ UNCHANGED <<pc, currentFiber, stopped, shutdown, numBlockedFibers, notifyAdded,
                        sleepUntil>>
         /\ \A d \in Clients \ {c} : client'[d] = client[d]
         /\ waiting' = waiting \/ \E f : waiting' = Erase(waiting, f)
         /\ woken => woken'
         /\ client[c].at = "added" => ClientNotifiesAdded(c)
         /\ num' <= num \/ (notifyAdded => client'[c].at = "added")
<1> USE DEF workVars, sleepVars, fiberVars, ctrlVars, clientVars, taskVars
<1> DEFINE Goal ==
         /\ UNCHANGED <<pc, currentFiber, stopped, shutdown, numBlockedFibers, notifyAdded,
                        sleepUntil>>
         /\ \A d \in Clients \ {c} : client'[d] = client[d]
         /\ waiting' = waiting \/ \E f : waiting' = Erase(waiting, f)
         /\ woken => woken'
         /\ client[c].at = "added" => ClientNotifiesAdded(c)
         /\ num' <= num \/ (notifyAdded => client'[c].at = "added")
<1>0. /\ num \in Nat /\ client \in [Clients -> [at : {"idle", "notify", "added"},
                                              task : Tasks \cup {NoTask}]]
      /\ Idle.at = "idle"
  BY DEF TypeOK, Idle
<1>1. CASE ClientNotifiesAdded(c)
  <2>1. num' = num
    BY Zenon, <1>1 DEF ClientNotifiesAdded
  <2>2. num' <= num
    BY <1>0, <2>1
  <2> QED BY Zenon, <1>0, <1>1, <2>2 DEF ClientNotifiesAdded
<1>2. CASE ClientNotifiesNobody(c) \/ ClientUnlocks(c)
  <2>1. num' = num /\ client[c].at = "notify"
    BY Zenon, <1>2 DEF ClientNotifiesNobody, ClientUnlocks
  <2>2. num' <= num
    BY <1>0, <2>1
  <2>3. CASE ClientNotifiesNobody(c)
    BY Zenon, <1>0, <2>1, <2>2, <2>3 DEF ClientNotifiesNobody
  <2>4. CASE ClientUnlocks(c)
    BY Zenon, <1>0, <2>1, <2>2, <2>4 DEF ClientUnlocks
  <2> QED BY <1>2, <2>3, <2>4
<1>3. ASSUME NEW f, EnqueueFiber(f)
      PROVE  /\ UNCHANGED numBlockedFibers
             /\ waiting' = waiting \/ waiting' = Erase(waiting, f)
             /\ NeedsEnqueue(f) \/ UNCHANGED num
  BY Zenon, <1>3 DEF EnqueueFiber
<1>4. ASSUME ThenNotify(c, NoTask)
      PROVE  /\ notifyAdded => client'[c].at = "added"
             /\ \A d \in Clients \ {c} : client'[d] = client[d]
  BY <1>0, <1>4 DEF ThenNotify
<1>5. CASE ClientNotifies(c)
  <2>1. PICK f : f = registered[client[c].task]
    OBVIOUS
  <2>2. /\ client[c].at = "notify" /\ EnqueueFiber(f)
        /\ client' = IF notifyAdded /\ NeedsEnqueue(f) THEN [client EXCEPT ![c].at = "added"]
                     ELSE [client EXCEPT ![c] = Idle]
        /\ UNCHANGED <<pc, currentFiber, stopped, shutdown, notifyAdded, sleepUntil, woken>>
    BY Zenon, <1>5, <2>1 DEF ClientNotifies
  <2>3. \A d \in Clients \ {c} : client'[d] = client[d]
    BY <1>0, <2>2
  <2>4. num' <= num \/ (notifyAdded => client'[c].at = "added")
    <3>1. NeedsEnqueue(f) => (notifyAdded => client'[c].at = "added")
      BY <1>0, <2>2
    <3>2. UNCHANGED num => num' <= num
      BY <1>0
    <3> QED BY Zenon, <1>3, <2>2, <3>1, <3>2
  <2> QED BY Zenon, <1>3, <2>2, <2>3, <2>4
<1>6. ASSUME NEW t, ClientEnqueues(c, t) PROVE Goal
  BY Zenon, <1>0, <1>4, <1>6 DEF ClientEnqueues, EnqueueTask
<1>7. CASE ClientSteals(c)
  <2>1. num' = num - 1
    BY Zenon, <1>7 DEF ClientSteals
  <2>2. num' <= num
    BY <1>0, <2>1
  <2> QED BY Zenon, <1>0, <1>7, <2>2 DEF ClientSteals
<1>8. ASSUME NEW t, NEW p, ClientSignals(c, t, p) PROVE Goal
  <2>1. num' = num /\ client[c] = Idle
    BY Zenon, <1>8 DEF ClientSignals
  <2>2. num' <= num
    BY <1>0, <2>1
  <2> QED BY Zenon, <1>0, <1>8, <2>1, <2>2 DEF ClientSignals
<1>9. ASSUME NEW t, ClientNotifiesRaw(c, t) PROVE Goal
  BY Zenon, <1>0, <1>3, <1>4, <1>9 DEF ClientNotifiesRaw
<1> QED BY Zenon, <1>1, <1>2, <1>5, <1>6, <1>7, <1>8, <1>9 DEF ClientStep, ClientStarts

\* The worker wakes for what is added while it sleeps, and in time for every
\* timeout.
LEMMA NextSleep ==
  ASSUME IInv, AsksToBeNotified, NoLostWork, TimeoutNotLost, [Next]_vars
  PROVE  AsksToBeNotified' /\ NoLostWork' /\ TimeoutNotLost'
<1>1. CASE ~Asleep'
  BY Zenon, <1>1 DEF AsksToBeNotified, NoLostWork, TimeoutNotLost
<1>2. CASE Asleep'
  <2>0. /\ InSync(waiting) /\ num \in Nat
        /\ \A f \in DOMAIN waiting.fibers : waiting.fibers[f] \in Nat
    <3>1. Times \subseteq Nat
      BY WorkerAssumption DEF Times, NoTimeout
    <3>2. \A f \in DOMAIN waiting.fibers : f \in Fibers
      BY Zenon DEF IInv, TypeOK
    <3> QED BY ZenonT(60), <3>1, <3>2 DEF IInv, TypeOK, WaitingInSync
  <2>1. NoLostWork' <=> (SleepPred' => woken' \/ \E d \in Clients : client'[d].at = "added")
    BY Zenon, <1>2 DEF NoLostWork, SleepPred
  <2>2. CASE Run \/ WorkWaits \/ RunWakes \/ WorkWakes
    <3>1. /\ ~SleepPred' /\ UNCHANGED waiting
          /\ \/ notifyAdded' /\ sleepUntil' = TimePoint
             \/ Asleep /\ UNCHANGED <<notifyAdded, sleepUntil>>
      BY Zenon, <1>2, <2>2, FallsAsleep
    <3>2. AsksToBeNotified' /\ NoLostWork'
      <4>1. AsksToBeNotified'
        BY <3>1 DEF AsksToBeNotified
      <4> QED BY Zenon, <2>1, <3>1, <4>1
    <3>3. CASE sleepUntil' = TimePoint
      <4>1. ASSUME NEW f \in DOMAIN waiting.fibers PROVE TimePoint <= waiting.fibers[f]
        <5>1. IsWaiting(waiting)
          BY Zenon DEF IsWaiting
        <5> QED BY Zenon, <2>0, <5>1, NextTimeoutLeast DEF TimePoint
      <4> QED BY Zenon, <3>1, <3>2, <3>3, <4>1 DEF TimeoutNotLost
    <3>4. CASE Asleep /\ UNCHANGED <<notifyAdded, sleepUntil>>
      BY Zenon, <3>1, <3>2, <3>4 DEF TimeoutNotLost
    <3> QED BY Zenon, <3>1, <3>3, <3>4, <3>2
  <2>3. ASSUME NEW c \in Clients, ClientStep(c) \/ ClientStarts(c)
        PROVE  AsksToBeNotified' /\ NoLostWork' /\ TimeoutNotLost'
    <3>1. /\ UNCHANGED <<pc, currentFiber, stopped, shutdown, numBlockedFibers, notifyAdded,
                         sleepUntil>>
          /\ \A d \in Clients \ {c} : client'[d] = client[d]
          /\ waiting' = waiting \/ \E f : waiting' = Erase(waiting, f)
          /\ woken => woken'
          /\ client[c].at = "added" => ClientNotifiesAdded(c)
          /\ num' <= num \/ (notifyAdded => client'[c].at = "added")
      BY Zenon, <2>3, ClientSteps DEF IInv
    <3>2. Asleep /\ notifyAdded
      BY Zenon, <1>2, <3>1 DEF Asleep, AsksToBeNotified
    <3>3. AsksToBeNotified'
      BY Zenon, <3>1, <3>2 DEF AsksToBeNotified
    <3>4. /\ DOMAIN waiting'.fibers \subseteq DOMAIN waiting.fibers
          /\ \A f \in DOMAIN waiting'.fibers : waiting'.fibers[f] = waiting.fibers[f]
      <4>1. CASE waiting' = waiting
        BY Zenon, <4>1
      <4>2. ASSUME NEW f, waiting' = Erase(waiting, f)
            PROVE  /\ DOMAIN waiting'.fibers = DOMAIN waiting.fibers \ {f}
                   /\ \A g \in DOMAIN waiting.fibers \ {f} : waiting'.fibers[g] = waiting.fibers[g]
        BY Zenon, <2>0, <4>2, EraseInSync
      <4> QED BY Zenon, <3>1, <4>1, <4>2
    <3>5. TimeoutNotLost'
      BY Zenon, <3>1, <3>2, <3>4 DEF TimeoutNotLost
    <3>6. CASE ClientNotifiesAdded(c)
      BY Zenon, <2>1, <3>2, <3>3, <3>5, <3>6 DEF ClientNotifiesAdded
    <3>7. CASE ~ClientNotifiesAdded(c) /\ num' <= num
      <4>1. IsWaiting(waiting') => IsWaiting(waiting)
        BY Zenon, <3>4 DEF IsWaiting
      <4>2. num' > 0 => num > 0
        <5>1. num' \in Nat
          BY Zenon, NextInv DEF IInv, TypeOK
        <5>2. num \in Nat /\ num' <= num
          BY Zenon, <2>0, <3>7 DEF IInv, TypeOK
        <5> QED BY ONLY SMTT(30), ZenonT(60), <5>1, <5>2
      <4>3. SleepPred' => SleepPred
        BY Zenon, <3>1, <4>1, <4>2 DEF SleepPred, RunPred, WorkPred
      <4> QED BY Zenon, <2>1, <3>1, <3>2, <3>3, <3>5, <3>7, <4>3 DEF NoLostWork, SleepPred
    <3> QED BY Zenon, <2>1, <3>1, <3>2, <3>3, <3>5, <3>6, <3>7
  <2>4. CASE Tick \/ UNCHANGED vars
    <3>1. UNCHANGED <<pc, currentFiber, stopped, shutdown, numBlockedFibers, notifyAdded, num,
                      sleepUntil, waiting, woken, client>>
      BY Zenon, <2>4 DEF Tick, vars, workVars, sleepVars, fiberVars, ctrlVars, clientVars
    <3> QED BY Zenon, <3>1 DEF AsksToBeNotified, NoLostWork, TimeoutNotLost, Asleep, RunPred,
              WorkPred, IsWaiting
  <2> QED BY Zenon, <1>2, <2>2, <2>3, <2>4, EndsElsewhere DEF Next, WorkerStep, Terminated,
             Quiescent
<1> QED BY <1>1, <1>2
-----------------------------------------------------------------------------
(* Waiting.                                                                *)

\* The steps that touch a predicate, the lock of a wait() or the list of fibers to
\* notify.
LEMMA WaitSteps ==
  ASSUME [Next]_vars,
         ~\E d \in Timepoints \cup {NoTimeout} : BeginWait(d) \/ RawWait(d),
         ~LockAndSuspend, ~BlockedResumes, ~Relock,
         ~\E c \in Clients : ClientStep(c) \/ ClientStarts(c)
  PROVE  UNCHANGED <<pred, waitLock, registered, client>>
BY ZenonT(60) DEF Next, WorkerStep, TaskStep, Terminated,
   Quiescent, vars, userVars, clientVars, Start, Run, RunWakes, RunUntilShutdown, Exit, WaitForWork,
   SpinForWorkAndLock, WorkWaits, WorkWakes, EnqueueFiberTimeouts, TimeoutsTaken,
   TakeTimeout, RunFiber, IdleResumes, RunTask, RunUntilIdleReturns, TaskReturns,
   StopSingleThreaded, SwitchToQueued, SwitchToIdle, SwitchToNew,
   TaskSchedules, TaskNotifies, RunWakesSpuriously, WorkWakesSpuriously,
   SpinSteals, Tick, WorkWait, WakeUp, WakeUpSpuriously

\* The steps that touch the state of a fiber.
LEMMA StateSteps ==
  ASSUME [Next]_vars,
         ~LockAndSuspend, ~\E d \in Timepoints \cup {NoTimeout} : RawWait(d),
         ~\E a \in waiting.timeouts : TakeTimeout(a), ~RunFiber, ~IdleResumes, ~BlockedResumes,
         ~\E t \in Tasks : TaskNotifies(t),
         ~\E c \in Clients : ClientNotifies(c) \/ \E t \in Tasks : ClientNotifiesRaw(c, t)
  PROVE  UNCHANGED state
BY ZenonT(60) DEF Next, WorkerStep, TaskStep, ClientStep, ClientStarts, Terminated,
   Quiescent, vars, fiberVars, Start, Run, RunWakes, RunUntilShutdown, Exit, WaitForWork,
   SpinForWorkAndLock, WorkWaits, WorkWakes, EnqueueFiberTimeouts, TimeoutsTaken,
   RunTask, RunUntilIdleReturns, TaskReturns,
   StopSingleThreaded, SwitchToQueued, SwitchToIdle, SwitchToNew, Relock,
   BeginWait, TaskSchedules, RunWakesSpuriously, WorkWakesSpuriously,
   SpinSteals, ClientNotifiesAdded, ClientNotifiesNobody, ClientEnqueues,
   ClientSteals, ClientUnlocks, ClientSignals, Tick, WorkWait, WakeUp, WakeUpSpuriously

\* Worker::enqueue(Fiber*) leaves no fiber that it is given suspended.
LEMMA EnqueuedState ==
  ASSUME TypeOK, NEW f \in Fibers, EnqueueFiber(f)
  PROVE  /\ state'[f] \in {"Running", "Queued"}
         /\ \A g \in Fibers \ {f} : state'[g] = state[g]
BY Zenon DEF TypeOK, EnqueueFiber, NeedsEnqueue

\* Only suspend() makes a fiber Yielded or Waiting.
LEMMA OnlySuspends ==
  ASSUME IInv, [Next]_vars, ~LockAndSuspend,
         ~\E d \in Timepoints \cup {NoTimeout} : RawWait(d), NEW f \in Fibers
  PROVE  state'[f] \in {"Yielded", "Waiting"} => state'[f] = state[f]
<1>0. /\ TypeOK /\ currentFiber \in Fibers /\ state \in [Fibers -> States]
      /\ \A a \in waiting.timeouts : a.fiber \in Fibers
      /\ \A t \in Tasks : registered[t] # NoFiber => registered[t] \in Fibers
      /\ \A c \in Clients : client[c].at = "notify" => client[c].task \in Tasks
  <2>1. \A a \in waiting.timeouts : a.fiber \in Fibers
    BY Zenon DEF IInv, TypeOK
  <2>2. TypeOK /\ Registered
    BY DEF IInv
  <2>3. \A t \in Tasks : registered[t] # NoFiber => registered[t] \in Fibers
    BY Zenon, <2>2 DEF TypeOK
  <2>4. currentFiber \in Fibers /\ state \in [Fibers -> States]
    BY Zenon, <2>2 DEF TypeOK
  <2> QED BY Zenon, <2>1, <2>2, <2>3, <2>4 DEF Registered
<1>1. ASSUME NEW g \in Fibers, NEW s, s \notin {"Yielded", "Waiting"},
             state' = [state EXCEPT ![g] = s]
      PROVE  state'[f] \in {"Yielded", "Waiting"} => state'[f] = state[f]
  BY Zenon, <1>0, <1>1
<1>2. ASSUME NEW g \in Fibers, EnqueueFiber(g)
      PROVE  state'[f] \in {"Yielded", "Waiting"} => state'[f] = state[f]
  BY Zenon, <1>0, <1>2, EnqueuedState
<1>3. CASE \E a \in waiting.timeouts : TakeTimeout(a)
  BY Zenon, <1>0, <1>1, <1>3 DEF TakeTimeout
<1>4. CASE RunFiber \/ IdleResumes \/ BlockedResumes
  BY Zenon, <1>0, <1>1, <1>4 DEF RunFiber, IdleResumes, BlockedResumes
<1>5. CASE \E t \in Tasks : TaskNotifies(t)
  BY Zenon, <1>0, <1>2, <1>5 DEF TaskNotifies, InRawWait
<1>6. CASE \E c \in Clients : ClientNotifies(c) \/ \E t \in Tasks : ClientNotifiesRaw(c, t)
  BY Zenon, <1>0, <1>2, <1>6 DEF ClientNotifies, ClientNotifiesRaw, InRawWait
<1>7. CASE UNCHANGED state
  BY Zenon, <1>7
<1> QED BY Zenon, <1>3, <1>4, <1>5, <1>6, <1>7, StateSteps

\* While a client is inside the notification of a wait() its predicate stays true.
LEMMA ClientWaitSteps ==
  ASSUME IInv, NEW c \in Clients, ClientStep(c) \/ ClientStarts(c)
  PROVE  /\ UNCHANGED <<registered, pc, currentFiber, task>>
         /\ \A t \in Tasks :
              /\ waitLock[t] = "fiber" => waitLock'[t] = "fiber"
              /\ \/ pred'[t] = pred[t]
                 \/ waitLock[t] = "free" /\ client'[c] = [at |-> "notify", task |-> t]
         /\ \A d \in Clients \ {c} : client'[d] = client[d]
         /\ client[c].at = "notify" =>
              client'[c] = client[c] \/ ClientNotifies(c) \/ ClientNotifiesNobody(c)
<1> USE DEF userVars, clientVars, fiberVars
<1>0. /\ pred \in [Tasks -> BOOLEAN] /\ c # "fiber"
      /\ waitLock \in [Tasks -> {"free", "fiber"} \cup Clients]
      /\ client \in [Clients -> [at : {"idle", "notify", "added"}, task : Tasks \cup {NoTask}]]
      /\ Idle.at = "idle"
  <2>1. c # "fiber"
    BY WorkerAssumption
  <2>2. Idle.at = "idle"
    BY DEF Idle
  <2> QED BY Zenon, <2>1, <2>2 DEF IInv, TypeOK
<1>1. ASSUME Release(c) PROVE \A t \in Tasks : waitLock[t] = "fiber" => waitLock'[t] = "fiber"
  BY Zenon, <1>0, <1>1 DEF Release
<1>a. /\ UNCHANGED <<registered, pc, currentFiber, task>>
      /\ \A d \in Clients \ {c} : client'[d] = client[d]
  <2>1. UNCHANGED <<registered, pc, currentFiber, task>>
    BY Zenon DEF ClientStep, ClientStarts, ClientNotifiesAdded, ClientNotifiesNobody,
       ClientNotifies, ClientEnqueues, ClientSteals, ClientUnlocks, ClientSignals, ClientNotifiesRaw
  <2> QED BY Zenon, <2>1, ClientSteps DEF IInv
<1>2. ASSUME ~\E t \in Tasks \ RawTasks, p \in BOOLEAN : ClientSignals(c, t, p) PROVE UNCHANGED pred
  BY Zenon, <1>2 DEF ClientStep, ClientStarts, ClientNotifiesAdded, ClientNotifiesNobody,
     ClientNotifies, ClientEnqueues, ClientSteals, ClientUnlocks, ClientNotifiesRaw
<1>3. \A t \in Tasks : \/ pred'[t] = pred[t]
                       \/ waitLock[t] = "free" /\ client'[c] = [at |-> "notify", task |-> t]
  <2>1. ASSUME NEW u \in Tasks, NEW p \in BOOLEAN, ClientSignals(c, u, p), NEW t \in Tasks
        PROVE  \/ pred'[t] = pred[t]
               \/ waitLock[t] = "free" /\ client'[c] = [at |-> "notify", task |-> t]
    BY Zenon, <1>0, <2>1 DEF ClientSignals
  <2> QED BY Zenon, <1>2, <2>1
<1>4. \A t \in Tasks : waitLock[t] = "fiber" => waitLock'[t] = "fiber"
  <2>1. ASSUME NEW u \in Tasks, NEW p \in BOOLEAN, ClientSignals(c, u, p), NEW t \in Tasks,
               waitLock[t] = "fiber"
        PROVE  waitLock'[t] = "fiber"
    BY Zenon, <1>0, <2>1 DEF ClientSignals
  <2>2. ASSUME ~\E t \in Tasks \ RawTasks, p \in BOOLEAN : ClientSignals(c, t, p)
        PROVE  Release(c) \/ UNCHANGED waitLock
    BY Zenon, <2>2 DEF ClientStep, ClientStarts, ClientNotifiesAdded, ClientNotifiesNobody,
     ClientNotifies, ClientEnqueues, ClientSteals, ClientUnlocks, ClientNotifiesRaw
  <2> QED BY Zenon, <1>1, <2>1, <2>2
<1>5. client[c].at = "notify" =>
        client'[c] = client[c] \/ ClientNotifies(c) \/ ClientNotifiesNobody(c)
  BY Zenon, <1>0 DEF ClientStep, ClientStarts, ClientNotifiesAdded, ClientEnqueues, ClientSteals,
     ClientUnlocks, ClientSignals, ClientNotifiesRaw
<1> QED BY ZenonT(60), <1>a, <1>3, <1>4, <1>5

\* A notify() is not lost between the test of the predicate and the suspension.
LEMMA NextWakeup ==
  ASSUME IInv, LockedUntilSuspend, NoLostWakeup, [Next]_vars
  PROVE  LockedUntilSuspend' /\ NoLostWakeup'
<1> DEFINE Begins == \E d \in Timepoints \cup {NoTimeout} : BeginWait(d)
           Client == \E c \in Clients : ClientStep(c) \/ ClientStarts(c)
           Notify(t) == [at |-> "notify", task |-> t]
<1>0. /\ TypeOK /\ currentFiber \in Fibers
      /\ pc \in [Fibers -> Places] /\ task \in [Fibers -> AllTasks \cup {NoTask}]
      /\ state \in [Fibers -> States] /\ pred \in [Tasks -> BOOLEAN]
      /\ waitLock \in [Tasks -> {"free", "fiber"} \cup Clients]
      /\ registered \in [Tasks -> Fibers \cup {NoFiber}]
      /\ NoFiber \notin Fibers
      /\ \A t \in Tasks : registered[t] # NoFiber => task[registered[t]] = t
  BY Zenon, NoFiberType DEF IInv, TypeOK, Registered
<1>1. LockedUntilSuspend'
  <2>1. CASE Begins
    <3>1. PICK d \in Timepoints \cup {NoTimeout} : BeginWait(d)
      BY <2>1
    <3>2. /\ MyTask' = MyTask /\ MyTask \in Tasks /\ ~pred[MyTask] /\ UNCHANGED pred
          /\ waitLock' = [waitLock EXCEPT ![MyTask] = "fiber"]
      BY Zenon, <3>1 DEF BeginWait, MyTask
    <3> QED BY Zenon, <1>0, <3>2 DEF LockedUntilSuspend
  <2>2. CASE Relock
    <3>1. /\ MyTask' = MyTask /\ UNCHANGED <<pred, currentFiber>>
          /\ \/ Goto("task")
             \/ ~pred[MyTask] /\ waitLock' = [waitLock EXCEPT ![MyTask] = "fiber"]
      BY Zenon, <2>2 DEF Relock, MyTask
    <3> QED BY Zenon, <1>0, <3>1 DEF LockedUntilSuspend, Goto
  <2>3. ASSUME NEW c \in Clients, ClientStep(c) \/ ClientStarts(c) PROVE LockedUntilSuspend'
    BY ZenonT(60), <1>0, <2>3, ClientWaitSteps DEF LockedUntilSuspend, MyTask
  <2>4. CASE Tick \/ UNCHANGED vars
    BY Zenon, <2>4 DEF LockedUntilSuspend, MyTask, Tick, vars, fiberVars, userVars
  <2>5. CASE Run \/ RunWakes \/ WorkWaits \/ WorkWakes
    <3>1. UNCHANGED currentFiber /\ pc[currentFiber] # "lockWork"
      BY Zenon, <2>5 DEF Run, RunWakes, WorkWaits, WorkWakes, WorkWait, WakeUp, At, fiberVars
    <3>2. \/ UNCHANGED pc
          \/ \E p \in {"runAsleep", "asleep", "runUntilShutdown", "timeouts"} : Goto(p)
      BY Zenon, <2>5 DEF Run, RunWakes, WorkWaits, WorkWakes, WorkWait, WakeUp, WorkWaitReturns
    <3>3. pc'[currentFiber'] # "lockWork"
      BY Zenon, <1>0, <3>1, <3>2 DEF Goto
    <3> QED BY Zenon, <3>3 DEF LockedUntilSuspend
  <2>6. CASE pc'[currentFiber'] # "lockWork"
    BY Zenon, <2>6 DEF LockedUntilSuspend
  <2> QED BY Zenon, <2>1, <2>2, <2>3, <2>4, <2>5, <2>6, EndsElsewhere
          DEF Next, WorkerStep, Terminated, Quiescent
<1>2. SUFFICES ASSUME NEW t \in Tasks \ RawTasks, NEW f \in Fibers, registered'[t] = f,
                      pred'[t], state'[f] \in {"Yielded", "Waiting"}
               PROVE  \E c \in Clients : client'[c] = Notify(t)
  <2>1. registered' \in [Tasks -> Fibers \cup {NoFiber}]
    BY Zenon, NextInv DEF IInv, TypeOK
  <2> QED BY Zenon, <1>1, <2>1 DEF NoLostWakeup
<1>3. ASSUME registered[t] = f, pred[t], state[f] \in {"Yielded", "Waiting"}
      PROVE  \E c \in Clients : client[c] = Notify(t)
  BY Zenon, <1>0, <1>3 DEF NoLostWakeup
<1>4. CASE Begins
  <2>1. PICK d \in Timepoints \cup {NoTimeout} : BeginWait(d)
    BY <1>4
  <2>2. /\ ~pred[MyTask] /\ UNCHANGED <<pred, client, state>>
        /\ registered' = [registered EXCEPT ![MyTask] = currentFiber]
    BY Zenon, <2>1 DEF BeginWait, clientVars
  <2>3. t # MyTask
    BY Zenon, <1>2, <2>2
  <2> QED BY Zenon, <1>0, <1>2, <1>3, <2>2, <2>3
<1>5. CASE LockAndSuspend
  <2>1. /\ pc[currentFiber] = "lockWork" /\ UNCHANGED <<registered, pred, client>>
        /\ \E s : state' = [state EXCEPT ![currentFiber] = s]
    BY Zenon, <1>5 DEF LockAndSuspend, At, clientVars, Suspend
  <2>2. f # currentFiber
    BY Zenon, <1>0, <1>2, <2>1 DEF LockedUntilSuspend, MyTask
  <2>3. state'[f] = state[f]
    BY Zenon, <1>0, <2>1, <2>2
  <2> QED BY Zenon, <1>2, <1>3, <2>1, <2>3
<1>6. CASE \E d \in Timepoints \cup {NoTimeout} : RawWait(d)
  <2>1. /\ MyTask \in RawTasks /\ UNCHANGED <<pred, client>>
        /\ registered' = [registered EXCEPT ![MyTask] = currentFiber]
        /\ \E s : state' = [state EXCEPT ![currentFiber] = s]
    BY Zenon, <1>6 DEF RawWait, clientVars, Suspend
  <2>2. registered'[t] = registered[t] /\ f # currentFiber
    BY Zenon, <1>0, <1>2, <2>1 DEF MyTask
  <2>3. state'[f] = state[f]
    BY Zenon, <1>0, <2>1, <2>2
  <2> QED BY Zenon, <1>2, <1>3, <2>1, <2>2, <2>3
<1>7. CASE ~LockAndSuspend /\ ~\E d \in Timepoints \cup {NoTimeout} : RawWait(d)
  <2>1. state[f] \in {"Yielded", "Waiting"}
    BY Zenon, <1>2, <1>7, OnlySuspends
  <2>2. CASE BlockedResumes \/ Relock
    <3>1. /\ UNCHANGED <<pred, client>>
          /\ \/ UNCHANGED registered
             \/ registered' = [registered EXCEPT ![MyTask] = NoFiber]
      BY Zenon, <2>2 DEF BlockedResumes, Relock, clientVars
    <3>2. registered[t] = f
      BY ZenonT(60), <1>0, <1>2, <3>1
    <3> QED BY Zenon, <1>2, <1>3, <2>1, <3>1, <3>2
  <2>3. ASSUME NEW c \in Clients, ClientStep(c) \/ ClientStarts(c)
        PROVE  \E d \in Clients : client'[d] = Notify(t)
    <3>1. registered[t] = f
      BY Zenon, <1>2, <2>3, ClientWaitSteps
    <3>2. CASE pred'[t] # pred[t]
      BY ZenonT(60), <2>3, <3>2, ClientWaitSteps
    <3>3. CASE pred'[t] = pred[t]
      <4>0. pred[t]
        BY <1>2, <3>3
      <4>1. PICK d \in Clients : client[d] = Notify(t)
        BY Zenon, <1>3, <2>1, <3>1, <4>0
      <4>2. client[d].at = "notify" /\ client[d].task = t
        BY <4>1
      <4>3. ~(d = c /\ ClientNotifiesNobody(c))
        BY ZenonT(60), <1>0, <1>2, <3>1, <4>2 DEF ClientNotifiesNobody
      <4>4. ASSUME d = c, ClientNotifies(c) PROVE FALSE
        <5>1. EnqueueFiber(f)
          BY Zenon, <3>1, <4>2, <4>4 DEF ClientNotifies
        <5> QED BY Zenon, <1>0, <1>2, <5>1, EnqueuedState
      <4> QED BY ZenonT(60), <2>3, <4>1, <4>2, <4>3, <4>4, ClientWaitSteps
    <3> QED BY <3>2, <3>3
  <2>4. CASE ~Begins /\ ~BlockedResumes /\ ~Relock /\ ~Client
    <3>1. UNCHANGED <<pred, waitLock, registered, client>>
      BY ZenonT(60), <1>7, <2>4, WaitSteps
    <3> QED BY Zenon, <1>2, <1>3, <2>1, <3>1
  <2> QED BY Zenon, <1>4, <2>2, <2>3, <2>4
<1> QED BY Zenon, <1>5, <1>6, <1>7
-----------------------------------------------------------------------------
(* Tasks.                                                                  *)

\* The steps that move a task.
LEMMA TaskSteps ==
  ASSUME [Next]_vars, ~RunTask, ~TaskReturns, ~StopSingleThreaded,
         ~\E t \in Tasks : SpinSteals(t) \/ TaskSchedules(t),
         ~\E c \in Clients : ClientSteals(c) \/ \E t \in AllTasks : ClientEnqueues(c, t)
  PROVE  UNCHANGED <<tasks, task, scheduled, stolen, done>>
BY ZenonT(60) DEF Next, WorkerStep, TaskStep, ClientStep, ClientStarts, Terminated, Quiescent,
   vars, workVars, fiberVars, taskVars, Start, Run, RunWakes, RunUntilShutdown, Exit, WaitForWork,
   SpinForWorkAndLock, WorkWaits, WorkWakes, EnqueueFiberTimeouts, TimeoutsTaken, TakeTimeout,
   RunFiber, IdleResumes, RunUntilIdleReturns, LockAndSuspend, SwitchToQueued, SwitchToIdle,
   SwitchToNew, BlockedResumes, Relock, BeginWait, RawWait, TaskNotifies, RunWakesSpuriously,
   WorkWakesSpuriously, ClientNotifiesAdded, ClientNotifiesNobody, ClientNotifies, ClientUnlocks,
   ClientSignals, ClientNotifiesRaw, Tick, WorkWait, WakeUp, WakeUpSpuriously, EnqueueFiber

\* A task put at the end of the queue.
LEMMA AppendTask ==
  ASSUME TypeOK, NEW x \in AllTasks, tasks' = Append(tasks, x)
  PROVE  \A t : /\ InTasks(t)' <=> InTasks(t) \/ t = x
                /\ OnceInTasks(t) /\ ~(InTasks(t) /\ t = x) => OnceInTasks(t)'
<1>1. tasks \in Seq(AllTasks)
  BY DEF TypeOK
<1>2. /\ DOMAIN tasks' = 1..Len(tasks) + 1 /\ DOMAIN tasks = 1..Len(tasks) /\ Len(tasks) \in Nat
      /\ \A i \in 1..Len(tasks) : tasks'[i] = tasks[i]
      /\ tasks'[Len(tasks) + 1] = x
  BY <1>1
<1> QED BY <1>2 DEF InTasks, OnceInTasks

\* The first task taken off the queue.
LEMMA TakeTask ==
  ASSUME TypeOK, tasks # <<>>, NEW x, x = Head(tasks), tasks' = Tail(tasks)
  PROVE  /\ InTasks(x) /\ x \in AllTasks
         /\ \A t : /\ InTasks(t) <=> InTasks(t)' \/ t = x
                   /\ OnceInTasks(t) => OnceInTasks(t)'
         /\ OnceInTasks(x) => ~InTasks(x)'
<1>1. tasks \in Seq(AllTasks)
  BY DEF TypeOK
<1>2. /\ DOMAIN tasks = 1..Len(tasks) /\ Len(tasks) \in Nat \ {0}
      /\ DOMAIN tasks' = 1..(Len(tasks) - 1) /\ x = tasks[1] /\ x \in AllTasks
      /\ \A i \in 1..(Len(tasks) - 1) : tasks'[i] = tasks[i + 1]
  BY <1>1
<1>3. InTasks(x)
  BY <1>2 DEF InTasks
<1>4. \A t : InTasks(t)' => InTasks(t)
  BY <1>2 DEF InTasks
<1>5. ASSUME NEW t, InTasks(t), t # x PROVE InTasks(t)'
  <2>1. PICK i \in 1..Len(tasks) : tasks[i] = t
    BY <1>2, <1>5 DEF InTasks
  <2>2. i - 1 \in 1..(Len(tasks) - 1) /\ tasks'[i - 1] = t
    BY <1>2, <1>5, <2>1
  <2> QED BY Zenon, <1>2, <2>2 DEF InTasks
<1>6. ASSUME NEW t, OnceInTasks(t) PROVE OnceInTasks(t)'
  BY <1>2, <1>6 DEF OnceInTasks
<1>7. OnceInTasks(x) => ~InTasks(x)'
  BY <1>2 DEF InTasks, OnceInTasks
<1> QED BY ZenonT(60), <1>2, <1>3, <1>4, <1>5, <1>6, <1>7

\* enqueueAndUnlock(): a new task, or one that schedules itself again.
LEMMA EnqueueAccounts ==
  ASSUME IInv, Accounted, OnePlace, NEW x \in AllTasks, EnqueueTask(x), UNCHANGED task,
         x \notin scheduled \/ (x \in Periodic /\ OnFiber(x))
  PROVE  Accounted' /\ OnePlace'
<1>1. /\ tasks' = Append(tasks, x) /\ scheduled' = scheduled \cup {x}
      /\ UNCHANGED <<stolen, done>>
  BY Zenon DEF EnqueueTask
<1>2. \A t : /\ InTasks(t)' <=> InTasks(t) \/ t = x
             /\ OnceInTasks(t) /\ ~(InTasks(t) /\ t = x) => OnceInTasks(t)'
  BY Zenon, <1>1, AppendTask DEF IInv
<1>3. \A t : (OnFiber(t)' <=> OnFiber(t)) /\ (OnceOnFiber(t)' <=> OnceOnFiber(t))
  BY Zenon DEF OnFiber, OnceOnFiber
<1>4. Accounted'
  BY Zenon, <1>1, <1>2, <1>3 DEF Accounted
<1>5. ASSUME NEW t \in AllTasks \ Periodic
      PROVE  t = x => ~InTasks(t) /\ ~OnFiber(t) /\ t \notin stolen /\ t \notin done
  BY Zenon, <1>5 DEF Accounted
<1>6. OnePlace'
  BY Zenon, <1>1, <1>2, <1>3, <1>5 DEF OnePlace
<1> QED BY <1>4, <1>6

\* steal(): the first task goes to another worker.
LEMMA StealAccounts ==
  ASSUME IInv, Accounted, OnePlace, NEW c, ClientSteals(c)
  PROVE  Accounted' /\ OnePlace'
<1>1. PICK x : x = Head(tasks)
  OBVIOUS
<1>2. /\ tasks # <<>> /\ tasks' = Tail(tasks) /\ Stealable(x) /\ stolen' = stolen \cup {x}
      /\ UNCHANGED <<task, scheduled, done>>
  BY Zenon, <1>1 DEF ClientSteals, fiberVars
<1>3. /\ InTasks(x) /\ x \in AllTasks
      /\ \A t : /\ InTasks(t) <=> InTasks(t)' \/ t = x
                /\ OnceInTasks(t) => OnceInTasks(t)'
      /\ OnceInTasks(x) => ~InTasks(x)'
  BY Zenon, <1>1, <1>2, TakeTask DEF IInv
<1>4. \A t : (OnFiber(t)' <=> OnFiber(t)) /\ (OnceOnFiber(t)' <=> OnceOnFiber(t))
  BY Zenon, <1>2 DEF OnFiber, OnceOnFiber
<1>5. Accounted'
  BY Zenon, <1>2, <1>3, <1>4 DEF Accounted, Stealable
<1>6. OnePlace'
  BY Zenon, <1>2, <1>3, <1>4 DEF OnePlace
<1> QED BY <1>5, <1>6

\* runUntilIdle(): the first task goes onto the stack of the fiber.
LEMMA RunAccounts ==
  ASSUME IInv, Accounted, OnePlace, RunTask
  PROVE  Accounted' /\ OnePlace'
<1>1. PICK x : x = Head(tasks)
  OBVIOUS
<1> DEFINE me == currentFiber
<1>2. /\ tasks # <<>> /\ tasks' = Tail(tasks) /\ task' = [task EXCEPT ![me] = x]
      /\ UNCHANGED <<stolen, scheduled, done>> /\ pc[me] = "runUntilIdle"
  BY Zenon, <1>1 DEF RunTask, taskVars, At
<1>3. /\ InTasks(x) /\ x \in AllTasks
      /\ \A t : /\ InTasks(t) <=> InTasks(t)' \/ t = x
                /\ OnceInTasks(t) => OnceInTasks(t)'
      /\ OnceInTasks(x) => ~InTasks(x)'
  BY Zenon, <1>1, <1>2, TakeTask DEF IInv
<1>4. me \in Fibers /\ task \in [Fibers -> AllTasks \cup {NoTask}] /\ task[me] = NoTask
      /\ NoTask \notin AllTasks
  BY Zenon, <1>2, Here, WorkerAssumption DEF IInv, Placed, Looping, AllTasks
<1>5. \A f \in Fibers : task'[f] = IF f = me THEN x ELSE task[f]
  BY Zenon, <1>2, <1>4
<1>6. ASSUME NEW t \in AllTasks
      PROVE  /\ OnFiber(t)' <=> OnFiber(t) \/ t = x
             /\ OnceOnFiber(t) /\ ~(OnFiber(t) /\ t = x) => OnceOnFiber(t)'
  BY Zenon, <1>4, <1>5 DEF OnFiber, OnceOnFiber
<1>7. Accounted'
  BY Zenon, <1>2, <1>3, <1>6 DEF Accounted
<1>8. OnePlace'
  BY Zenon, <1>2, <1>3, <1>6 DEF OnePlace
<1> QED BY Zenon, <1>7, <1>8

\* A task returns.
LEMMA ReturnAccounts ==
  ASSUME IInv, Accounted, OnePlace, TaskReturns \/ StopSingleThreaded
  PROVE  Accounted' /\ OnePlace'
<1> DEFINE me == currentFiber
<1>1. PICK x : x = task[me]
  OBVIOUS
<1>2. /\ task' = [task EXCEPT ![me] = NoTask] /\ done' = done \cup {x}
      /\ UNCHANGED <<tasks, stolen, scheduled>> /\ pc[me] = "task"
  BY Zenon, <1>1 DEF TaskReturns, StopSingleThreaded, workVars, At
<1>3. me \in Fibers /\ task \in [Fibers -> AllTasks \cup {NoTask}] /\ x \in AllTasks
      /\ NoTask \notin AllTasks
  BY Zenon, <1>1, <1>2, Here, WorkerAssumption DEF IInv, Placed, Tasking, AllTasks
<1>4. \A f \in Fibers : task'[f] = IF f = me THEN NoTask ELSE task[f]
  BY Zenon, <1>2, <1>3
<1>5. \A t : (InTasks(t)' <=> InTasks(t)) /\ (OnceInTasks(t)' <=> OnceInTasks(t))
  BY Zenon, <1>2 DEF InTasks, OnceInTasks
<1>6. ASSUME NEW t \in AllTasks
      PROVE  /\ OnFiber(t)' => OnFiber(t)
             /\ OnFiber(t) => OnFiber(t)' \/ t = x
             /\ OnceOnFiber(t) => OnceOnFiber(t)'
             /\ OnceOnFiber(x) => ~OnFiber(x)'
             /\ OnFiber(x)
  BY Zenon, <1>1, <1>3, <1>4 DEF OnFiber, OnceOnFiber
<1>7. Accounted'
  BY Zenon, <1>2, <1>3, <1>5, <1>6 DEF Accounted
<1>8. OnePlace'
  BY Zenon, <1>2, <1>3, <1>5, <1>6 DEF OnePlace
<1> QED BY <1>7, <1>8

\* Every step keeps the account of the tasks.
LEMMA NextAccounts ==
  ASSUME IInv, Accounted, OnePlace, [Next]_vars
  PROVE  Accounted' /\ OnePlace'
<1>1. CASE RunTask \/ TaskReturns \/ StopSingleThreaded
  BY Zenon, <1>1, RunAccounts, ReturnAccounts
<1>2. ASSUME NEW t \in Tasks, SpinSteals(t) \/ TaskSchedules(t) PROVE Accounted' /\ OnePlace'
  <2>1. EnqueueTask(t) /\ UNCHANGED task /\ t \in AllTasks
    BY Zenon, <1>2 DEF SpinSteals, TaskSchedules, fiberVars, AllTasks
  <2>2. t \notin scheduled \/ (t \in Periodic /\ OnFiber(t))
    BY Zenon, <1>2, Here DEF SpinSteals, TaskSchedules, OnFiber, MyTask
  <2> QED BY Zenon, <2>1, <2>2, EnqueueAccounts
<1>3. ASSUME NEW c \in Clients, NEW t \in AllTasks, ClientEnqueues(c, t)
      PROVE  Accounted' /\ OnePlace'
  BY Zenon, <1>3, EnqueueAccounts DEF ClientEnqueues, fiberVars
<1>4. ASSUME NEW c \in Clients, ClientSteals(c) PROVE Accounted' /\ OnePlace'
  BY Zenon, <1>4, StealAccounts
<1>5. CASE UNCHANGED <<tasks, task, scheduled, stolen, done>>
  BY Zenon, <1>5 DEF Accounted, OnePlace, InTasks, OnFiber, OnceInTasks, OnceOnFiber
<1> QED BY Zenon, <1>1, <1>2, <1>3, <1>4, <1>5, TaskSteps

\* When the main fiber leaves run() or stop(), or has left it, nothing is left.
LEMMA NothingLeft ==
  ASSUME IInv, currentFiber = Main, pc[Main] = "exit"
  PROVE  /\ tasks = <<>> /\ fibers = <<>> /\ ~IsWaiting(waiting)
         /\ \A f \in Fibers : pc[f] # "blocked" /\ task[f] = NoTask
<1>1. /\ TypeOK /\ NumInSync /\ Placed /\ Listed /\ BlockedCounted
      /\ num = 0 /\ numBlockedFibers = 0
  BY Zenon DEF IInv, Leaving
<1>2. tasks = <<>> /\ fibers = <<>>
  BY SMTT(60), <1>1 DEF TypeOK, NumInSync
<1>3. \A f \in Fibers : pc[f] # "blocked"
  BY <1>1, BlockedPositive
<1>4. \A f \in Fibers : pc[f] \in {"none", "idle", "exited", "exit"}
  BY Zenon, <1>1, <1>3 DEF Placed, Parked
<1>5. \A f \in Fibers : task[f] = NoTask /\ ~InSuspend(f)
  BY Zenon, <1>1, <1>4 DEF Placed, Looping, InSuspend
<1>6. DOMAIN waiting.fibers = {}
  BY Zenon, <1>1, <1>5 DEF TypeOK, Listed, Placed, Contains
<1> QED BY Zenon, <1>2, <1>3, <1>5, <1>6 DEF IsWaiting

\* The worker is stopped only by the return of run() or stop().
LEMMA StopSteps == ASSUME [Next]_vars, ~Exit PROVE UNCHANGED stopped
BY ZenonT(60) DEF Next, WorkerStep, TaskStep, ClientStep, ClientStarts, Terminated, Quiescent,
   vars, ctrlVars, Start, Run, RunWakes, RunUntilShutdown, WaitForWork, RunTask, TaskReturns,
   StopSingleThreaded, TaskSchedules, SpinSteals, ClientSteals, ClientEnqueues,
   SpinForWorkAndLock, WorkWaits, WorkWakes, EnqueueFiberTimeouts, TimeoutsTaken, TakeTimeout,
   RunFiber, IdleResumes, RunUntilIdleReturns, LockAndSuspend, SwitchToQueued, SwitchToIdle,
   SwitchToNew, BlockedResumes, Relock, BeginWait, RawWait, TaskNotifies, RunWakesSpuriously,
   WorkWakesSpuriously, ClientNotifiesAdded, ClientNotifiesNobody, ClientNotifies, ClientUnlocks,
   ClientSignals, ClientNotifiesRaw, Tick, WorkWait, WakeUp, WakeUpSpuriously

\* Each step of the worker is a step of TaskQueue or none.
LEMMA StepSimulates ==
  ASSUME IInv, Accounted, OnePlace, Periodic = {}, [Next]_vars
  PROVE  [Promise!TQNext]_(Promise!tqVars)
<1> DEFINE started == {task[f] : f \in Fibers} \ {NoTask}
<1>0. NoTask \notin AllTasks /\ task \in [Fibers -> AllTasks \cup {NoTask}] /\ currentFiber \in Fibers
  BY Zenon, WorkerAssumption, Here DEF AllTasks
<1>1. \A t \in AllTasks : t \in started <=> OnFiber(t)
  BY Zenon, <1>0 DEF OnFiber
<1>2. \A t : t \in Promise!Queued <=> InTasks(t)
  BY Zenon DEF Promise!Queued, InTasks
<1>3. ASSUME stopped PROVE tasks = <<>> /\ (Multi => ShutdownTask \in scheduled)
  BY Zenon, <1>3, NothingLeft DEF IInv, Leaving
<1>4. ASSUME NEW x \in AllTasks, x \notin scheduled, EnqueueTask(x), UNCHANGED <<task, stopped>>,
             ~stopped
      PROVE  Promise!Schedule(x)
  <2>1. x \notin Promise!Queued \cup started \cup done \cup stolen
    BY Zenon, <1>1, <1>2, <1>4 DEF Accounted
  <2> QED BY Zenon, <1>4, <2>1 DEF Promise!Schedule, EnqueueTask
<1>5. ASSUME NEW t \in Tasks, SpinSteals(t) \/ TaskSchedules(t) PROVE Promise!TQNext
  <2>1. /\ t \in AllTasks /\ t \notin scheduled /\ EnqueueTask(t) /\ UNCHANGED <<task, stopped>>
        /\ ~stopped
    BY Zenon, <1>5 DEF SpinSteals, TaskSchedules, fiberVars, ctrlVars, AllTasks, At
  <2> QED BY Zenon, <1>4, <2>1 DEF Promise!TQNext
<1>6. ASSUME NEW c \in Clients, NEW t \in AllTasks, ClientEnqueues(c, t) PROVE Promise!TQNext
  <2>1. /\ t \notin scheduled /\ EnqueueTask(t) /\ UNCHANGED <<task, stopped>> /\ ~stopped
    BY Zenon, <1>3, <1>6 DEF ClientEnqueues, fiberVars, ctrlVars
  <2> QED BY Zenon, <1>4, <2>1 DEF Promise!TQNext
<1>7. ASSUME NEW c \in Clients, ClientSteals(c) PROVE Promise!TQNext
  <2>1. Promise!StealFirst
    BY Zenon, <1>3, <1>7 DEF ClientSteals, Stealable, Promise!StealFirst, fiberVars, ctrlVars
  <2> QED BY Zenon, <2>1 DEF Promise!TQNext
<1>8. CASE RunTask
  <2>1. PICK x : x = Head(tasks)
    OBVIOUS
  <2>2. /\ tasks # <<>> /\ tasks' = Tail(tasks) /\ task' = [task EXCEPT ![currentFiber] = x]
        /\ ~stopped /\ UNCHANGED <<stolen, done, stopped>> /\ pc[currentFiber] = "runUntilIdle"
    BY Zenon, <1>8, <2>1 DEF RunTask, taskVars, ctrlVars, At
  <2>3. x \in AllTasks /\ task[currentFiber] = NoTask
    BY Zenon, <1>0, <2>1, <2>2, NumPositive DEF IInv, Placed, Looping
  <2>4. \A f \in Fibers : task'[f] = IF f = currentFiber THEN x ELSE task[f]
    BY Zenon, <1>0, <2>2
  <2>5. started' = started \cup {x}
    BY Zenon, <1>0, <2>3, <2>4
  <2> QED BY Zenon, <2>1, <2>2, <2>5 DEF Promise!StartFirst, Promise!TQNext
<1>9. CASE TaskReturns \/ StopSingleThreaded
  <2>1. PICK x : x = task[currentFiber]
    OBVIOUS
  <2>2. /\ task' = [task EXCEPT ![currentFiber] = NoTask] /\ done' = done \cup {x}
        /\ ~stopped /\ UNCHANGED <<tasks, stolen, stopped>> /\ pc[currentFiber] = "task"
    BY Zenon, <1>9, <2>1 DEF TaskReturns, StopSingleThreaded, workVars, At
  <2>3. x \in AllTasks
    BY Zenon, <1>0, <2>1, <2>2 DEF IInv, Placed, Tasking
  <2>4. OnceOnFiber(x)
    BY Zenon, <2>3 DEF OnePlace
  <2>5. \A f \in Fibers : task'[f] = IF f = currentFiber THEN NoTask ELSE task[f]
    BY Zenon, <1>0, <2>2
  <2>6. x \in started /\ started' = started \ {x}
    BY Zenon, <1>0, <2>1, <2>3, <2>4, <2>5 DEF OnceOnFiber
  <2>7. Promise!Return(x)
    BY ZenonT(60), <2>2, <2>6 DEF Promise!Return
  <2> QED BY Zenon, <2>3, <2>7 DEF Promise!TQNext
<1>10. CASE Exit
  <2>1. UNCHANGED <<tasks, task, stolen, done>>
    BY Zenon, <1>10 DEF Exit, workVars, taskVars
  <2>2. CASE currentFiber = Main
    <3>1. ~stopped /\ stopped' = TRUE /\ pc[Main] = "exit"
      BY Zenon, <1>10, <2>2 DEF Exit, At
    <3>2. tasks = <<>> /\ started = {}
      BY Zenon, <2>2, <3>1, NothingLeft
    <3> QED BY Zenon, <2>1, <3>1, <3>2 DEF Promise!Close, Promise!TQNext
  <2>3. CASE currentFiber # Main
    BY Zenon, <1>10, <2>1, <2>3 DEF Exit, Promise!tqVars
  <2> QED BY <2>2, <2>3
<1>11. CASE UNCHANGED <<tasks, task, scheduled, stolen, done>> /\ ~Exit
  BY Zenon, <1>11, StopSteps DEF Promise!tqVars
<1> QED BY Zenon, <1>5, <1>6, <1>7, <1>8, <1>9, <1>10, <1>11, TaskSteps
-----------------------------------------------------------------------------
(* The guarantees.                                                         *)

\* They hold when the worker starts.
LEMMA InitGuarantees == Init => GInv
<1> SUFFICES ASSUME Init PROVE GInv
  OBVIOUS
<1>1. \A f \in Fibers : pc[f] \in {"none", "start", "task"}
  BY Zenon DEF Init, Main
<1>2. currentFiber \in Fibers /\ Main \in Fibers
  BY Zenon, ConstantTypes DEF Init
<1>3. ~Asleep /\ pc[currentFiber] # "lockWork"
  BY Zenon, <1>1, <1>2 DEF Asleep
<1>4. NoLostWakeup
  BY Zenon DEF Init, NoLostWakeup
<1>5. NoTask \notin AllTasks /\ MainTask \in AllTasks
  BY Zenon, WorkerAssumption DEF AllTasks
<1>6. \A t : ~InTasks(t) /\ OnceInTasks(t)
  BY DEF Init, InTasks, OnceInTasks
<1>7. ASSUME NEW t \in AllTasks
      PROVE  /\ OnFiber(t) <=> t = MainTask /\ ~Multi
             /\ OnceOnFiber(t)
  BY Zenon, <1>2, <1>5 DEF Init, OnFiber, OnceOnFiber
<1>8. Accounted
  BY Zenon, <1>6, <1>7 DEF Init, Accounted
<1>9. OnePlace
  BY Zenon, <1>6, <1>7 DEF Init, OnePlace
<1> QED BY Zenon, <1>3, <1>4, <1>8, <1>9 DEF GInv, AsksToBeNotified, NoLostWork, TimeoutNotLost,
          LockedUntilSuspend

\* The two invariants hold in every reachable state of a worker, whatever the mode
\* and however many fibers, tasks, clients and timeouts there are.
THEOREM Guarantees == Spec => [](IInv /\ GInv)
<1>1. IInv /\ GInv /\ [Next]_vars => IInv' /\ GInv'
  BY Zenon, NextInv, NextSleep, NextWakeup, NextAccounts DEF GInv
<1> QED BY <1>1, InitInv, InitGuarantees, PTL DEF Spec

\* A worker asleep in Work::wait() with work at hand has been notified, or is about
\* to be, though enqueueAndUnlock() notifies only when notifyAdded is set and after
\* it has released work.mutex.
THEOREM SleeperNotified == Spec => []NoLostWork
<1>1. GInv => NoLostWork
  BY Zenon DEF GInv
<1> QED BY <1>1, Guarantees, PTL

\* A worker asleep in Work::wait() sleeps no longer than any fiber of `waiting'
\* waits, though others take fibers off `waiting' while it sleeps.
THEOREM TimeoutsKept == Spec => []TimeoutNotLost
<1>1. GInv => TimeoutNotLost
  BY Zenon DEF GInv
<1> QED BY <1>1, Guarantees, PTL

\* A fiber suspended in wait(lock, pred) with its predicate true has a notifier
\* still to come: work.mutex is locked before the wait lock is released.
THEOREM WakeupsKept == Spec => []NoLostWakeup
<1>1. GInv => NoLostWakeup
  BY DEF GInv
<1> QED BY <1>1, Guarantees, PTL

\* When the worker's thread ends nothing is queued, waiting or blocked, and the
\* tasks that were enqueued and not stolen are just those that have returned.  (A
\* task that schedules itself again and may be stolen can have done both.)
THEOREM StopDrains == Periodic \subseteq SameThread => (Spec => []StopMeansDrained)
<1> SUFFICES ASSUME Periodic \subseteq SameThread PROVE Spec => []StopMeansDrained
  OBVIOUS
<1>1. ASSUME IInv, GInv PROVE StopMeansDrained
  <2> SUFFICES ASSUME stopped PROVE StopMeansDrained
    BY DEF StopMeansDrained
  <2>1. /\ tasks = <<>> /\ fibers = <<>> /\ ~IsWaiting(waiting)
        /\ \A f \in Fibers : pc[f] # "blocked" /\ task[f] = NoTask
    BY Zenon, <1>1, NothingLeft DEF IInv, Leaving
  <2>2. /\ NoTask \notin AllTasks /\ Created \subseteq Fibers
        /\ scheduled \subseteq AllTasks /\ done \subseteq AllTasks
    BY Zenon, <1>1, WorkerAssumption, CreatedType DEF AllTasks, IInv, TypeOK
  <2>3. \A t \in AllTasks : ~InTasks(t) /\ ~OnFiber(t)
    <3>1. \A t : ~InTasks(t)
      BY <2>1 DEF InTasks
    <3> QED BY Zenon, <2>1, <2>2, <3>1 DEF OnFiber
  <2>4. ASSUME NEW t \in done PROVE t \notin stolen
    BY Zenon, <1>1, <2>2 DEF GInv, Accounted, OnePlace, Stealable
  <2>5. scheduled \ stolen = done
    BY Zenon, <1>1, <2>2, <2>3, <2>4 DEF GInv, Accounted
  <2> QED BY Zenon, <2>1, <2>2, <2>5 DEF StopMeansDrained
<1> QED BY <1>1, Guarantees, PTL

\* The worker implements TaskQueue, its fairness aside: fibers, locks, sleeping,
\* spinning and timeouts never make it start a task twice or out of order, give
\* away a pinned task, or stop with a task unfinished.
THEOREM KeepsPromise == Periodic = {} => (Spec => Promise!TQSafety)
<1> SUFFICES ASSUME Periodic = {} PROVE Spec => Promise!TQSafety
  OBVIOUS
<1>1. Init => Promise!TQInit
  <2> SUFFICES ASSUME Init PROVE Promise!TQInit
    OBVIOUS
  <2>1. {task[f] : f \in Fibers} \ {NoTask} \in SUBSET AllTasks
    BY Zenon, WorkerAssumption DEF Init, AllTasks
  <2> QED BY Zenon, <2>1 DEF Init, Promise!TQInit
<1>2. IInv /\ GInv /\ [Next]_vars => [Promise!TQNext]_(Promise!tqVars)
  BY Zenon, StepSimulates DEF GInv
<1> QED BY <1>1, <1>2, Guarantees, PTL DEF Spec, Promise!TQSafety
=============================================================================
