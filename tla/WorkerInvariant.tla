-------------------------- MODULE WorkerInvariant --------------------------
(***************************************************************************)
(* The inductive invariant of Worker, its type correctness and the steps   *)
(* that enqueue a task or a fiber or move nothing else, for any number of  *)
(* fibers, tasks and clients, any bounds and both modes.                   *)
(*                                                                         *)
(* The invariants the runs check are not inductive one by one: that num    *)
(* does not underflow needs NumInSync, that numBlockedFibers does not      *)
(* needs BlockedCounted, that WaitingFibers::add() meets no old entry      *)
(* needs the relation of Fiber::state to where the fiber is, and that the  *)
(* main fiber is idle when run() leaves through it needs nearly all of     *)
(* them.  IInv is their conjunction with that relation.                    *)
(***************************************************************************)
EXTENDS Worker, FiniteSetTheorems, WellFoundedInduction, TLAPS

(* WaitingFibers, for any fibers and time points: its methods keep the two *)
(* containers in sync, and next() is the least time point.                 *)

\* add() of a fiber that is not there keeps the containers in sync.
LEMMA AddInSync ==
  ASSUME NEW w, NEW tp, NEW f, InSync(w), ~Contains(w, f)
  PROVE  /\ InSync(Add(w, tp, f))
         /\ Add(w, tp, f).timeouts = w.timeouts \cup {[timepoint |-> tp, fiber |-> f]}
         /\ DOMAIN Add(w, tp, f).fibers = DOMAIN w.fibers \cup {f}
         /\ Add(w, tp, f).fibers[f] = tp
         /\ \A g \in DOMAIN w.fibers : Add(w, tp, f).fibers[g] = w.fibers[g]
BY Zenon DEF InSync, Add, Contains

\* erase() keeps the containers in sync and removes just the given fiber.
LEMMA EraseInSync ==
  ASSUME NEW w, NEW f, InSync(w)
  PROVE  /\ InSync(Erase(w, f))
         /\ Erase(w, f).timeouts \subseteq w.timeouts
         /\ DOMAIN Erase(w, f).fibers = DOMAIN w.fibers \ {f}
         /\ \A g \in DOMAIN w.fibers \ {f} : Erase(w, f).fibers[g] = w.fibers[g]
<1>1. CASE ~Contains(w, f)
  BY <1>1 DEF Erase, Contains
<1>2. CASE Contains(w, f)
  <2>1. /\ Erase(w, f).timeouts = w.timeouts \ {[timepoint |-> w.fibers[f], fiber |-> f]}
        /\ Erase(w, f).fibers = [g \in DOMAIN w.fibers \ {f} |-> w.fibers[g]]
    BY <1>2 DEF Erase
  <2>2. InSync(Erase(w, f))
    BY <2>1 DEF InSync
  <2> QED BY <2>1, <2>2
<1> QED BY <1>1, <1>2

\* An entry of `timeouts' is about a fiber of the map; take() removes just it
\* and keeps the containers in sync.
LEMMA TakenInSync ==
  ASSUME NEW w, NEW a \in w.timeouts, InSync(w)
  PROVE  /\ Contains(w, a.fiber)
         /\ InSync(Taken(w, a))
         /\ Taken(w, a).timeouts \subseteq w.timeouts
         /\ DOMAIN Taken(w, a).fibers = DOMAIN w.fibers \ {a.fiber}
         /\ \A g \in DOMAIN w.fibers \ {a.fiber} : Taken(w, a).fibers[g] = w.fibers[g]
<1>1. PICK f \in DOMAIN w.fibers : a = [timepoint |-> w.fibers[f], fiber |-> f]
  BY DEF InSync
<1>2. /\ Taken(w, a).timeouts = w.timeouts \ {a}
      /\ Taken(w, a).fibers = [g \in DOMAIN w.fibers \ {a.fiber} |-> w.fibers[g]]
  BY DEF Taken
<1>3. InSync(Taken(w, a))
  BY <1>1, <1>2 DEF InSync
<1> QED BY <1>1, <1>2, <1>3 DEF Contains

\* next() of an object some fiber is in: the least time point of the map.
LEMMA NextTimeoutLeast ==
  ASSUME NEW w, InSync(w), IsWaiting(w), \A f \in DOMAIN w.fibers : w.fibers[f] \in Nat
  PROVE  /\ \E f \in DOMAIN w.fibers : NextTimeout(w) = w.fibers[f]
         /\ \A f \in DOMAIN w.fibers : NextTimeout(w) <= w.fibers[f]
<1> DEFINE points == {w.fibers[f] : f \in DOMAIN w.fibers}
<1>1. points \subseteq Nat /\ points # {}
  BY DEF IsWaiting
<1> DEFINE less == OpToRel(<, Nat)
<1>2. PICK p \in points : \A q \in points : ~(<<q, p>> \in less)
  <2>1. IsWellFoundedOn(less, Nat)
    BY Zenon, NatLessThanWellFounded
  <2> HIDE DEF less, points
  <2> QED BY ONLY Zenon, <1>1, <2>1, WFMin
<1>3. \A q \in points : p <= q
  <2>1. less = {ss \in Nat \X Nat : ss[1] < ss[2]}
    BY Zenon DEF OpToRel
  <2>2. ASSUME NEW q \in points, q < p PROVE FALSE
    <3>1. <<q, p>> \in Nat \X Nat /\ <<q, p>>[1] < <<q, p>>[2]
      BY <1>1, <2>2
    <3> HIDE DEF less, points
    <3> QED BY ONLY <1>2, <2>1, <2>2, <3>1
  <2> HIDE DEF less, points
  <2> QED BY ONLY <1>1, <1>2, <2>2
<1>4. PICK f \in DOMAIN w.fibers : p = w.fibers[f]
  OBVIOUS
<1>5. [timepoint |-> p, fiber |-> f] \in Begin(w)
  BY <1>1, <1>3, <1>4 DEF Begin, MayPrecede, InSync
<1>6. PICK a \in w.timeouts : a \in Begin(w) /\ NextTimeout(w) = a.timepoint
  BY Zenon, <1>5 DEF NextTimeout, Begin
<1>7. PICK g \in DOMAIN w.fibers : a = [timepoint |-> w.fibers[g], fiber |-> g]
  BY <1>6 DEF InSync
<1>8. \A h \in DOMAIN w.fibers : a.timepoint <= w.fibers[h]
  <2> TAKE h \in DOMAIN w.fibers
  <2>1. [timepoint |-> w.fibers[h], fiber |-> h] \in w.timeouts
    BY DEF InSync
  <2> QED BY <1>6, <2>1 DEF Begin, MayPrecede
<1> QED BY <1>6, <1>7, <1>8
-----------------------------------------------------------------------------
(* The invariant.                                                          *)

\* Where the code of a fiber is while no task is on its stack, ...
Looping == {"none", "start", "run", "runAsleep", "runUntilShutdown", "exit", "exited",
            "runUntilIdle", "idle"}
\* ... while a task is, ...
Tasking == {"task", "lockWork", "relock", "switch", "blocked"}
\* ... and while the fiber is not the current one.
Parked  == {"none", "blocked", "idle", "exited"}

\* Fiber::state, the stack and the place of each fiber go together.
Placed ==
  /\ currentFiber \in Created
  /\ \A f \in Fibers :
    /\ f \in Created <=> pc[f] # "none"
    /\ f # currentFiber => pc[f] \in Parked
    /\ pc[f] \in Looping => task[f] = NoTask
    /\ pc[f] \in Tasking => task[f] # NoTask
    /\ pc[f] = "idle" <=> state[f] = "Idle"
    /\ InSuspend(f) <=> state[f] \in {"Yielded", "Waiting", "Queued"}
  /\ pc[currentFiber] = "blocked" => state[currentFiber] = "Queued"
  /\ pc[Main] # "exited"

\* A fiber is in `waiting' iff Waiting, and in the queue, once, iff Queued.
Listed ==
  /\ \A i, j \in DOMAIN fibers : fibers[i] = fibers[j] => i = j
  /\ \A f \in Fibers : /\ state[f] = "Waiting" <=> Contains(waiting, f)
                       /\ InQueue(f) <=> state[f] = "Queued" /\ ~SwitchedTo(f)

\* idleFibers are the fibers parked in runUntilIdle(); the main fiber stays in
\* the set when run() of another fiber leaves through it.
IdleListed ==
  \A f \in Fibers :
    f \in idleFibers <=> (pc[f] = "idle" /\ f # currentFiber) \/ (f = Main /\ MainRejoined)

\* On the way out nothing is left to do, and nothing can be added.
Leaving ==
  /\ (MainRejoined \/ pc[currentFiber] = "exit")
       => shutdown /\ num = 0 /\ numBlockedFibers = 0
  /\ MainRejoined => /\ currentFiber = Main
                     /\ pc[Main] \in {"idle", "runUntilIdle", "runUntilShutdown", "exit"}
  /\ stopped => currentFiber = Main /\ pc[Main] = "exit"
  /\ shutdown /\ Multi => ShutdownTask \in scheduled
  /\ \A i \in DOMAIN tasks : tasks[i] \in scheduled
  /\ \A f \in Fibers : task[f] # NoTask => task[f] \in scheduled

\* A notifier of a wait() finds the fiber that is inside that wait().
Registered ==
  /\ \A c \in Clients : client[c].at = "notify" => client[c].task \in Tasks
  /\ \A t \in Tasks : registered[t] # NoFiber =>
       LET f == registered[t] IN
       task[f] = t /\ (InSuspend(f) \/ pc[f] \in {"lockWork", "relock"})

\* The worker's thread holds work.mutex exactly at these places.
Holding == {"run", "runUntilShutdown", "exit", "waitForWork", "workWait", "timeouts",
            "takeTimeouts", "switch", "blocked", "runUntilIdle", "idle"}
MutexHeld == mutex = "worker" <=> ~stopped /\ pc[currentFiber] \in Holding

\* The inductive invariant.
IInv ==
  /\ TypeOK /\ NumInSync /\ WaitingInSync /\ BlockedCounted
  /\ Placed /\ Listed /\ IdleListed /\ Leaving /\ Registered /\ MutexHeld
-----------------------------------------------------------------------------
(* Type correctness.                                                       *)

\* The places a step may go to.
LEMMA PlacesType ==
  /\ EntryOfRun \in Places /\ AfterWaitForWork \in Places
  /\ {"run", "runAsleep", "runUntilShutdown", "exit", "exited", "waitForWork", "spin",
      "workWait", "asleep", "timeouts", "takeTimeouts", "switch", "blocked", "relock",
      "lockWork", "runUntilIdle", "idle", "task"} \subseteq Places
BY DEF EntryOfRun, AfterWaitForWork, Places

\* The time point Work::wait() sleeps until is a time.
LEMMA TimePointType == ASSUME TypeOK, WaitingInSync PROVE TimePoint \in Times
<1>1. \A f \in DOMAIN waiting.fibers : waiting.fibers[f] \in Times
  BY DEF TypeOK, WaitingInSync
<1>2. Times \subseteq Nat /\ NoTimeout \in Times
  BY WorkerAssumption DEF Times, NoTimeout
<1>3. ASSUME IsWaiting(waiting) PROVE NextTimeout(waiting) \in Times
  BY Zenon, <1>1, <1>2, <1>3, NextTimeoutLeast DEF WaitingInSync
<1> QED BY <1>2, <1>3 DEF TimePoint

\* work.num counts an element that is taken off a queue.
LEMMA NumPositive ==
  ASSUME TypeOK, NumInSync
  PROVE  /\ fibers # <<>> => /\ num - 1 \in Nat
                             /\ Head(fibers) \in Fibers /\ Tail(fibers) \in Seq(Fibers)
         /\ tasks # <<>> => /\ num - 1 \in Nat
                            /\ Head(tasks) \in AllTasks /\ Tail(tasks) \in Seq(AllTasks)
BY DEF TypeOK, NumInSync

\* Only finitely many fibers can be parked in suspend().
LEMMA BlockedFinite ==
  ASSUME TypeOK PROVE IsFiniteSet({f \in Created : pc[f] = "blocked"})
<1>1. IsFiniteSet(Created)
  BY WorkerAssumption, FS_Interval DEF TypeOK, Created, Fibers
<1> QED BY <1>1, FS_Subset

\* A fiber parked in suspend() is counted in numBlockedFibers.
LEMMA BlockedPositive ==
  ASSUME TypeOK, BlockedCounted, Placed, NEW f \in Fibers, pc[f] = "blocked"
  PROVE  numBlockedFibers - 1 \in Nat
<1> DEFINE blocked == {g \in Created : pc[g] = "blocked"}
<1>1. f \in blocked
  BY DEF Placed
<1>2. Cardinality(blocked) \in Nat /\ Cardinality(blocked) # 0
  BY <1>1, BlockedFinite, FS_CardinalityType, FS_EmptySet
<1> QED BY <1>2 DEF BlockedCounted

\* Worker::enqueue(Fiber*) leaves WaitingFibers well typed.
LEMMA EraseType ==
  ASSUME TypeOK, WaitingInSync, NEW f
  PROVE  /\ Erase(waiting, f).timeouts \subseteq [timepoint : Times, fiber : Fibers]
         /\ DOMAIN Erase(waiting, f).fibers \subseteq Fibers
BY EraseInSync DEF TypeOK, WaitingInSync

\* Constants of the right type.
LEMMA ConstantTypes ==
  /\ 0 \in Times /\ NoTimeout \in Times /\ Main \in Fibers /\ Fibers \subseteq Nat
  /\ 0..MaxTime \subseteq Times /\ ShutdownTask \in AllTasks /\ Tasks \subseteq AllTasks
  /\ \A n \in Fibers : n < MaxFibers => n + 1 \in Fibers
  /\ MainTask \in Tasks /\ MaxTime \in Nat /\ MaxWaits \in Nat /\ MaxSpurious \in Nat
BY WorkerAssumption DEF Times, NoTimeout, Main, Fibers, AllTasks

\* TypeOK by the groups of variables that the steps leave unchanged together.
MutexType  == mutex \in {"free", "worker"}
WorkType   ==
  /\ num \in Nat /\ numBlockedFibers \in Nat
  /\ tasks \in Seq(AllTasks) /\ fibers \in Seq(Fibers)
  /\ waiting.timeouts \subseteq [timepoint : Times, fiber : Fibers]
  /\ DOMAIN waiting.fibers \subseteq Fibers
SleepType  ==
  notifyAdded \in BOOLEAN /\ woken \in BOOLEAN /\ sleepUntil \in Times /\ scanTime \in Times
FiberType  ==
  /\ currentFiber \in Fibers /\ idleFibers \subseteq Fibers /\ numFibers \in Fibers
  /\ state \in [Fibers -> States]
  /\ task \in [Fibers -> AllTasks \cup {NoTask}] /\ deadline \in [Fibers -> Times]
PlaceType  == pc \in [Fibers -> Places]
UserType   ==
  /\ pred \in [Tasks -> BOOLEAN]
  /\ waitLock \in [Tasks -> {"free", "fiber"} \cup Clients]
  /\ registered \in [Tasks -> Fibers \cup {NoFiber}]
  /\ waits \in [Tasks -> 0..MaxWaits] /\ spurious \in 0..MaxSpurious
ClientType ==
  /\ client \in [Clients -> [at : {"idle", "notify", "added"}, task : Tasks \cup {NoTask}]]
  /\ now \in 0..MaxTime
TaskType   == scheduled \subseteq AllTasks /\ stolen \subseteq AllTasks /\ done \subseteq AllTasks
CtrlType   == shutdown \in BOOLEAN /\ stopped \in BOOLEAN
Typed ==
  /\ MutexType /\ WorkType /\ SleepType /\ FiberType /\ PlaceType
  /\ UserType /\ ClientType /\ TaskType /\ CtrlType

\* Together they are TypeOK, before and after a step.
LEMMA TypeParts == (TypeOK <=> Typed) /\ (TypeOK' <=> Typed')
BY Zenon DEF TypeOK, Typed, MutexType, WorkType, SleepType, FiberType, PlaceType, UserType,
       ClientType, TaskType, CtrlType

\* A group that does not change keeps its types.
LEMMA TypeFrame ==
  ASSUME Typed
  PROVE  /\ UNCHANGED mutex      => MutexType'
         /\ UNCHANGED workVars   => WorkType'
         /\ UNCHANGED sleepVars  => SleepType'
         /\ UNCHANGED fiberVars  => FiberType'
         /\ UNCHANGED pc         => PlaceType'
         /\ UNCHANGED userVars   => UserType'
         /\ UNCHANGED clientVars => ClientType'
         /\ UNCHANGED taskVars   => TaskType'
         /\ UNCHANGED ctrlVars   => CtrlType'
<1> USE DEF Typed
<1>1. ASSUME UNCHANGED mutex PROVE MutexType'
  BY <1>1 DEF MutexType
<1>2. ASSUME UNCHANGED workVars PROVE WorkType'
  BY <1>2 DEF WorkType, workVars
<1>3. ASSUME UNCHANGED sleepVars PROVE SleepType'
  BY <1>3 DEF SleepType, sleepVars
<1>4. ASSUME UNCHANGED fiberVars PROVE FiberType'
  BY <1>4 DEF FiberType, fiberVars
<1>5. ASSUME UNCHANGED pc PROVE PlaceType'
  BY <1>5 DEF PlaceType
<1>6. ASSUME UNCHANGED userVars PROVE UserType'
  BY <1>6 DEF UserType, userVars
<1>7. ASSUME UNCHANGED clientVars PROVE ClientType'
  BY <1>7 DEF ClientType, clientVars
<1>8. ASSUME UNCHANGED taskVars PROVE TaskType'
  BY <1>8 DEF TaskType, taskVars
<1>9. ASSUME UNCHANGED ctrlVars PROVE CtrlType'
  BY <1>9 DEF CtrlType, ctrlVars
<1> QED BY <1>1, <1>2, <1>3, <1>4, <1>5, <1>6, <1>7, <1>8, <1>9

\* suspend() keeps the types.
LEMMA SuspendType ==
  ASSUME Typed, NEW d \in Times, Suspend(d)
  PROVE  /\ MutexType' /\ PlaceType' /\ state' \in [Fibers -> States]
         /\ waiting'.timeouts \subseteq [timepoint : Times, fiber : Fibers]
         /\ DOMAIN waiting'.fibers \subseteq Fibers
<1> USE DEF Typed
<1>1. Add(waiting, d, currentFiber).timeouts \subseteq [timepoint : Times, fiber : Fibers]
  BY DEF WorkType, FiberType, Add
<1>2. DOMAIN Add(waiting, d, currentFiber).fibers \subseteq Fibers
  BY DEF WorkType, FiberType, Add
<1>3. MutexType' /\ PlaceType'
  BY Zenon, PlacesType DEF MutexType, PlaceType, Suspend, Goto
<1>4. state' \in [Fibers -> States]
  BY DEF FiberType, States, Suspend
<1>5. waiting' \in {waiting, Add(waiting, d, currentFiber)}
  BY DEF Suspend
<1> QED BY <1>1, <1>2, <1>3, <1>4, <1>5 DEF WorkType

\* So does Worker::enqueue(Fiber*).
LEMMA EnqueueFiberType ==
  ASSUME Typed, WaitingInSync, NEW f \in Fibers, EnqueueFiber(f)
  PROVE  WorkType' /\ state' \in [Fibers -> States]
<1> USE DEF Typed
<1>1. CASE NeedsEnqueue(f)
  <2>1. /\ num' = num + 1 /\ fibers' = Append(fibers, f)
        /\ tasks' = tasks /\ numBlockedFibers' = numBlockedFibers
        /\ waiting' \in {waiting, Erase(waiting, f)}
        /\ state' = [state EXCEPT ![f] = "Queued"]
    BY <1>1 DEF EnqueueFiber, PushFiber
  <2>2. fibers' \in Seq(Fibers)
    BY <2>1 DEF WorkType
  <2>3. /\ waiting'.timeouts \subseteq [timepoint : Times, fiber : Fibers]
        /\ DOMAIN waiting'.fibers \subseteq Fibers
    BY <2>1, EraseType, TypeParts DEF WorkType
  <2>4. state' \in [Fibers -> States]
    BY <2>1 DEF FiberType, States
  <2> QED BY <2>1, <2>2, <2>3, <2>4 DEF WorkType
<1>2. CASE ~NeedsEnqueue(f)
  <2>1. UNCHANGED <<workVars, state>>
    BY <1>2 DEF EnqueueFiber
  <2> QED BY <2>1, TypeFrame DEF FiberType
<1> QED BY <1>1, <1>2

\* So does the queueing of a task.
LEMMA EnqueueTaskType ==
  ASSUME Typed, NEW t \in AllTasks, EnqueueTask(t) PROVE WorkType' /\ TaskType'
<1>1. WorkType'
  BY DEF Typed, EnqueueTask, WorkType
<1>2. TaskType'
  BY Zenon DEF Typed, EnqueueTask, TaskType
<1> QED BY <1>1, <1>2

\* Every step preserves the type invariant.
LEMMA TypeStep == ASSUME IInv, [Next]_vars PROVE TypeOK'
<1>a. TypeOK /\ NumInSync /\ WaitingInSync /\ BlockedCounted /\ Placed /\ Registered
  BY DEF IInv
<1> SUFFICES Typed'
  BY TypeParts
<1> Typed
  BY <1>a, TypeParts
<1> USE <1>a, TypeFrame, ConstantTypes, PlacesType DEF Goto, Typed
<1>1. CASE Start
  BY Zenon, <1>1 DEF Start, MutexType, PlaceType
<1>2. CASE Run
  BY Zenon, <1>2, TimePointType DEF Run, WorkWait, RunPred, MutexType, SleepType, PlaceType
<1>3. CASE RunWakes
  BY Zenon, <1>3 DEF RunWakes, WakeUp, WorkWaitReturns, RunPred, MutexType, SleepType, PlaceType
<1>4. CASE RunWakesSpuriously
  BY Zenon, <1>4 DEF RunWakesSpuriously, WakeUpSpuriously, WorkWaitReturns, MutexType, SleepType,
     PlaceType
<1>5. CASE RunUntilShutdown
  BY Zenon, <1>5 DEF RunUntilShutdown, PlaceType
<1>6. CASE Exit
  BY Zenon, <1>6 DEF Exit, MutexType, FiberType, PlaceType, CtrlType
<1>7. CASE WaitForWork
  BY Zenon, <1>7 DEF WaitForWork, MutexType, PlaceType
<1>8. CASE SpinForWorkAndLock
  BY Zenon, <1>8 DEF SpinForWorkAndLock, MutexType, PlaceType
<1>9. ASSUME NEW t \in Tasks, SpinSteals(t) PROVE Typed'
  <2>1. WorkType' /\ TaskType'
    BY Zenon, <1>9, EnqueueTaskType DEF SpinSteals, AllTasks
  <2> QED BY Zenon, <1>9, <2>1 DEF SpinSteals, MutexType, PlaceType
<1>10. CASE WorkWaits
  BY Zenon, <1>10, TimePointType DEF WorkWaits, WorkWait, MutexType, SleepType, PlaceType
<1>11. CASE WorkWakes
  BY Zenon, <1>11 DEF WorkWakes, WakeUp, WorkWaitReturns, MutexType, SleepType, PlaceType
<1>12. CASE WorkWakesSpuriously
  BY Zenon, <1>12 DEF WorkWakesSpuriously, WakeUpSpuriously, WorkWaitReturns, MutexType, SleepType,
     PlaceType
<1>13. CASE EnqueueFiberTimeouts
  BY Zenon, <1>13 DEF EnqueueFiberTimeouts, SleepType, PlaceType, ClientType
<1>14. ASSUME NEW a \in waiting.timeouts, TakeTimeout(a) PROVE Typed'
  <2>1. a.fiber \in Fibers /\ num \in Nat /\ fibers \in Seq(Fibers)
    BY ONLY a \in waiting.timeouts, Typed DEF Typed, WorkType
  <2>2. fibers' = Append(fibers, a.fiber) /\ num' = num + 1
    BY ONLY <1>14 DEF TakeTimeout, PushFiber
  <2>3. num' \in Nat /\ fibers' \in Seq(Fibers)
    BY ONLY <2>1, <2>2
  <2>4. /\ waiting'.timeouts \subseteq [timepoint : Times, fiber : Fibers]
        /\ DOMAIN waiting'.fibers \subseteq Fibers
    BY ONLY <1>14, Typed DEF TakeTimeout, Taken, Typed, WorkType
  <2>5. state' \in [Fibers -> States]
    BY ONLY Zenon, <1>14, Typed DEF TakeTimeout, Typed, FiberType, States
  <2> QED BY Zenon, <1>14, <2>3, <2>4, <2>5 DEF TakeTimeout, WorkType, FiberType
<1>15. CASE TimeoutsTaken
  BY Zenon, <1>15 DEF TimeoutsTaken, SleepType, PlaceType
<1>16. CASE RunFiber
  BY Zenon, <1>16, NumPositive DEF RunFiber, WorkType, FiberType, PlaceType, States
<1>17. CASE IdleResumes
  BY Zenon, <1>17 DEF IdleResumes, FiberType, PlaceType, States
<1>18. CASE RunTask
  BY Zenon, <1>18, NumPositive DEF RunTask, MutexType, WorkType, FiberType, PlaceType
<1>19. CASE RunUntilIdleReturns
  BY Zenon, <1>19 DEF RunUntilIdleReturns, PlaceType
<1>20. CASE TaskReturns
  <2>1. task[currentFiber] \in AllTasks
    BY Zenon, <1>20 DEF TaskReturns, At, Placed, Tasking, FiberType
  <2>2. FiberType'
    BY ONLY <1>20, Typed DEF TaskReturns, Typed, FiberType
  <2>3. TaskType' /\ CtrlType'
    BY Zenon, <1>20, <2>1 DEF TaskReturns, TaskType, CtrlType
  <2> QED BY Zenon, <1>20, <2>2, <2>3 DEF TaskReturns, MutexType, PlaceType
<1>21. CASE StopSingleThreaded
  BY Zenon, <1>21 DEF StopSingleThreaded, MutexType, FiberType, PlaceType, TaskType, CtrlType
<1>22. ASSUME NEW d \in Timepoints \cup {NoTimeout}, BeginWait(d) PROVE Typed'
  <2>1. d \in Times
    BY DEF Timepoints, ClientType
  <2>2. FiberType'
    BY ONLY <1>22, <2>1, Typed DEF BeginWait, Typed, FiberType
  <2>3. waits' \in [Tasks -> 0..MaxWaits]
    BY ONLY SMTT(30), ZenonT(60), <1>22, Typed, MaxWaits \in Nat DEF BeginWait, Typed, UserType
  <2>4. UserType'
    BY Zenon, <1>22, <2>3 DEF BeginWait, FiberType, UserType
  <2> QED BY Zenon, <1>22, <2>2, <2>4 DEF BeginWait, PlaceType
<1>23. CASE LockAndSuspend
  <2>1. deadline[currentFiber] \in Times
    BY Zenon DEF FiberType
  <2>2. /\ MutexType' /\ PlaceType' /\ state' \in [Fibers -> States]
        /\ waiting'.timeouts \subseteq [timepoint : Times, fiber : Fibers]
        /\ DOMAIN waiting'.fibers \subseteq Fibers
    BY Zenon, <1>23, <2>1, SuspendType DEF LockAndSuspend
  <2> QED BY Zenon, <1>23, <2>2 DEF LockAndSuspend, WorkType, FiberType, UserType
<1>24. ASSUME NEW d \in Timepoints \cup {NoTimeout}, RawWait(d) PROVE Typed'
  <2>1. d \in Times
    BY DEF Timepoints, ClientType
  <2>2. /\ MutexType' /\ PlaceType' /\ state' \in [Fibers -> States]
        /\ waiting'.timeouts \subseteq [timepoint : Times, fiber : Fibers]
        /\ DOMAIN waiting'.fibers \subseteq Fibers
    BY Zenon, <1>24, <2>1, SuspendType DEF RawWait
  <2>3. WorkType'
    BY Zenon, <1>24, <2>2 DEF RawWait, WorkType
  <2>4. deadline' \in [Fibers -> Times]
    BY ONLY <1>24, <2>1, Typed DEF RawWait, Typed, FiberType
  <2>5. FiberType'
    BY Zenon, <1>24, <2>2, <2>4 DEF RawWait, FiberType
  <2>6. waits' \in [Tasks -> 0..MaxWaits]
    <3>1. MyTask \in Tasks
      BY Zenon, <1>24, WorkerAssumption DEF RawWait
    <3> QED BY ONLY SMTT(30), ZenonT(60), <1>24, <3>1, Typed, MaxWaits \in Nat DEF RawWait, Typed,
               UserType
  <2>7. UserType'
    BY Zenon, <1>24, <2>6 DEF RawWait, FiberType, UserType
  <2> QED BY Zenon, <1>24, <2>2, <2>3, <2>5, <2>7 DEF RawWait
<1>25. CASE SwitchToQueued
  <2>1. num' \in Nat /\ fibers' \in Seq(Fibers) /\ currentFiber' \in Fibers
    BY ZenonT(60), <1>25, NumPositive DEF SwitchToQueued
  <2>2. numBlockedFibers' \in Nat
    BY ONLY SMTT(60), <1>25, Typed DEF SwitchToQueued, Block, Typed, WorkType
  <2> QED BY Zenon, <1>25, <2>1, <2>2 DEF SwitchToQueued, WorkType, FiberType, PlaceType
<1>26. ASSUME NEW f \in idleFibers, SwitchToIdle(f) PROVE Typed'
  <2>1. numBlockedFibers' \in Nat
    BY ONLY <1>26, Typed DEF SwitchToIdle, Block, Typed, WorkType
  <2>2. currentFiber' \in Fibers /\ idleFibers' \subseteq Fibers
    BY Zenon, <1>26 DEF SwitchToIdle, FiberType
  <2> QED BY Zenon, <1>26, <2>1, <2>2 DEF SwitchToIdle, WorkType, FiberType, PlaceType
<1>27. CASE SwitchToNew
  <2>1. numBlockedFibers' \in Nat
    BY ONLY <1>27, Typed DEF SwitchToNew, Block, Typed, WorkType
  <2>2. numFibers + 1 \in Fibers
    BY Zenon, <1>27, ConstantTypes DEF SwitchToNew, FiberType
  <2>3. PlaceType'
    BY Zenon, <1>27, PlacesType DEF SwitchToNew, PlaceType
  <2> QED BY Zenon, <1>27, <2>1, <2>2, <2>3 DEF SwitchToNew, WorkType, FiberType
<1>28. CASE BlockedResumes
  <2>1. numBlockedFibers' \in Nat
    BY Zenon, <1>28, BlockedPositive DEF BlockedResumes, At, FiberType
  <2>2. MutexType' /\ WorkType'
    BY Zenon, <1>28, <2>1 DEF BlockedResumes, MutexType, WorkType
  <2>3. FiberType'
    BY ONLY Zenon, <1>28, Typed, NoTimeout \in Times DEF BlockedResumes, Typed, FiberType, States
  <2>4. registered' \in [Tasks -> Fibers \cup {NoFiber}]
    BY ONLY <1>28, Typed DEF BlockedResumes, Typed, UserType
  <2>5. PlaceType'
    BY Zenon, <1>28 DEF BlockedResumes, PlaceType
  <2> QED BY Zenon, <1>28, <2>2, <2>3, <2>4, <2>5 DEF BlockedResumes, UserType
<1>29. CASE Relock
  <2>1. FiberType'
    BY ONLY Zenon, <1>29, Typed, NoTimeout \in Times DEF Relock, Typed, FiberType
  <2>2. UserType'
    BY ONLY <1>29, Typed DEF Relock, Typed, UserType
  <2>3. PlaceType'
    BY Zenon, <1>29 DEF Relock, PlaceType
  <2> QED BY Zenon, <1>29, <2>1, <2>2, <2>3 DEF Relock
<1>30. ASSUME NEW t \in Tasks, TaskSchedules(t) PROVE Typed'
  <2>1. WorkType' /\ TaskType'
    BY Zenon, <1>30, EnqueueTaskType DEF TaskSchedules, AllTasks
  <2> QED BY Zenon, <1>30, <2>1 DEF TaskSchedules
<1>31. ASSUME NEW t \in Tasks, TaskNotifies(t) PROVE Typed'
  <2>1. registered[t] \in Fibers
    BY Zenon, <1>31 DEF TaskNotifies, InRawWait, UserType
  <2>2. WorkType' /\ state' \in [Fibers -> States]
    BY Zenon, <1>31, <2>1, EnqueueFiberType DEF TaskNotifies
  <2> QED BY Zenon, <1>31, <2>2 DEF TaskNotifies, FiberType
<1>32. ASSUME NEW c \in Clients, NEW t \in AllTasks, ClientEnqueues(c, t) PROVE Typed'
  <2>1. WorkType' /\ TaskType'
    BY Zenon, <1>32, EnqueueTaskType DEF ClientEnqueues
  <2>2. ClientType'
    BY ONLY <1>32, Typed DEF ClientEnqueues, ThenNotify, Idle, Typed, ClientType
  <2> QED BY Zenon, <1>32, <2>1, <2>2 DEF ClientEnqueues
<1>33. ASSUME NEW c \in Clients, ClientSteals(c) PROVE Typed'
  BY Zenon, <1>33, NumPositive DEF ClientSteals, WorkType, TaskType
<1>34. ASSUME NEW c \in Clients, ClientNotifiesAdded(c) PROVE Typed'
  BY Zenon, <1>34 DEF ClientNotifiesAdded, Release, Asleep, Idle, SleepType, UserType, ClientType
<1>35. ASSUME NEW c \in Clients, NEW t \in Tasks, NEW p \in BOOLEAN,
             ClientSignals(c, t, p)
      PROVE  Typed'
  <2>1. spurious' \in 0..MaxSpurious
    BY ONLY SMTT(30), ZenonT(60), <1>35, Typed, MaxSpurious \in Nat DEF ClientSignals, Typed,
       UserType
  <2>2. UserType'
    BY Zenon, <1>35, <2>1 DEF ClientSignals, UserType
  <2>3. ClientType'
    BY ONLY Zenon, <1>35, Typed DEF ClientSignals, Typed, ClientType
  <2> QED BY Zenon, <1>35, <2>2, <2>3 DEF ClientSignals
<1>36. ASSUME NEW c \in Clients, ClientUnlocks(c) PROVE Typed'
  BY Zenon, <1>36 DEF ClientUnlocks, Release, UserType
<1>37. ASSUME NEW c \in Clients, ClientNotifiesNobody(c) PROVE Typed'
  BY Zenon, <1>37 DEF ClientNotifiesNobody, Release, Idle, UserType, ClientType
<1>38. ASSUME NEW c \in Clients, ClientNotifies(c) PROVE Typed'
  <2>1. client[c].task \in Tasks /\ registered[client[c].task] \in Fibers
    BY Zenon, <1>38 DEF ClientNotifies, Registered, UserType
  <2>2. WorkType' /\ state' \in [Fibers -> States]
    BY Zenon, <1>38, <2>1, EnqueueFiberType DEF ClientNotifies
  <2>3. ClientType'
    <3>1. client' \in {[client EXCEPT ![c].at = "added"], [client EXCEPT ![c] = Idle]}
          /\ now' = now
      BY Zenon, <1>38 DEF ClientNotifies
    <3>2. client[c] \in [at : {"idle", "notify", "added"}, task : Tasks \cup {NoTask}]
      BY Zenon DEF ClientType
    <3>3. [client[c] EXCEPT !.at = "added"]
            \in [at : {"idle", "notify", "added"}, task : Tasks \cup {NoTask}]
      BY ONLY <3>2
    <3>4. [client EXCEPT ![c] = [client[c] EXCEPT !.at = "added"]]
            \in [Clients -> [at : {"idle", "notify", "added"}, task : Tasks \cup {NoTask}]]
      BY <3>3 DEF ClientType
    <3>5. [client EXCEPT ![c] = Idle]
            \in [Clients -> [at : {"idle", "notify", "added"}, task : Tasks \cup {NoTask}]]
      BY Zenon DEF ClientType, Idle
    <3> QED BY Zenon, <3>1, <3>4, <3>5 DEF ClientType
  <2> QED BY Zenon, <1>38, <2>2, <2>3 DEF ClientNotifies, Release, FiberType, UserType
<1>39. ASSUME NEW c \in Clients, NEW t \in Tasks, ClientNotifiesRaw(c, t) PROVE Typed'
  <2>1. registered[t] \in Fibers
    BY Zenon, <1>39 DEF ClientNotifiesRaw, InRawWait, UserType
  <2>2. WorkType' /\ state' \in [Fibers -> States]
    BY Zenon, <1>39, <2>1, EnqueueFiberType DEF ClientNotifiesRaw
  <2> QED BY Zenon, <1>39, <2>2 DEF ClientNotifiesRaw, ThenNotify, Idle, FiberType, ClientType
<1>40. CASE Tick
  <2>1. ClientType'
    BY ONLY <1>40, Typed, MaxTime \in Nat DEF Tick, Typed, ClientType
  <2> QED BY Zenon, <1>40, <2>1 DEF Tick
<1>41. CASE UNCHANGED vars
  BY Zenon, <1>41 DEF vars
<1> HIDE <1>a, TypeFrame, ConstantTypes, PlacesType DEF Goto, Typed
<1> QED
  BY Zenon, <1>1, <1>2, <1>3, <1>4, <1>5, <1>6, <1>7, <1>8, <1>9, <1>10, <1>11, <1>12, <1>13, <1>14,
     <1>15, <1>16, <1>17, <1>18, <1>19, <1>20, <1>21, <1>22, <1>23, <1>24, <1>25, <1>26,
     <1>27, <1>28, <1>29, <1>30, <1>31, <1>32, <1>33, <1>34, <1>35, <1>36, <1>37, <1>38,
     <1>39, <1>40, <1>41
  DEF Next, WorkerStep, TaskStep, ClientStep, ClientStarts, Terminated, Quiescent
-----------------------------------------------------------------------------
(* Steps that leave the containers of fibers alone, or only enqueue.       *)

\* The fibers that exist.
LEMMA CreatedType == ASSUME TypeOK PROVE Created \subseteq Fibers /\ Main \in Created
BY SMTT(60), WorkerAssumption DEF TypeOK, Created, Fibers, Main

\* The null fiber is none of the fibers.
LEMMA NoFiberType == NoFiber \notin Fibers
BY DEF NoFiber, Fibers

\* The part of IInv that says where the fibers are.
Shape == WaitingInSync /\ BlockedCounted /\ Placed /\ Listed /\ IdleListed /\ Registered

\* IInv in the parts the steps are proved for.
LEMMA InvParts == IInv <=> TypeOK /\ NumInSync /\ Shape /\ Leaving /\ MutexHeld
BY Zenon DEF IInv, Shape

\* A step that moves no fiber, and makes no client a notifier of nothing.
LEMMA ShapeFrame ==
  ASSUME Shape, UNCHANGED <<numBlockedFibers, fibers, waiting, fiberVars, pc, registered>>,
         \A c \in Clients : client'[c].at = "notify" => client'[c].task \in Tasks
  PROVE  Shape'
<1> USE DEF fiberVars, Shape
<1>1. BlockedCounted'
  BY Zenon DEF BlockedCounted, Created
<1>2. WaitingInSync'
  BY Zenon DEF WaitingInSync, InSync
<1>3. Placed'
  BY DEF Placed, Created, InSuspend
<1>4. Listed'
  BY Zenon DEF Listed, Contains, InQueue, SwitchedTo
<1>5. IdleListed'
  BY ZenonT(60) DEF IdleListed, MainRejoined, Created
<1>6. Registered'
  BY Zenon DEF Registered, InSuspend
<1> QED BY Zenon, <1>1, <1>2, <1>3, <1>4, <1>5, <1>6

\* A step that leaves alone every variable IInv is about but the clients'.
LEMMA FrameStep ==
  ASSUME IInv, TypeOK',
         UNCHANGED <<mutex, workVars, fiberVars, pc, registered, taskVars, ctrlVars>>,
         \A c \in Clients : client'[c].at = "notify" => client'[c].task \in Tasks
  PROVE  IInv'
<1> USE DEF workVars, fiberVars, taskVars, ctrlVars
<1>1. NumInSync'
  BY Zenon DEF IInv, NumInSync
<1>2. Shape'
  BY Zenon, InvParts, ShapeFrame
<1>3. Leaving'
  BY Zenon DEF IInv, Leaving, MainRejoined, Created
<1>4. MutexHeld'
  BY Zenon DEF IInv, MutexHeld
<1> QED BY ZenonT(60), <1>1, <1>2, <1>3, <1>4 DEF IInv, Shape

\* The worker's thread moves within its loops.
Moves(p) ==
  /\ ~stopped /\ pc' = [pc EXCEPT ![currentFiber] = p]
  /\ UNCHANGED <<fiberVars, registered, client, ctrlVars>>
  /\ pc[currentFiber] \notin Parked \cup {"exit", "task", "lockWork", "relock"}
  /\ p \notin Parked \cup {"task", "lockWork", "relock"}
  /\ IF task[currentFiber] = NoTask THEN p \notin Tasking
     ELSE pc[currentFiber] \in Suspending /\ p \in Suspending

\* A step that moves the current fiber within these loops keeps Shape.
LEMMA ShapeMoves ==
  ASSUME TypeOK, Shape, TypeOK', NEW p, Moves(p), UNCHANGED <<numBlockedFibers, fibers, waiting>>
  PROVE  Shape' /\ (MainRejoined' <=> MainRejoined)
<1> USE DEF Moves, fiberVars, ctrlVars, Shape
<1>0. currentFiber \in Fibers /\ pc \in [Fibers -> Places] /\ currentFiber' = currentFiber
  BY Zenon DEF TypeOK
<1>2. WaitingInSync'
  BY Zenon DEF WaitingInSync, InSync
<1>3. BlockedCounted'
  <2>1. \A f \in Fibers : pc'[f] = "blocked" <=> pc[f] = "blocked"
    BY <1>0 DEF Parked
  <2>2. Created \subseteq Fibers /\ Created' = Created
    BY CreatedType DEF Created
  <2>3. {f \in Created : pc[f] = "blocked"} = {f \in Created : pc'[f] = "blocked"}
    BY ONLY <2>1, <2>2
  <2> QED BY Zenon, <2>2, <2>3 DEF BlockedCounted
<1>4. Placed'
  <2>1. ASSUME NEW f \in Fibers, f # currentFiber
        PROVE  pc'[f] = pc[f] /\ (InSuspend(f)' <=> InSuspend(f))
    BY <1>0, <2>1 DEF InSuspend
  <2>2. InSuspend(currentFiber)' <=> InSuspend(currentFiber)
    BY Zenon, <1>0 DEF InSuspend, Suspending, Placed, Looping
  <2>3. pc'[currentFiber] = p
    BY Zenon, <1>0
  <2> QED BY SMTT(60), <1>0, <2>1, <2>2, <2>3 DEF Placed, Parked, Created, Looping, Tasking,
             Suspending
<1>5. Listed'
  <2>1. \A f \in Fibers : SwitchedTo(f)' <=> SwitchedTo(f)
    BY <1>0 DEF SwitchedTo, Parked
  <2>2. \A f \in Fibers : InQueue(f)' <=> InQueue(f)
    BY Zenon DEF InQueue
  <2> QED BY Zenon, <2>1, <2>2 DEF Listed, Contains
<1>6. MainRejoined' <=> MainRejoined
  <2>1. \A f \in Fibers : pc'[f] = "exited" <=> pc[f] = "exited"
    BY <1>0 DEF Parked
  <2>2. Created \subseteq Fibers /\ Created' = Created
    BY CreatedType DEF Created
  <2> QED BY Zenon, <2>1, <2>2 DEF MainRejoined
<1>7. IdleListed'
  BY Zenon, <1>0, <1>6 DEF IdleListed, Parked, Main
<1>9. Registered'
  <2>1. ASSUME NEW t \in Tasks, registered[t] # NoFiber
        PROVE  LET f == registered[t] IN
               task[f] = t /\ (InSuspend(f)' \/ pc'[f] \in {"lockWork", "relock"})
    <3>1. registered[t] \in Fibers /\ task[registered[t]] = t /\ t # NoTask
      <4>1. registered[t] \in Fibers
        BY Zenon, <2>1 DEF TypeOK
      <4>2. task[registered[t]] = t
        BY Zenon, <2>1 DEF Registered
      <4> QED BY Zenon, <4>1, <4>2, WorkerAssumption
    <3>2. CASE registered[t] = currentFiber
      BY Zenon, <1>0, <3>1, <3>2 DEF InSuspend
    <3>3. CASE registered[t] # currentFiber
      BY Zenon, <1>0, <2>1, <3>1, <3>3 DEF InSuspend, Registered
    <3> QED BY Zenon, <3>2, <3>3
  <2> QED BY Zenon, <2>1 DEF Registered
<1> QED BY Zenon, <1>2, <1>3, <1>4, <1>5, <1>6, <1>7, <1>9

\* A step that does nothing else.
Controls(p) ==
  /\ Moves(p) /\ UNCHANGED <<workVars, taskVars>>
  /\ mutex' = "worker" <=> p \in Holding
  /\ p = "exit" => shutdown /\ num = 0 /\ numBlockedFibers = 0
  /\ MainRejoined => p \in {"runUntilShutdown", "exit"}

\* Such a step keeps the invariant.
LEMMA ControlStep ==
  ASSUME IInv, TypeOK', NEW p, Controls(p)
  PROVE  IInv'
<1> USE DEF workVars, taskVars, Controls
<1>1. TypeOK /\ NumInSync /\ Shape /\ Leaving /\ MutexHeld
  BY InvParts
<1>2. NumInSync'
  BY <1>1 DEF NumInSync
<1>3. Shape' /\ (MainRejoined' <=> MainRejoined)
  BY <1>1, ShapeMoves
<1>4. currentFiber \in Fibers /\ pc \in [Fibers -> Places] /\ currentFiber' = currentFiber
  BY Zenon, <1>1 DEF TypeOK, Moves, fiberVars
<1>5. Leaving'
  BY Zenon, <1>1, <1>3, <1>4 DEF Leaving, Parked, Main, Moves, fiberVars, ctrlVars
<1>6. MutexHeld'
  BY <1>4 DEF MutexHeld, Moves, ctrlVars
<1> QED BY <1>2, <1>3, <1>5, <1>6, InvParts DEF IInv, Shape

\* The steps of the worker's thread in run(), runUntilShutdown(), waitForWork()
\* and enqueueFiberTimeouts() that only move within these loops.
LEMMA ControlActions ==
  ASSUME IInv, TypeOK',
         \/ Start \/ Run \/ RunWakes \/ RunWakesSpuriously \/ RunUntilShutdown \/ WaitForWork
         \/ SpinForWorkAndLock \/ WorkWaits \/ WorkWakes \/ WorkWakesSpuriously
         \/ EnqueueFiberTimeouts \/ TimeoutsTaken \/ RunUntilIdleReturns
  PROVE  IInv'
<1>0. /\ num \in Nat /\ numBlockedFibers \in Nat
      /\ MainRejoined => /\ pc[currentFiber] \in {"idle", "runUntilIdle", "runUntilShutdown", "exit"}
                         /\ shutdown /\ num = 0 /\ numBlockedFibers = 0
      /\ pc[currentFiber] \in Looping => task[currentFiber] = NoTask
      /\ pc[currentFiber] \in Tasking => task[currentFiber] # NoTask
      /\ ~stopped => (mutex = "worker" <=> pc[currentFiber] \in Holding)
  BY Zenon DEF IInv, Leaving, Placed, MutexHeld, TypeOK
<1>a. \A c \in Clients : client[c].at = "notify" => client[c].task \in Tasks
  BY Zenon DEF IInv, Registered
<1>1. CASE Start
  <2>1. Controls("run")
    BY ONLY <1>0, <1>1 DEF Controls, Moves, At, Goto, fiberVars, userVars, clientVars,
       ctrlVars, Looping, Tasking, Suspending, Parked, Holding, Start
  <2> QED BY <2>1, ControlStep
<1>2. CASE Run
  <2>1. CASE RunPred
    <3>1. Controls("runUntilShutdown")
      BY ONLY Zenon, <1>0, <1>2, <2>1 DEF Controls, Moves, At, Goto, fiberVars, userVars,
         clientVars, ctrlVars, Looping, Tasking, Suspending, Parked, Holding, Run, WorkWait
    <3> QED BY Zenon, <3>1, ControlStep
  <2>2. CASE ~RunPred
    <3>1. Controls("runAsleep")
      BY ONLY Zenon, <1>0, <1>2, <2>2 DEF Controls, Moves, At, Goto, fiberVars, userVars,
         clientVars, ctrlVars, Looping, Tasking, Suspending, Parked, Holding, Run, WorkWait
    <3> QED BY Zenon, <3>1, ControlStep
  <2> QED BY <2>1, <2>2
<1>3. CASE RunWakes
  <2>1. CASE RunPred \/ now >= sleepUntil
    <3>1. Controls("runUntilShutdown")
      BY ONLY Zenon, <1>0, <1>3, <2>1 DEF Controls, Moves, At, Goto, fiberVars, userVars,
         clientVars, ctrlVars, Looping, Tasking, Suspending, Parked, Holding, RunWakes,
         WakeUp, WorkWaitReturns
    <3> QED BY <3>1, ControlStep
  <2>2. CASE ~(RunPred \/ now >= sleepUntil)
    <3>1. UNCHANGED <<mutex, workVars, fiberVars, pc, registered, client, taskVars, ctrlVars>>
      BY ONLY Zenon, <1>3, <2>2 DEF RunWakes, WakeUp, WorkWaitReturns, userVars, clientVars
    <3> QED BY <1>a, <3>1, FrameStep
  <2> QED BY Zenon, <2>1, <2>2
<1>4. CASE RunWakesSpuriously
  <2>1. Controls("runUntilShutdown")
    BY ONLY Zenon, <1>0, <1>4 DEF Controls, Moves, At, Goto, fiberVars, userVars, clientVars,
       ctrlVars, Looping, Tasking, Suspending, Parked, Holding, RunWakesSpuriously,
       WakeUpSpuriously, WorkWaitReturns
  <2> QED BY <2>1, ControlStep
<1>5. CASE RunUntilShutdown
  <2>1. CASE KeepsRunning
    <3>1. ~MainRejoined
      BY <1>0, <2>1 DEF KeepsRunning
    <3>2. Controls("waitForWork")
      BY ONLY Zenon, <1>0, <1>5, <2>1, <3>1 DEF Controls, Moves, At, Goto, fiberVars, userVars,
         clientVars, ctrlVars, Looping, Tasking, Suspending, Parked, Holding, RunUntilShutdown
    <3> QED BY <3>2, ControlStep
  <2>2. CASE ~KeepsRunning
    <3>1. Controls("exit")
      BY ONLY SMTT(60), <1>0, <1>5, <2>2 DEF Controls, Moves, At, Goto, fiberVars, userVars,
         clientVars, ctrlVars, Looping, Tasking, Suspending, Parked, Holding,
         RunUntilShutdown, KeepsRunning
    <3> QED BY Zenon, <3>1, ControlStep
  <2> QED BY <2>1, <2>2
<1>6. CASE WaitForWork
  <2>1. CASE num > 0
    <3>1. Controls(AfterWaitForWork)
      BY ONLY Zenon, <1>0, <1>6, <2>1 DEF Controls, Moves, At, Goto, fiberVars, userVars,
         clientVars, ctrlVars, Looping, Tasking, Suspending, Parked, Holding, WaitForWork,
         AfterWaitForWork, OnTask
    <3> QED BY <3>1, ControlStep
  <2>2. CASE ~(num > 0) /\ Multi
    <3>1. Controls("spin")
      BY ONLY Zenon, <1>0, <1>6, <2>2 DEF Controls, Moves, At, Goto, fiberVars, userVars,
         clientVars, ctrlVars, Looping, Tasking, Suspending, Parked, Holding, WaitForWork
    <3> QED BY <3>1, ControlStep
  <2>3. CASE ~(num > 0) /\ ~Multi
    <3>1. Controls("workWait")
      BY ONLY Zenon, <1>0, <1>6, <2>3 DEF Controls, Moves, At, Goto, fiberVars, userVars,
         clientVars, ctrlVars, Looping, Tasking, Suspending, Parked, Holding, WaitForWork
    <3> QED BY <3>1, ControlStep
  <2> QED BY <2>1, <2>2, <2>3
<1>7. CASE SpinForWorkAndLock
  <2>1. Controls("workWait")
    BY ONLY Zenon, <1>0, <1>7 DEF Controls, Moves, At, Goto, fiberVars, userVars, clientVars,
       ctrlVars, Looping, Tasking, Suspending, Parked, Holding, SpinForWorkAndLock
  <2> QED BY <2>1, ControlStep
<1>8. CASE WorkWaits
  <2>1. CASE WorkPred
    <3>1. Controls("timeouts")
      BY ONLY Zenon, <1>0, <1>8, <2>1 DEF Controls, Moves, At, Goto, fiberVars, userVars,
         clientVars, ctrlVars, Looping, Tasking, Suspending, Parked, Holding, WorkWaits,
         WorkWait
    <3> QED BY <3>1, ControlStep
  <2>2. CASE ~WorkPred
    <3>1. Controls("asleep")
      BY ONLY Zenon, <1>0, <1>8, <2>2 DEF Controls, Moves, At, Goto, fiberVars, userVars,
         clientVars, ctrlVars, Looping, Tasking, Suspending, Parked, Holding, WorkWaits,
         WorkWait
    <3> QED BY <3>1, ControlStep
  <2> QED BY <2>1, <2>2
<1>9. CASE WorkWakes
  <2>1. CASE WorkPred \/ now >= sleepUntil
    <3>1. Controls("timeouts")
      BY ONLY Zenon, <1>0, <1>9, <2>1 DEF Controls, Moves, At, Goto, fiberVars, userVars,
         clientVars, ctrlVars, Looping, Tasking, Suspending, Parked, Holding, WorkWakes,
         WakeUp, WorkWaitReturns
    <3> QED BY <3>1, ControlStep
  <2>2. CASE ~(WorkPred \/ now >= sleepUntil)
    <3>1. UNCHANGED <<mutex, workVars, fiberVars, pc, registered, client, taskVars, ctrlVars>>
      BY ONLY Zenon, <1>9, <2>2 DEF WorkWakes, WakeUp, WorkWaitReturns, userVars, clientVars
    <3> QED BY <1>a, <3>1, FrameStep
  <2> QED BY <2>1, <2>2
<1>10. CASE WorkWakesSpuriously
  <2>1. Controls("timeouts")
    BY ONLY Zenon, <1>0, <1>10 DEF Controls, Moves, At, Goto, fiberVars, userVars, clientVars,
       ctrlVars, Looping, Tasking, Suspending, Parked, Holding, WorkWakesSpuriously,
       WakeUpSpuriously, WorkWaitReturns
  <2> QED BY <2>1, ControlStep
<1>11. CASE EnqueueFiberTimeouts
  <2>1. CASE IsWaiting(waiting)
    <3>1. Controls("takeTimeouts")
      BY ONLY Zenon, <1>0, <1>11, <2>1 DEF Controls, Moves, At, Goto, fiberVars, userVars,
         clientVars, ctrlVars, Looping, Tasking, Suspending, Parked, Holding,
         EnqueueFiberTimeouts
    <3> QED BY <3>1, ControlStep
  <2>2. CASE ~IsWaiting(waiting)
    <3>1. Controls(AfterWaitForWork)
      BY ONLY Zenon, <1>0, <1>11, <2>2 DEF Controls, Moves, At, Goto, fiberVars, userVars,
         clientVars, ctrlVars, Looping, Tasking, Suspending, Parked, Holding,
         EnqueueFiberTimeouts, AfterWaitForWork, OnTask
    <3> QED BY <3>1, ControlStep
  <2> QED BY <2>1, <2>2
<1>12. CASE TimeoutsTaken
  <2>1. Controls(AfterWaitForWork)
    BY ONLY Zenon, <1>0, <1>12 DEF Controls, Moves, At, Goto, fiberVars, userVars, clientVars,
       ctrlVars, Looping, Tasking, Suspending, Parked, Holding, TimeoutsTaken,
       AfterWaitForWork, OnTask
  <2> QED BY <2>1, ControlStep
<1>13. CASE RunUntilIdleReturns
  <2>1. Controls("runUntilShutdown")
    BY ONLY Zenon, <1>0, <1>13 DEF Controls, Moves, At, Goto, fiberVars, userVars, clientVars,
       ctrlVars, Looping, Tasking, Suspending, Parked, Holding, RunUntilIdleReturns
  <2> QED BY <2>1, ControlStep
<1> QED BY Zenon, <1>1, <1>2, <1>3, <1>4, <1>5, <1>6, <1>7, <1>8, <1>9, <1>10, <1>11, <1>12, <1>13

\* A task is added to the queue of a worker that is not about to leave.
LEMMA EnqueueTaskParts ==
  ASSUME IInv, NEW t, EnqueueTask(t), TypeOK', UNCHANGED <<fiberVars, ctrlVars>>,
         ~MainRejoined', pc'[currentFiber] # "exit", ~stopped
  PROVE  NumInSync' /\ Leaving'
<1> USE DEF fiberVars, ctrlVars
<1> TypeOK /\ NumInSync /\ Leaving
  BY DEF IInv
<1>1. tasks' = Append(tasks, t) /\ num' = num + 1 /\ fibers' = fibers
      /\ scheduled' = scheduled \cup {t}
  BY DEF EnqueueTask
<1>2. tasks \in Seq(AllTasks) /\ fibers \in Seq(Fibers)
  BY Zenon DEF TypeOK
<1>3. Len(tasks') = Len(tasks) + 1 /\ Len(tasks) \in Nat /\ Len(fibers) \in Nat
  BY ONLY <1>1, <1>2
<1>4. NumInSync'
  BY <1>1, <1>3 DEF NumInSync
<1>5. \A j \in DOMAIN tasks' : tasks'[j] = t \/ (j \in DOMAIN tasks /\ tasks'[j] = tasks[j])
  BY ONLY <1>1, <1>2
<1>6. Leaving'
  BY Zenon, <1>1, <1>5 DEF Leaving
<1> QED BY <1>4, <1>6

\* The steps that put a task on the worker's queue.
LEMMA EnqueueTaskActions ==
  ASSUME IInv, TypeOK',
         \/ \E t \in Tasks : SpinSteals(t) \/ TaskSchedules(t)
         \/ \E c \in Clients, t \in AllTasks : ClientEnqueues(c, t)
  PROVE  IInv'
<1> TypeOK /\ Shape /\ Placed /\ Leaving /\ MutexHeld /\ Registered
  BY DEF IInv, Shape
<1> USE DEF At, Goto, fiberVars, userVars, clientVars, ctrlVars
<1>1. ASSUME NEW t \in Tasks, SpinSteals(t) PROVE IInv'
  <2>1. ~MainRejoined
    BY Zenon, <1>1 DEF SpinSteals, Leaving
  <2>2. Moves("workWait")
    BY Zenon, <1>1 DEF SpinSteals, Moves, Placed, Parked, Tasking, Suspending
  <2>3. Shape' /\ ~MainRejoined'
    BY Zenon, <1>1, <2>1, <2>2, ShapeMoves DEF SpinSteals, EnqueueTask
  <2>4. pc'[currentFiber] = "workWait" /\ mutex' = "worker" /\ ~stopped /\ EnqueueTask(t)
        /\ UNCHANGED <<fiberVars, ctrlVars>>
    BY Zenon, <1>1 DEF SpinSteals, TypeOK
  <2>5. NumInSync' /\ Leaving'
    BY <2>3, <2>4, EnqueueTaskParts
  <2>6. MutexHeld'
    BY Zenon, <2>4 DEF MutexHeld, Holding
  <2> QED BY <2>3, <2>5, <2>6, InvParts DEF IInv, Shape
<1>2. ASSUME NEW t, EnqueueTask(t), ~stopped, ~MainRejoined, pc[currentFiber] # "exit",
             UNCHANGED <<mutex, fiberVars, pc, registered, ctrlVars>>,
             \A c \in Clients : client'[c].at = "notify" => client'[c].task \in Tasks
      PROVE  IInv'
  <2>1. Shape'
    BY Zenon, <1>2, ShapeFrame DEF EnqueueTask
  <2>2. ~MainRejoined'
    BY Zenon, <1>2 DEF MainRejoined, Created
  <2>3. NumInSync' /\ Leaving'
    BY Zenon, <1>2, <2>2, EnqueueTaskParts
  <2>4. MutexHeld'
    BY Zenon, <1>2 DEF MutexHeld
  <2> QED BY <2>1, <2>3, <2>4, InvParts DEF IInv, Shape
<1>3. ASSUME NEW t \in Tasks, TaskSchedules(t) PROVE IInv'
  <2>1. ~MainRejoined /\ ~stopped /\ pc[currentFiber] # "exit"
    BY Zenon, <1>3 DEF TaskSchedules, Leaving
  <2> QED BY Zenon, <1>2, <1>3, <2>1 DEF TaskSchedules, Registered
<1>4. ASSUME NEW c \in Clients, NEW t \in AllTasks, ClientEnqueues(c, t) PROVE IInv'
  <2>1. ~shutdown
    BY Zenon, <1>4 DEF ClientEnqueues, Leaving
  <2>2. ~MainRejoined /\ ~stopped /\ pc[currentFiber] # "exit"
    BY Zenon, <2>1 DEF Leaving
  <2>3. \A d \in Clients : client'[d].at = "notify" => client'[d].task \in Tasks
    <3>1. client' \in {[client EXCEPT ![c] = [at |-> "added", task |-> NoTask]],
                       [client EXCEPT ![c] = Idle]}
      BY Zenon, <1>4 DEF ClientEnqueues, ThenNotify
    <3>2. [at |-> "added", task |-> NoTask].at = "added" /\ Idle.at = "idle"
      BY ONLY TRUE DEF Idle
    <3>3. client'[c].at # "notify" /\ \A d \in Clients \ {c} : client'[d] = client[d]
      BY Zenon, <3>1, <3>2 DEF TypeOK
    <3> QED BY Zenon, <3>3 DEF Registered
  <2> QED BY Zenon, <1>2, <1>4, <2>2, <2>3 DEF ClientEnqueues
<1> QED BY <1>1, <1>3, <1>4

\* The steps of clients that do not touch the worker's queues, and the clock.
LEMMA FrameActions ==
  ASSUME IInv, TypeOK',
         \/ \E c \in Clients : \/ ClientNotifiesAdded(c) \/ ClientNotifiesNobody(c)
                               \/ ClientUnlocks(c)
                               \/ \E t \in Tasks, b \in BOOLEAN : ClientSignals(c, t, b)
         \/ Tick \/ UNCHANGED vars
  PROVE  IInv'
<1> TypeOK /\ Registered
  BY DEF IInv
<1>0. ASSUME NEW c \in Clients, NEW r, client' = [client EXCEPT ![c] = r],
             r.at = "notify" => r.task \in Tasks
      PROVE  \A d \in Clients : client'[d].at = "notify" => client'[d].task \in Tasks
  BY Zenon, <1>0 DEF TypeOK, Registered
<1>1. Idle.at # "notify"
  BY DEF Idle
<1>2. ASSUME NEW c \in Clients, ClientNotifiesAdded(c) PROVE IInv'
  BY Zenon, <1>0, <1>1, <1>2, FrameStep DEF ClientNotifiesAdded
<1>3. ASSUME NEW c \in Clients, ClientNotifiesNobody(c) PROVE IInv'
  BY Zenon, <1>0, <1>1, <1>3, FrameStep DEF ClientNotifiesNobody
<1>4. ASSUME NEW c \in Clients, ClientUnlocks(c) PROVE IInv'
  BY Zenon, <1>4, FrameStep DEF ClientUnlocks, clientVars, Registered
<1>5. ASSUME NEW c \in Clients, NEW t \in Tasks, NEW b \in BOOLEAN, ClientSignals(c, t, b)
      PROVE  IInv'
  <2>1. \A d \in Clients : client'[d].at = "notify" => client'[d].task \in Tasks
    BY Zenon, <1>0, <1>5 DEF ClientSignals
  <2> QED BY Zenon, <1>5, <2>1, FrameStep DEF ClientSignals
<1>6. CASE Tick
  BY Zenon, <1>6, FrameStep DEF Tick, userVars, Registered
<1>7. CASE UNCHANGED vars
  BY Zenon, <1>7, FrameStep DEF vars, userVars, clientVars, Registered
<1> QED BY Zenon, <1>2, <1>3, <1>4, <1>5, <1>6, <1>7

\* Worker::enqueue(Fiber*) of a fiber that is inside a wait().
LEMMA EnqueueFiberStep ==
  ASSUME IInv, TypeOK', NEW f \in Fibers, EnqueueFiber(f),
         InSuspend(f) \/ pc[f] \in {"lockWork", "relock"}, mutex = "free",
         UNCHANGED <<mutex, currentFiber, idleFibers, numFibers, task, deadline, pc, registered,
                     taskVars, ctrlVars>>,
         \A c \in Clients : client'[c].at = "notify" => client'[c].task \in Tasks
  PROVE  IInv'
<1> USE DEF taskVars, ctrlVars
<1> TypeOK /\ NumInSync /\ Shape /\ Leaving /\ MutexHeld
  BY Zenon, InvParts
<1>1. CASE ~NeedsEnqueue(f)
  BY Zenon, <1>1, FrameStep DEF EnqueueFiber, fiberVars
<1>2. CASE NeedsEnqueue(f)
  <2>1. /\ fibers' = Append(fibers, f) /\ num' = num + 1 /\ tasks' = tasks
        /\ numBlockedFibers' = numBlockedFibers
        /\ state' = [state EXCEPT ![f] = "Queued"]
        /\ waiting' = IF state[f] = "Waiting" THEN Erase(waiting, f) ELSE waiting
    BY Zenon, <1>2 DEF EnqueueFiber, PushFiber
  <2>2. state[f] \in {"Yielded", "Waiting"} /\ InSuspend(f)
    BY ZenonT(60), <1>2 DEF NeedsEnqueue, Shape, Placed, TypeOK, States, Looping, Tasking, InSuspend
  <2>3. state' \in [Fibers -> States] /\ state \in [Fibers -> States] /\ fibers \in Seq(Fibers)
        /\ tasks \in Seq(AllTasks)
    BY Zenon DEF TypeOK
  <2>4. NumInSync'
    <3>1. Len(Append(fibers, f)) = Len(fibers) + 1 /\ Len(fibers) \in Nat /\ Len(tasks) \in Nat
      BY ONLY f \in Fibers, <2>3
    <3>2. Len(fibers') = Len(fibers) + 1 /\ Len(tasks') = Len(tasks)
      BY ONLY Zenon, <2>1, <3>1
    <3>3. num' = num + 1 /\ num = Len(fibers) + Len(tasks)
      BY ONLY Zenon, <2>1, NumInSync DEF NumInSync
    <3>4. num' = Len(fibers') + Len(tasks')
      BY ONLY <3>1, <3>2, <3>3
    <3> QED BY ONLY Zenon, <3>4 DEF NumInSync
  <2>5. WaitingInSync'
    <3>1. InSync(waiting')
      BY Zenon, <2>1, EraseInSync DEF Shape, WaitingInSync
    <3>2. \A g \in DOMAIN waiting'.fibers : waiting'.fibers[g] = deadline[g]
      BY Zenon, <2>1 DEF Shape, WaitingInSync, Erase
    <3> QED BY Zenon, <3>1, <3>2 DEF WaitingInSync
  <2>6. BlockedCounted'
    BY Zenon, <2>1 DEF Shape, BlockedCounted, Created
  <2>7. Placed'
    <3>1. \A g \in Fibers : state'[g] = IF g = f THEN "Queued" ELSE state[g]
      BY Zenon, <2>1, <2>3
    <3>2. Created' = Created
      BY Zenon DEF Created
    <3>3. ASSUME NEW g \in Fibers
          PROVE  /\ state'[g] = "Idle" <=> state[g] = "Idle"
                 /\ state'[g] \in {"Yielded", "Waiting", "Queued"}
                      <=> state[g] \in {"Yielded", "Waiting", "Queued"}
                 /\ state[g] = "Queued" => state'[g] = "Queued"
      BY ONLY <2>2, <3>1, g \in Fibers
    <3>4. Placed /\ currentFiber \in Fibers /\ UNCHANGED <<pc, task, currentFiber>>
      BY Zenon, CreatedType DEF Shape, Placed
    <3> QED BY ONLY Zenon, <3>2, <3>3, <3>4 DEF Placed, InSuspend
  <2>8. Listed'
    <3>0. fibers' = Append(fibers, f) /\ fibers \in Seq(Fibers) /\ f \in Fibers
      BY Zenon, <2>1, <2>3
    <3>1. ~InQueue(f) /\ ~SwitchedTo(f)
      BY Zenon, <2>2 DEF Shape, Listed, Placed, SwitchedTo, Looping, InSuspend, Suspending
    <3>2. \A j \in DOMAIN fibers' : \/ j \in DOMAIN fibers /\ fibers'[j] = fibers[j]
                                    \/ j = Len(fibers) + 1 /\ fibers'[j] = f
      BY ONLY SMTT(60), <3>0
    <3>3. DOMAIN fibers \subseteq DOMAIN fibers' /\ Len(fibers) + 1 \in DOMAIN fibers'
          /\ fibers'[Len(fibers) + 1] = f /\ \A j \in DOMAIN fibers : fibers'[j] = fibers[j]
      BY ONLY SMTT(60), <3>0
    <3>4. \A g \in Fibers : InQueue(g)' <=> InQueue(g) \/ g = f
      BY Zenon, <3>2, <3>3 DEF InQueue
    <3>5. \A j, k \in DOMAIN fibers' : fibers'[j] = fibers'[k] => j = k
      <4>1. \A j, k \in DOMAIN fibers : fibers[j] = fibers[k] => j = k
        BY Zenon DEF Shape, Listed
      <4>2. \A j \in DOMAIN fibers : fibers[j] # f
        BY Zenon, <3>1 DEF InQueue
      <4> QED BY ONLY Zenon, <3>2, <4>1, <4>2
    <3>6. \A g \in Fibers : SwitchedTo(g)' <=> SwitchedTo(g)
      BY Zenon DEF SwitchedTo
    <3>7. \A g : Contains(waiting', g) <=> Contains(waiting, g) /\ g # f
      BY Zenon, <2>1, <2>2 DEF Contains, Erase, Shape, Listed
    <3>8. \A g \in Fibers : state'[g] = IF g = f THEN "Queued" ELSE state[g]
      BY Zenon, <2>1, <2>3
    <3> QED BY Zenon, <3>1, <3>4, <3>5, <3>6, <3>7, <3>8 DEF Shape, Listed
  <2>9. IdleListed' /\ Registered' /\ MutexHeld'
    BY Zenon DEF Shape, IdleListed, MainRejoined, Created, Registered, InSuspend, MutexHeld
  <2>10. Leaving'
    <3>1. ~MainRejoined /\ ~stopped /\ pc[currentFiber] # "exit"
      <4>1. pc[currentFiber] \notin {"idle", "runUntilIdle", "runUntilShutdown", "exit"}
        <5>1. CASE f = currentFiber
          BY Zenon, <2>2, <5>1 DEF InSuspend, Suspending
        <5>2. CASE f # currentFiber
          <6>1. pc[f] = "blocked"
            BY Zenon, <2>2, <5>2 DEF Shape, Placed, Parked, InSuspend, Suspending
          <6>2. numBlockedFibers - 1 \in Nat
            BY Zenon, <6>1, BlockedPositive DEF Shape
          <6>3. numBlockedFibers # 0
            BY ONLY <6>2
          <6>4. ~MainRejoined /\ pc[currentFiber] # "exit"
            BY Zenon, <6>3 DEF Leaving
          <6> QED BY Zenon, <6>4 DEF MutexHeld, Holding, Leaving
        <5> QED BY Zenon, <5>1, <5>2
      <4> QED BY Zenon, <4>1 DEF Leaving
    <3> QED BY Zenon, <2>1, <3>1 DEF Leaving, MainRejoined, Created
  <2> QED BY Zenon, <2>4, <2>5, <2>6, <2>7, <2>8, <2>9, <2>10 DEF IInv
<1> QED BY Zenon, <1>1, <1>2

\* The steps that notify a fiber.
LEMMA EnqueueFiberActions ==
  ASSUME IInv, TypeOK',
         \/ \E t \in Tasks : TaskNotifies(t)
         \/ \E c \in Clients : ClientNotifies(c) \/ \E t \in Tasks : ClientNotifiesRaw(c, t)
  PROVE  IInv'
<1> TypeOK /\ Registered
  BY DEF IInv
<1>1. ASSUME NEW t \in Tasks, registered[t] # NoFiber
      PROVE  /\ registered[t] \in Fibers
             /\ InSuspend(registered[t]) \/ pc[registered[t]] \in {"lockWork", "relock"}
  <2>1. registered[t] \in Fibers \cup {NoFiber}
    BY Zenon DEF TypeOK
  <2> QED BY Zenon, <1>1, <2>1 DEF Registered
<1>2. ASSUME NEW t \in Tasks, TaskNotifies(t) PROVE IInv'
  <2>1. registered[t] # NoFiber
    BY Zenon, <1>2 DEF TaskNotifies, InRawWait
  <2> QED BY Zenon, <1>1, <1>2, <2>1, EnqueueFiberStep
             DEF TaskNotifies, userVars, clientVars, Registered
<1>3. ASSUME NEW c \in Clients, ClientNotifies(c) PROVE IInv'
  <2>1. client[c].task \in Tasks /\ registered[client[c].task] # NoFiber
    BY <1>3 DEF ClientNotifies, Registered
  <2>2. client' \in {[client EXCEPT ![c].at = "added"], [client EXCEPT ![c] = Idle]}
    BY <1>3 DEF ClientNotifies
  <2>3. \A d \in Clients : client'[d].at = "notify" => client'[d].task \in Tasks
    <3>1. client[c] \in [at : {"idle", "notify", "added"}, task : Tasks \cup {NoTask}]
      BY Zenon DEF TypeOK
    <3>2. [client[c] EXCEPT !.at = "added"].at = "added" /\ Idle.at = "idle"
      BY <3>1 DEF Idle
    <3>3. client'[c].at # "notify" /\ \A d \in Clients \ {c} : client'[d] = client[d]
      BY Zenon, <2>2, <3>2 DEF TypeOK
    <3> QED BY Zenon, <3>3 DEF Registered
  <2> QED BY Zenon, <1>1, <1>3, <2>1, <2>3, EnqueueFiberStep DEF ClientNotifies
<1>4. ASSUME NEW c \in Clients, NEW t \in Tasks, ClientNotifiesRaw(c, t) PROVE IInv'
  <2>1. registered[t] # NoFiber
    BY Zenon, <1>4 DEF ClientNotifiesRaw, InRawWait
  <2>2. \A d \in Clients : client'[d].at = "notify" => client'[d].task \in Tasks
    <3>1. \/ client' = [client EXCEPT ![c] = [at |-> "added", task |-> NoTask]]
          \/ client' = [client EXCEPT ![c] = Idle]
      BY Zenon, <1>4 DEF ClientNotifiesRaw, ThenNotify
    <3>2. [at |-> "added", task |-> NoTask].at = "added" /\ Idle.at = "idle"
      BY ONLY TRUE DEF Idle
    <3>3. client'[c].at # "notify" /\ \A d \in Clients \ {c} : client'[d] = client[d]
      BY Zenon, <3>1, <3>2 DEF TypeOK
    <3> QED BY Zenon, <3>3 DEF Registered
  <2> QED BY Zenon, <1>1, <1>4, <2>1, <2>2, EnqueueFiberStep DEF ClientNotifiesRaw, userVars
<1> QED BY <1>2, <1>3, <1>4
=============================================================================
