------------------------------ MODULE Parallel ------------------------------
(* parallelize(f0, f1, ... fn) and blocking_call(f): one caller that starts  *)
(* functions, as tasks or on a new thread, and waits for them on a           *)
(* WaitGroup.  What the functions refer to is on the caller's stack.         *)
EXTENDS WaitGroup

CONSTANT MaxFns  \* bound on n

Caller == 0
Fns == 1..MaxFns

VARIABLES
  call,      \* "parallelize" or "blocking_call"
  scheduler, \* has the caller of blocking_call() a scheduler bound?
  numFns,    \* the functions besides f0
  wg,        \* the WaitGroup
  started,   \* how many of them have been started
  at,        \* where the caller and each function is
  bound,     \* is the scheduler bound to the new thread?
  ran        \* how often f0, f1, ... have run

vars == <<call, scheduler, numFns, wg, started, at, bound, ran>>

Init ==
  /\ \/ call = "parallelize" /\ numFns \in 0..MaxFns /\ scheduler = TRUE
     \/ call = "blocking_call" /\ numFns = 1 /\ scheduler \in BOOLEAN
  /\ wg = NewGroup(numFns) /\ started = 0
  /\ at = [f \in Fns \cup {Caller} |-> IF f = Caller THEN "start" ELSE "none"]
  /\ bound = FALSE /\ ran = [f \in Fns \cup {Caller} |-> 0]

Move(f, place) == at' = [at EXCEPT ![f] = place]

\* parallelizeChain() schedules the functions in turn; blocking_call() makes a thread.
Start ==
  /\ at[Caller] = "start" /\ started < numFns /\ started' = started + 1
  /\ Move(started + 1, IF call = "parallelize" THEN "call" ELSE "bind")
  /\ UNCHANGED <<call, scheduler, numFns, wg, bound, ran>>

\* parallelize() calls f0 on the current thread.
EndStart ==
  /\ at[Caller] = "start" /\ started = numFns /\ Move(Caller, "wait")
  /\ ran' = IF call = "parallelize" THEN [ran EXCEPT ![Caller] = @ + 1] ELSE ran
  /\ UNCHANGED <<call, scheduler, numFns, wg, started, bound>>

\* wg.wait(), followed by thread.join() in blocking_call().
AfterWait == IF call = "parallelize" THEN "returned" ELSE "join"
Wait ==
  /\ at[Caller] = "wait"
  /\ IF IsComplete(wg) THEN Move(Caller, AfterWait) /\ UNCHANGED wg
     ELSE Move(Caller, "suspended") /\ wg' = BeginWait(wg, Caller)
  /\ UNCHANGED <<call, scheduler, numFns, started, bound, ran>>

Wake ==
  /\ at[Caller] = "suspended" /\ Caller \in wg.cv.woken
  /\ IF IsComplete(wg) THEN wg' = EndWait(wg, Caller) /\ Move(Caller, AfterWait)
     ELSE wg' = WaitAgain(wg, Caller) /\ UNCHANGED at
  /\ UNCHANGED <<call, scheduler, numFns, started, bound, ran>>

JoinThread ==
  /\ at[Caller] = "join" /\ at[1] = "over" /\ Move(Caller, "returned")
  /\ UNCHANGED <<call, scheduler, numFns, wg, started, bound, ran>>

\* The new thread: scheduler->bind(), if there is one, ...
Bind(f) ==
  /\ at[f] = "bind" /\ Move(f, "call") /\ bound' = scheduler
  /\ UNCHANGED <<call, scheduler, numFns, wg, started, ran>>

\* ... the function, on a thread or as a task, ...
CallFn(f) ==
  /\ at[f] = "call" /\ ran' = [ran EXCEPT ![f] = @ + 1]
  /\ Move(f, IF call = "parallelize" THEN "done" ELSE "unbind")
  /\ UNCHANGED <<call, scheduler, numFns, wg, started, bound>>

\* ... Scheduler::unbind(), ...
Unbind(f) ==
  /\ at[f] = "unbind" /\ Move(f, "done") /\ bound' = FALSE
  /\ UNCHANGED <<call, scheduler, numFns, wg, started, ran>>

\* ... and wg.done().
Done(f) ==
  /\ at[f] = "done" /\ wg' = Decrement(wg) /\ Move(f, IF IsLastDone(wg) THEN "notify" ELSE "over")
  /\ UNCHANGED <<call, scheduler, numFns, started, bound, ran>>

DoneNotify(f) ==
  /\ at[f] = "notify" /\ wg' = NotifyDone(wg) /\ Move(f, "over")
  /\ UNCHANGED <<call, scheduler, numFns, started, bound, ran>>

Next ==
  \/ Start \/ EndStart \/ Wait \/ Wake \/ JoinThread
  \/ \E f \in Fns : Bind(f) \/ CallFn(f) \/ Unbind(f) \/ Done(f) \/ DoneNotify(f)

Spec == Init /\ [][Next]_vars
-----------------------------------------------------------------------------
(* Properties.                                                             *)

\* When parallelize() or blocking_call() returns, each function has run once and
\* nothing of the caller's stack is used any more; blocking_call() leaves no
\* thread and no scheduler bound to it (parallelize() and OnNewThread::call()).
ReturnsAfterAll ==
  at[Caller] = "returned" =>
    /\ \A f \in 1..numFns : ran[f] = 1
    /\ IF call = "parallelize" THEN \A f \in 1..numFns : at[f] \in {"notify", "over"}
       ELSE at[1] = "over" /\ ~bound

AllReturned == at[Caller] = "returned"
=============================================================================
