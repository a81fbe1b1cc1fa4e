------------------------- MODULE ConditionVariable -------------------------
(***************************************************************************)
(* marl::ConditionVariable (include/marl/conditionvariable.h): any number  *)
(* of waiting fibers and threads, and any number of notifiers.  The        *)
(* condition the waiters wait for is a number of tokens: a notifier adds   *)
(* one under the user's lock and notifies, a waiter whose wait() succeeds  *)
(* takes one if Consume.                                                   *)
(*                                                                         *)
(* Of the scheduler only what a fiber sees is kept: Fiber::notify() queues *)
(* a suspended fiber and ignores a running or queued one, a queued fiber   *)
(* is resumed later, and the release of the user's lock and the suspension *)
(* are one step for notifiers (Worker!NoLostWakeup is about that step).    *)
(* The critical sections of the internal mutex are single steps.           *)
(***************************************************************************)
EXTENDS Integers, Sequences, FiniteSets

CONSTANTS
  Fibers,     \* waiters that run on a scheduler fiber
  Threads,    \* waiters on a thread with no scheduler bound
  Timed,      \* the waiters that call wait_until(); the others call wait()
  Notifiers,  \* each adds one token and notifies once, with notify_one() or notify_all()
  Consume,    \* does a successful wait take a token?
  Free        \* nobody holds the user's lock

Waiters == Fibers \cup Threads

ASSUME CVAssumption ==
  /\ Fibers \cap Threads = {} /\ Waiters \cap Notifiers = {} /\ Timed \subseteq Waiters
  /\ Consume \in BOOLEAN /\ Free \notin Waiters \cup Notifiers
  /\ IsFiniteSet(Waiters) /\ IsFiniteSet(Notifiers)

VARIABLES
  lock,                   \* holder of the user's lock
  tokens,                 \* the user's condition: pred() is tokens > 0
  waiting,                \* ConditionVariable::waiting, first element first
  numWaiting, numWaitingOnCondition,
  at,                     \* where each waiter and notifier is
  calls,                  \* what each notifier calls: "none" yet, notify_one() or notify_all()
  state,                  \* Fiber::state of a waiting fiber
  signalled,              \* threads `condition' has been notified for
  expired,                \* waiters whose time point has passed
  result                  \* what each wait() returned

vars == <<lock, tokens, waiting, numWaiting, numWaitingOnCondition, at, calls, state,
          signalled, expired, result>>

Init ==
  /\ lock = Free /\ tokens = 0 /\ waiting = <<>>
  /\ numWaiting = 0 /\ numWaitingOnCondition = 0
  /\ at = [a \in Waiters \cup Notifiers |-> "idle"]
  /\ calls = [n \in Notifiers |-> "none"] /\ state = [f \in Fibers |-> "Running"]
  /\ signalled = {} /\ expired = {} /\ result = [w \in Waiters |-> "none"]

Pred == tokens > 0
Move(a, place) == at' = [at EXCEPT ![a] = place]

\* The caller has got its answer, uses the condition and unlocks.
Leave(w, r) ==
  /\ result' = [result EXCEPT ![w] = IF r THEN "true" ELSE "false"]
  /\ tokens' = IF r /\ Consume THEN tokens - 1 ELSE tokens
  /\ lock' = Free /\ Move(w, "left")

\* wait() and wait_until(): with the lock held, return at once if pred() holds.
BeginWait(w) ==
  /\ at[w] = "idle" /\ lock = Free
  /\ IF Pred THEN Leave(w, TRUE)
     ELSE lock' = w /\ Move(w, "count") /\ UNCHANGED <<result, tokens>>
  /\ UNCHANGED <<waiting, numWaiting, numWaitingOnCondition, state, signalled, expired,
                 calls>>

\* numWaiting++
Count(w) ==
  /\ at[w] = "count" /\ numWaiting' = numWaiting + 1
  /\ Move(w, IF w \in Fibers THEN "emplace" ELSE "countOnCondition")
  /\ UNCHANGED <<lock, tokens, waiting, numWaitingOnCondition, state, signalled, expired,
                 result, calls>>

\* numWaitingOnCondition++
CountOnCondition(w) ==
  /\ at[w] = "countOnCondition" /\ numWaitingOnCondition' = numWaitingOnCondition + 1
  /\ Move(w, "test")
  /\ UNCHANGED <<lock, tokens, waiting, numWaiting, state, signalled, expired, result,
                 calls>>

\* waiting.emplace_front(fiber)
Emplace(f) ==
  /\ at[f] = "emplace" /\ waiting' = <<f>> \o waiting /\ Move(f, "test")
  /\ UNCHANGED <<lock, tokens, numWaiting, numWaitingOnCondition, state, signalled, expired,
                 result, calls>>

\* Worker::wait(): with pred() false unlock and suspend the fiber.
Suspend(f) ==
  /\ at[f] = "test" /\ f \in Fibers /\ ~Pred
  /\ state' = [state EXCEPT ![f] = IF f \in Timed THEN "Waiting" ELSE "Yielded"]
  /\ lock' = Free /\ Move(f, "suspended")
  /\ UNCHANGED <<tokens, waiting, numWaiting, numWaitingOnCondition, signalled, expired,
                 result, calls>>

\* std::condition_variable: with pred() false unlock and block the thread.
Block(w) ==
  /\ at[w] = "test" /\ w \in Threads /\ ~Pred
  /\ lock' = Free /\ Move(w, "suspended") /\ signalled' = signalled \ {w}
  /\ UNCHANGED <<tokens, waiting, numWaiting, numWaitingOnCondition, state, expired, result,
                 calls>>

\* The clock passes the time point of a wait in progress.
Expire(w) ==
  /\ w \in Timed \ expired /\ at[w] \notin {"idle", "left"}
  /\ expired' = expired \cup {w}
  /\ UNCHANGED <<lock, tokens, waiting, numWaiting, numWaitingOnCondition, at, state,
                 signalled, result, calls>>

\* enqueueFiberTimeouts() queues a fiber whose time point has passed.
TimeOut(f) ==
  /\ at[f] = "suspended" /\ f \in Fibers \cap expired /\ state[f] = "Waiting"
  /\ state' = [state EXCEPT ![f] = "Queued"]
  /\ UNCHANGED <<lock, tokens, waiting, numWaiting, numWaitingOnCondition, at, signalled,
                 expired, result, calls>>

\* The worker resumes a queued fiber.
Resume(f) ==
  /\ at[f] = "suspended" /\ f \in Fibers /\ state[f] = "Queued"
  /\ state' = [state EXCEPT ![f] = "Running"] /\ Move(f, "relock")
  /\ UNCHANGED <<lock, tokens, waiting, numWaiting, numWaitingOnCondition, signalled,
                 expired, result, calls>>

\* Mutant: a fiber is not erased from the list.
EndOfLoopNoErase(w) == IF w \in Fibers THEN "uncount" ELSE "uncountOnCondition"

\* Where wait() goes on when the wait for the predicate is over.
EndOfLoop(w) == IF w \in Fibers THEN "erase" ELSE "uncountOnCondition"

\* Worker::wait(): lock again; past the time point return false without
\* calling pred(), else go round the loop.
RelockFiber(f) ==
  /\ at[f] = "relock" /\ f \in Fibers /\ lock = Free
  /\ lock' = f
  /\ IF f \in expired THEN Move(f, EndOfLoop(f)) /\ result' = [result EXCEPT ![f] = "false"]
     ELSE Move(f, "test") /\ UNCHANGED result
  /\ UNCHANGED <<tokens, waiting, numWaiting, numWaitingOnCondition, state, signalled,
                 expired, calls>>

\* The blocked thread was notified, timed out, or woke up spuriously.
Unblock(w) ==
  /\ at[w] = "suspended" /\ w \in Threads /\ Move(w, "relock")
  /\ signalled' = signalled \ {w}
  /\ UNCHANGED <<lock, tokens, waiting, numWaiting, numWaitingOnCondition, state, expired,
                 result, calls>>

\* std::condition_variable: lock again; past the time point return pred().
RelockThread(w) ==
  /\ at[w] = "relock" /\ w \in Threads /\ lock = Free
  /\ lock' = w
  /\ IF w \in expired /\ ~Pred
     THEN Move(w, EndOfLoop(w)) /\ result' = [result EXCEPT ![w] = "false"]
     ELSE Move(w, "test") /\ UNCHANGED result
  /\ UNCHANGED <<tokens, waiting, numWaiting, numWaitingOnCondition, state, signalled,
                 expired, calls>>

\* The loop ends: pred() holds.
Succeed(w) ==
  /\ at[w] = "test" /\ Pred
  /\ result' = [result EXCEPT ![w] = "true"]
  /\ Move(w, EndOfLoop(w))
  /\ UNCHANGED <<lock, tokens, waiting, numWaiting, numWaitingOnCondition, state, signalled,
                 expired, calls>>

\* The list without the node `it' points to.
Without(it) == [i \in 1 .. Len(waiting) - 1 |-> waiting[IF i < it THEN i ELSE i + 1]]

\* waiting.erase(it), `it' being what emplace_front() returned.
EraseFiber(f) ==
  /\ at[f] = "erase" /\ Move(f, "uncount")
  /\ \E it \in DOMAIN waiting : waiting[it] = f /\ waiting' = Without(it)
  /\ UNCHANGED <<lock, tokens, numWaiting, numWaitingOnCondition, state, signalled, expired,
                 result, calls>>

\* numWaitingOnCondition--
UncountOnCondition(w) ==
  /\ at[w] = "uncountOnCondition" /\ Move(w, "uncount")
  /\ numWaitingOnCondition' = numWaitingOnCondition - 1
  /\ UNCHANGED <<lock, tokens, waiting, numWaiting, state, signalled, expired, result,
                 calls>>

\* numWaiting--, and the call returns.
EndWait(w) ==
  /\ at[w] = "uncount" /\ numWaiting' = numWaiting - 1
  /\ Leave(w, result[w] = "true")
  /\ UNCHANGED <<waiting, numWaitingOnCondition, state, signalled, expired, calls>>
-----------------------------------------------------------------------------
(* The notifiers.                                                          *)

\* The user makes the condition true, with the lock held, and calls one of the
\* two functions ...
AddToken(n, call) ==
  /\ at[n] = "idle" /\ lock = Free
  /\ lock' = n /\ tokens' = tokens + 1 /\ Move(n, "fastPath")
  /\ calls' = [calls EXCEPT ![n] = call]
  /\ UNCHANGED <<waiting, numWaiting, numWaitingOnCondition, state, signalled, expired,
                 result>>

\* ... and may release it before notifying.
UnlockFirst(n) ==
  /\ at[n] = "fastPath" /\ lock = n /\ lock' = Free
  /\ UNCHANGED <<tokens, waiting, numWaiting, numWaitingOnCondition, at, state, signalled,
                 expired, result, calls>>

Return(n) == Move(n, "left") /\ lock' = IF lock = n THEN Free ELSE lock

\* Mutant: one waiter is overlooked.
NobodyWaitsOffByOne == numWaiting <= 1

\* numWaiting == 0
NobodyWaits == numWaiting = 0

\* With nobody waiting return at once.
FastPath(n) ==
  /\ at[n] = "fastPath"
  /\ IF NobodyWaits THEN Return(n) ELSE Move(n, "list") /\ UNCHANGED lock
  /\ UNCHANGED <<tokens, waiting, numWaiting, numWaitingOnCondition, state, signalled,
                 expired, result, calls>>

All(n) == calls[n] = "notify_all"

\* Fiber::notify() for each of a set of fibers.
Notified(fs) ==
  [f \in Fibers |-> IF f \in fs /\ state[f] \notin {"Running", "Queued"} THEN "Queued"
                    ELSE state[f]]

\* Mutant: notify_all() returns once it has notified fibers, as notify_one().
GoesOnIfNoFiber(n) == waiting = <<>>

\* Does the call go on to the threads after the fibers?
GoesOn(n) == All(n) \/ waiting = <<>>

\* With the internal mutex held: notify_one() notifies the first fiber of the
\* list, if there is one, and returns; notify_all() notifies them all.
NotifyFibers(n) ==
  /\ at[n] = "list"
  /\ state' = Notified({waiting[i] : i \in DOMAIN waiting \cap IF All(n) THEN Nat ELSE {1}})
  /\ IF GoesOn(n) THEN Move(n, "condition") /\ UNCHANGED lock ELSE Return(n)
  /\ UNCHANGED <<tokens, waiting, numWaiting, numWaitingOnCondition, signalled, expired,
                 result, calls>>

\* condition.notify_one() or notify_all(), if a thread is counted.
Blocked == {w \in Threads \ signalled : at[w] = "suspended"}
NotifyThreads(n) ==
  /\ at[n] = "condition" /\ Return(n)
  /\ IF numWaitingOnCondition = 0 \/ Blocked = {} THEN UNCHANGED signalled
     ELSE IF All(n) THEN signalled' = signalled \cup Blocked
     ELSE \E w \in Blocked : signalled' = signalled \cup {w}
  /\ UNCHANGED <<tokens, waiting, numWaiting, numWaitingOnCondition, state, expired, result,
                 calls>>
-----------------------------------------------------------------------------
\* The steps of a call to wait() that the scheduler or the system goes on with;
\* a blocked thread unblocks when it was notified or its time point has passed.
WaitStep(w) ==
  \/ Count(w) \/ CountOnCondition(w) \/ Emplace(w) \/ Suspend(w) \/ Block(w) \/ TimeOut(w)
  \/ Resume(w) \/ (w \in signalled \cup expired /\ Unblock(w))
  \/ RelockFiber(w) \/ RelockThread(w) \/ Succeed(w) \/ EraseFiber(w)
  \/ UncountOnCondition(w) \/ EndWait(w)
NotifyStep(n) == FastPath(n) \/ NotifyFibers(n) \/ NotifyThreads(n)

\* Nobody notifies any more and the waiters left, if any, wait without timeout.
Quiet ==
  /\ \A n \in Notifiers : at[n] = "left"
  /\ \A w \in Waiters : at[w] \in {"left"} \cup IF w \in Timed THEN {} ELSE {"suspended"}
  /\ UNCHANGED vars

Next ==
  \/ \E w \in Waiters : BeginWait(w) \/ WaitStep(w) \/ Unblock(w) \/ Expire(w)
  \/ \E n \in Notifiers : \/ \E call \in {"notify_one", "notify_all"} : AddToken(n, call)
                           \/ UnlockFirst(n) \/ NotifyStep(n)
  \/ Quiet

Spec == Init /\ [][Next]_vars

\* A call that has begun goes on whenever it can, and time passes.  Fairness is
\* strong for waiters because a blocked thread may wake up spuriously without
\* end: that does not keep the others from the user's lock forever.  Whether a
\* waiter or a notifier ever comes is up to the user.
FairSpec ==
  /\ Spec
  /\ \A w \in Waiters : SF_vars(WaitStep(w)) /\ WF_vars(Expire(w))
  /\ \A n \in Notifiers : WF_vars(NotifyStep(n))
-----------------------------------------------------------------------------
(* Properties.                                                             *)

\* Is the waiter blocked with nobody having notified it or timed it out?
Parked(w) ==
  /\ at[w] = "suspended"
  /\ IF w \in Fibers THEN state[w] \in {"Yielded", "Waiting"} ELSE w \notin signalled

OneCalls == {n \in Notifiers : calls[n] = "notify_one"}

\* A waiter that is blocked while there are more tokens than calls of
\* notify_one() has a notifier still to come, even if that notifier unlocked
\* first: neither the test of numWaiting nor that of numWaitingOnCondition makes
\* notify_all() miss a waiter that counted itself and then blocked.
NoLostNotifyAll ==
  \A w \in Waiters : Parked(w) /\ tokens > Cardinality(OneCalls) =>
    \E n \in Notifiers : \/ at[n] \in {"fastPath", "list"}
                         \/ w \in Threads /\ at[n] = "condition"

\* A fiber on the list is inside wait(), is there once, and is counted: a
\* notifier never reaches a fiber that left wait() and runs something else.
ListedAreWaiting ==
  /\ \A i, j \in DOMAIN waiting : waiting[i] = waiting[j] => i = j
  /\ \A i \in DOMAIN waiting : at[waiting[i]] \in {"test", "suspended", "relock", "erase"}
  /\ Len(waiting) + numWaitingOnCondition <= numWaiting

\* A wait that is entitled to return does: one with a time point, and, unless
\* somebody calls notify_one(), any wait that is suspended while a token is there
\* and no other waiter takes it (wait(), wait_until(), notify_all()).
WaitsReturn ==
  \A w \in Waiters :
    /\ w \in Timed /\ at[w] # "idle" ~> at[w] = "left"
    /\ at[w] = "suspended" /\ Pred ~> at[w] = "left" \/ ~Pred \/ OneCalls # {}

\* wait_until() returns false only if the predicate is false then: "Returns
\* false if pred still evaluates to false after the timeout has been reached,
\* otherwise true."
FalseMeansFalse ==
  \A w \in Waiters :
    lock = w /\ at[w] \in {"erase", "uncountOnCondition"} /\ result[w] = "false" => ~Pred
=============================================================================
