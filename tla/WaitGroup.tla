----------------------------- MODULE WaitGroup -----------------------------
(* WaitGroup: the counter WaitGroup::Data::count, which add() and done()     *)
(* change without the mutex, and its condition variable.  done() is two      *)
(* steps, Decrement and, for the last one, NotifyDone with the mutex held.   *)
EXTENDS WaitList, Integers

NewGroup(n) == [count |-> n, cv |-> NoWaiters]

\* add()
Add(wg, n) == [wg EXCEPT !.count = @ + n]

\* done(): --count; was it the last?
Decrement(wg) == [wg EXCEPT !.count = @ - 1]
IsLastDone(wg) == wg.count = 1

\* Mutant: the waiters are not notified.
NotifyNone(wg) == wg

\* done(): lock, notify_all().
NotifyDone(wg) == [wg EXCEPT !.cv = NotifyAll(@)]

\* The predicate of wait(), and what the waiter does to the condition variable.
IsComplete(wg)    == wg.count = 0
BeginWait(wg, f)  == [wg EXCEPT !.cv = Join(@, f)]
WaitAgain(wg, f)  == [wg EXCEPT !.cv = Resuspend(@, f)]
EndWait(wg, f)    == [wg EXCEPT !.cv = Leave(@, f)]
=============================================================================
