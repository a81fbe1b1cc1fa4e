------------------------------ MODULE WaitList ------------------------------
(* A ConditionVariable as the primitives built on it see it, for waiters on  *)
(* scheduler fibers: the list of the waiting fibers, the last to come first, *)
(* and those of them that have been notified and will look at their          *)
(* predicate again.  A fiber stays on the list until its wait returns.       *)
(* Module ConditionVariable has the steps behind each of these operators.    *)
EXTENDS Sequences, Functions

NoWaiters == [list |-> <<>>, woken |-> {}]

\* wait() with the predicate false: listed, and suspended as the lock is released.
Join(cv, f) == [cv EXCEPT !.list = <<f>> \o @]

\* notify_one(): the first of the list, awake already or not.
NotifyOne(cv) ==
  [cv EXCEPT !.woken = @ \cup {cv.list[i] : i \in DOMAIN cv.list \cap {1}}]

\* notify_all()
NotifyAll(cv) == [cv EXCEPT !.woken = Range(cv.list)]

\* Woken with the predicate still false: suspended again.
Resuspend(cv, f) == [cv EXCEPT !.woken = @ \ {f}]

\* The wait returns: waiting.erase(it), `it' being where the fiber was put.
Without(s, it) == [i \in 1..Len(s) - 1 |-> s[IF i < it THEN i ELSE i + 1]]
Leave(cv, f) ==
  [list |-> Without(cv.list, CHOOSE it \in DOMAIN cv.list : cv.list[it] = f),
   woken |-> cv.woken \ {f}]
=============================================================================
