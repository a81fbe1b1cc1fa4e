-------------------------------- MODULE Pool --------------------------------
(* BoundedPool<T, N, POLICY>, UnboundedPool<T, POLICY> and Loan: users       *)
(* borrow items, copy, move and reset their loans, and the last loan of an   *)
(* item returns it.  The chain of free items is the sequence free, first     *)
(* item first.  The storage lives for as long as the pool or a loan owns it. *)
EXTENDS WaitList, Integers, FiniteSets

CONSTANTS
  Users,     \* tasks that use the pool
  Greedy,    \* the users that call borrow(2, f); the others call borrow()
  N,         \* items of a BoundedPool
  Batch,     \* items an UnboundedPool adds at least, 32 in the code
  MaxItems,  \* bound on the items of an UnboundedPool
  MaxCalls,  \* bound on the calls of borrow() by each user
  MaxShares, \* bound on the copies and moves of loans
  NoUser     \* nobody holds the mutex

ASSUME PoolAssumption ==
  /\ IsFiniteSet(Users) /\ Greedy \subseteq Users /\ NoUser \notin Users
  /\ N \in Nat \ {0} /\ Batch \in Nat \ {0} /\ MaxItems \in Nat /\ N <= MaxItems
  /\ MaxCalls \in Nat /\ MaxShares \in Nat

VARIABLES
  kind, policy,    \* "Bounded" or "Unbounded"; PoolPolicy
  exists,          \* the pool object, and whether the storage, is there
  mutex, returned, \* Storage::mutex and the condition variable Storage::returned
  items, free,     \* how many items there are, and Storage::free
  refcount,        \* Item::refcount
  live,            \* the items whose data is constructed
  loans,           \* the items each user has a Loan of
  at, left, item,  \* where each user is, items still to borrow, item it returns
  calls, shares    \* counted against the bounds

vars == <<kind, policy, exists, mutex, returned, items, free, refcount, live, loans, at, left,
          item, calls, shares>>
fixed == <<kind, policy, exists>>
Items == 1..MaxItems
Reconstruct == policy = "Reconstruct"
Move(u, place) == at' = [at EXCEPT ![u] = place]

Init ==
  /\ kind \in {"Bounded", "Unbounded"} /\ policy \in {"Reconstruct", "Preserve"}
  /\ exists = [pool |-> TRUE, storage |-> TRUE] /\ mutex = NoUser /\ returned = NoWaiters
  /\ items = IF kind = "Bounded" THEN N ELSE 0
  /\ free = [i \in 1..items |-> items + 1 - i]
  /\ live = IF Reconstruct THEN {} ELSE 1..items
  /\ refcount = [i \in Items |-> 0] /\ loans = [u \in Users |-> {}]
  /\ at = [u \in Users |-> "out"] /\ left = [u \in Users |-> 0] /\ item = [u \in Users |-> 0]
  /\ calls = [u \in Users |-> 0] /\ shares = 0
-----------------------------------------------------------------------------
(* borrow()                                                                *)

\* lock(storage->mutex).  A user that has a loan does not wait for another one.
Borrow(u) ==
  /\ exists.pool /\ at[u] = "out" /\ loans[u] = {} /\ calls[u] < MaxCalls /\ mutex = NoUser
  /\ mutex' = u /\ left' = [left EXCEPT ![u] = IF u \in Greedy THEN 2 ELSE 1]
  /\ calls' = [calls EXCEPT ![u] = @ + 1] /\ Move(u, "borrow")
  /\ UNCHANGED <<fixed, returned, items, free, refcount, live, loans, item, shares>>

\* returned.wait(lock, free != nullptr)
WaitForReturn(u) ==
  /\ kind = "Bounded" /\ at[u] = "borrow" /\ free = <<>>
  /\ returned' = Join(returned, u) /\ mutex' = NoUser /\ Move(u, "wait")
  /\ UNCHANGED <<fixed, items, free, refcount, live, loans, left, item, calls, shares>>

Wake(u) ==
  /\ at[u] = "wait" /\ u \in returned.woken /\ mutex = NoUser
  /\ IF free = <<>>
     THEN returned' = Resuspend(returned, u) /\ UNCHANGED <<mutex, at>>
     ELSE returned' = Leave(returned, u) /\ mutex' = u /\ Move(u, "borrow")
  /\ UNCHANGED <<fixed, items, free, refcount, live, loans, left, item, calls, shares>>

\* How many items an empty UnboundedPool adds, and the chain they make.
Growth == IF kind = "Unbounded" /\ free = <<>>
          THEN IF items > Batch THEN items ELSE Batch ELSE 0
Grown == IF Growth = 0 THEN free ELSE [i \in 1..Growth |-> items + Growth + 1 - i]

\* Take the first free item, construct it, and hand its first Loan to f().
TakeItem(u) ==
  /\ at[u] = "borrow" /\ (kind = "Unbounded" \/ free # <<>>) /\ items + Growth <= MaxItems
  /\ items' = items + Growth /\ free' = Tail(Grown)
  /\ live' = live \cup IF Reconstruct THEN {Head(Grown)} ELSE items + 1..items + Growth
  /\ refcount' = [refcount EXCEPT ![Head(Grown)] = @ + 1]
  /\ loans' = [loans EXCEPT ![u] = @ \cup {Head(Grown)}]
  /\ left' = [left EXCEPT ![u] = @ - 1]
  /\ IF left[u] = 1 THEN mutex' = NoUser /\ Move(u, "out") ELSE UNCHANGED <<mutex, at>>
  /\ UNCHANGED <<fixed, returned, item, calls, shares>>
-----------------------------------------------------------------------------
(* Loans.  An assignment is reset() followed by a copy or a move.           *)

\* Loan(const Loan&): the copy is another user's.
CopyLoan(u, v, i) ==
  /\ i \in loans[u] \ loans[v] /\ at[u] = "out" /\ at[v] = "out" /\ shares < MaxShares
  /\ refcount' = [refcount EXCEPT ![i] = @ + 1] /\ loans' = [loans EXCEPT ![v] = @ \cup {i}]
  /\ shares' = shares + 1
  /\ UNCHANGED <<fixed, mutex, returned, items, free, live, at, left, item, calls>>

\* Loan(Loan&&)
MoveLoan(u, v, i) ==
  /\ i \in loans[u] \ loans[v] /\ at[u] = "out" /\ at[v] = "out" /\ shares < MaxShares
  /\ loans' = [loans EXCEPT ![u] = @ \ {i}, ![v] = @ \cup {i}] /\ shares' = shares + 1
  /\ UNCHANGED <<fixed, mutex, returned, items, free, refcount, live, at, left, item, calls>>

\* Mutant: the item is returned with another loan still there.
IsLastOffByOne(i) == refcount[i] <= 2

\* refs == 0
IsLast(i) == refcount[i] = 1

\* reset() and ~Loan(): count down, and the last one returns the item.
Reset(u, i) ==
  /\ i \in loans[u] /\ at[u] = "out"
  /\ refcount' = [refcount EXCEPT ![i] = @ - 1] /\ loans' = [loans EXCEPT ![u] = @ \ {i}]
  /\ IF IsLast(i) THEN Move(u, "destruct") /\ item' = [item EXCEPT ![u] = i]
     ELSE UNCHANGED <<at, item>>
  /\ UNCHANGED <<fixed, mutex, returned, items, free, live, left, calls, shares>>
-----------------------------------------------------------------------------
(* Storage::return_()                                                      *)

Destruct(u) ==
  /\ at[u] = "destruct" /\ Move(u, "push")
  /\ live' = IF Reconstruct THEN live \ {item[u]} ELSE live
  /\ UNCHANGED <<fixed, mutex, returned, items, free, refcount, loans, left, item, calls, shares>>

\* With the mutex held; only a BoundedPool notifies, after unlocking.
Push(u) ==
  /\ at[u] = "push" /\ mutex = NoUser
  /\ free' = <<item[u]>> \o free /\ Move(u, IF kind = "Bounded" THEN "notify" ELSE "out")
  /\ UNCHANGED <<fixed, mutex, returned, items, refcount, live, loans, left, item, calls, shares>>

Notify(u) ==
  /\ at[u] = "notify" /\ returned' = NotifyOne(returned) /\ Move(u, "out")
  /\ UNCHANGED <<fixed, mutex, items, free, refcount, live, loans, left, item, calls, shares>>

\* The pool is destructed while nobody is calling it.
DestroyPool ==
  /\ exists.pool /\ \A u \in Users : at[u] \notin {"borrow", "wait"}
  /\ \A u \in Users : calls[u] = MaxCalls
  /\ exists' = [exists EXCEPT !.pool = FALSE]
  /\ UNCHANGED <<kind, policy, mutex, returned, items, free, refcount, live, loans, at, left,
                 item, calls, shares>>

\* ~Storage(), once neither the pool nor a loan owns the storage.
DestroyStorage ==
  /\ exists = [pool |-> FALSE, storage |-> TRUE]
  /\ \A u \in Users : at[u] = "out" /\ loans[u] = {}
  /\ exists' = [exists EXCEPT !.storage = FALSE]
  /\ live' = IF Reconstruct THEN live ELSE live \ 1..items
  /\ UNCHANGED <<kind, policy, mutex, returned, items, free, refcount, loans, at, left, item,
                 calls, shares>>

Step(u) ==
  \/ Borrow(u) \/ WaitForReturn(u) \/ Wake(u) \/ TakeItem(u)
  \/ \E i \in Items : \/ Reset(u, i)
                      \/ \E v \in Users : CopyLoan(u, v, i) \/ MoveLoan(u, v, i)
  \/ Destruct(u) \/ Push(u) \/ Notify(u)

Next == (\E u \in Users : Step(u)) \/ DestroyPool \/ DestroyStorage
Spec == Init /\ [][Next]_vars
-----------------------------------------------------------------------------
(* Properties.                                                             *)

\* Who has a loan of an item, and who is between the last reset() and the push.
Holders(i)   == {u \in Users : i \in loans[u]}
Returning(i) == {u \in Users : at[u] \in {"destruct", "push"} /\ item[u] = i}

\* Every item is in one place: free and once on the chain, or on its way back
\* with one user, or on loan and counted once per Loan.  Its data is constructed
\* whenever somebody can reach it, and destructed in the end (the counting of
\* Loan, borrow() and return_()).
ItemsAccounted ==
  /\ IsInjective(free)
  /\ \A i \in 1..items :
       LET places == Cardinality(Returning(i)) + (IF i \in Range(free) THEN 1 ELSE 0)
       IN  /\ refcount[i] = Cardinality(Holders(i))
           /\ places = IF Holders(i) = {} THEN 1 ELSE 0
           /\ Holders(i) # {} => i \in live /\ exists.storage
           /\ Reconstruct /\ i \in live => i \notin Range(free)
  /\ exists.storage \/ live = {}

\* borrow() blocks only while the pool is empty, or somebody that will run can
\* take the item: "blocking until an item is returned if the pool is empty".
BlocksOnlyWhenEmpty ==
  \A u \in Users : at[u] = "wait" /\ free # <<>> =>
    returned.woken # {} \/ \E v \in Users : at[v] \in {"borrow", "notify"}

\* Every call has returned and every loan has been dropped.
AllReturned == ~exists.storage /\ \A u \in Users : at[u] = "out" /\ loans[u] = {}
=============================================================================
