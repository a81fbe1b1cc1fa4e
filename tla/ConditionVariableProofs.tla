---------------------- MODULE ConditionVariableProofs ----------------------
(***************************************************************************)
(* Proofs about marl::ConditionVariable, for any finite sets of waiting    *)
(* fibers, waiting threads and notifiers: notify_all() misses nobody, and  *)
(* the list and the counters say who waits.                                *)
(***************************************************************************)
EXTENDS ConditionVariable, FiniteSetTheorems, TLAPS

\* Where a waiter holds the user's lock, is counted in numWaiting, is counted in
\* numWaitingOnCondition (a thread) and is on the list (a fiber).
LockedPlaces == {"count", "emplace", "countOnCondition", "test", "erase",
                 "uncountOnCondition", "uncount"}
CountedPlaces == {"emplace", "countOnCondition", "test", "suspended", "relock", "erase",
                  "uncountOnCondition", "uncount"}
ConditionPlaces == {"test", "suspended", "relock", "uncountOnCondition"}
ListPlaces == {"test", "suspended", "relock", "erase"}
Places == LockedPlaces \cup CountedPlaces \cup {"idle", "left", "fastPath", "list", "condition"}

\* The members of S that f puts into P.
Having(S, f, P) == {x \in S : f[x] \in P}

\* Only fibers are put on the list, and only threads counted in numWaitingOnCondition.
TypeOK ==
  /\ at \in [Waiters \cup Notifiers -> Places]
  /\ \A w \in Waiters : at[w] = "emplace" => w \in Fibers
  /\ \A w \in Waiters : at[w] \in {"countOnCondition", "uncountOnCondition"} => w \in Threads
  /\ lock \in Waiters \cup Notifiers \cup {Free} /\ tokens \in Nat
  /\ waiting \in Seq(Fibers) /\ numWaiting \in Int /\ numWaitingOnCondition \in Int
  /\ calls \in [Notifiers -> {"none", "notify_one", "notify_all"}]
  /\ state \in [Fibers -> {"Running", "Queued", "Yielded", "Waiting"}]
  /\ signalled \subseteq Threads /\ expired \subseteq Timed
  /\ result \in [Waiters -> {"none", "true", "false"}]

\* Between taking the user's lock and giving it up a waiter holds it, and one
\* that is about to return true has a token to take.
LockHeld ==
  \A w \in Waiters :
    /\ at[w] \in LockedPlaces => lock = w
    /\ at[w] \in {"erase", "uncountOnCondition", "uncount"} /\ result[w] = "true" => tokens > 0

\* The two counters count exactly the waiters between their ++ and their --.
CountersExact ==
  /\ numWaiting = Cardinality(Having(Waiters, at, CountedPlaces))
  /\ numWaitingOnCondition = Cardinality(Having(Threads, at, ConditionPlaces))

\* The list holds exactly the fibers between emplace_front() and erase(), once.
ListExact ==
  /\ \A i, j \in DOMAIN waiting : waiting[i] = waiting[j] => i = j
  /\ {waiting[i] : i \in DOMAIN waiting} = Having(Fibers, at, ListPlaces)

\* The call of notify_all() of n has not yet reached the waiter w.
StillToNotify(n, w) ==
  /\ All(n)
  /\ at[n] \in {"fastPath", "list"} \/ (w \in Threads /\ at[n] = "condition")

\* A notifier chooses its call when it begins; a blocked waiter that more tokens
\* than calls of notify_one() entitle to return is still ahead of a notify_all().
NotifyAllAhead ==
  /\ \A n \in Notifiers : at[n] = "idle" => calls[n] = "none"
  /\ \A w \in Waiters : Parked(w) /\ tokens > Cardinality(OneCalls) =>
       \E n \in Notifiers : StillToNotify(n, w)

CVInv == TypeOK /\ LockHeld /\ CountersExact /\ ListExact /\ NotifyAllAhead
-----------------------------------------------------------------------------
(* Moving one waiter or notifier, and who is then at certain places.       *)

\* Who is in P does not change when a moves inside P, outside P, or is not asked.
LEMMA HavingSame ==
  ASSUME TypeOK, NEW S \in SUBSET Waiters, NEW P, NEW a \in Waiters \cup Notifiers, NEW p,
         at' = [at EXCEPT ![a] = p], a \in S => (at[a] \in P <=> p \in P)
  PROVE  Having(S, at', P) = Having(S, at, P)
BY DEF Having, TypeOK

\* When a moves into P there is one more in P.
LEMMA HavingEnter ==
  ASSUME TypeOK, NEW S \in SUBSET Waiters, NEW P, NEW a \in S, NEW p,
         at' = [at EXCEPT ![a] = p], at[a] \notin P, p \in P
  PROVE  /\ Having(S, at', P) = Having(S, at, P) \cup {a}
         /\ Cardinality(Having(S, at', P)) = Cardinality(Having(S, at, P)) + 1
<1>1. Having(S, at', P) = Having(S, at, P) \cup {a}
  BY DEF Having, TypeOK
<1>2. a \notin Having(S, at, P) /\ Having(S, at, P) \subseteq Waiters
  BY DEF Having
<1>3. IsFiniteSet(Having(S, at, P))
  BY <1>2, FS_Subset, CVAssumption
<1> QED
  BY ZenonT(60), <1>1, <1>2, <1>3, FS_AddElement

\* When a moves out of P there is one less in P.
LEMMA HavingLeave ==
  ASSUME TypeOK, NEW S \in SUBSET Waiters, NEW P, NEW a \in S, NEW p,
         at' = [at EXCEPT ![a] = p], at[a] \in P, p \notin P
  PROVE  /\ Having(S, at', P) = Having(S, at, P) \ {a}
         /\ Cardinality(Having(S, at', P)) = Cardinality(Having(S, at, P)) - 1
<1>1. Having(S, at', P) = Having(S, at, P) \ {a}
  BY DEF Having, TypeOK
<1>2. a \in Having(S, at, P) /\ Having(S, at, P) \subseteq Waiters
  BY DEF Having
<1>3. IsFiniteSet(Having(S, at, P))
  BY <1>2, FS_Subset, CVAssumption
<1> QED
  BY ZenonT(60), <1>1, <1>2, <1>3, FS_RemoveElement

-----------------------------------------------------------------------------
(* The invariant is inductive.                                             *)

\* Nobody waits and nobody notifies in the initial states.
LEMMA InitCVInv == Init => CVInv
<1> SUFFICES ASSUME Init PROVE CVInv
  OBVIOUS
<1> USE DEF Init
<1>1. TypeOK
  BY CVAssumption DEF TypeOK, Places, Waiters
<1>2. LockHeld
  BY DEF LockHeld, LockedPlaces
<1>3. CountersExact
  <2>1. Having(Waiters, at, CountedPlaces) = {} /\ Having(Threads, at, ConditionPlaces) = {}
    BY DEF Having, CountedPlaces, ConditionPlaces, Waiters
  <2> QED
    BY Zenon, <2>1, FS_EmptySet DEF CountersExact
<1>4. ListExact
  BY DEF ListExact, Having, ListPlaces, Waiters
<1>5. NotifyAllAhead
  BY DEF NotifyAllAhead, Parked
<1> QED
  BY <1>1, <1>2, <1>3, <1>4, <1>5 DEF CVInv

\* Every step keeps the types; a wait that returns true takes a token that is there.
LEMMA NextTypeOK ==
  ASSUME TypeOK, LockHeld, [Next]_vars
  PROVE  TypeOK'
<1> USE CVAssumption
<1>1. ASSUME NEW w \in Waiters, BeginWait(w) PROVE TypeOK'
  BY <1>1 DEF BeginWait, Leave, Pred, Move, TypeOK, Places, LockedPlaces,
       CountedPlaces, Waiters
<1>2. ASSUME NEW w \in Waiters, Count(w) PROVE TypeOK'
  BY <1>2 DEF Count, Move, TypeOK, Places, LockedPlaces,
       CountedPlaces, Waiters
<1>3. ASSUME NEW w \in Waiters, CountOnCondition(w) PROVE TypeOK'
  BY <1>3 DEF CountOnCondition, Move, TypeOK, Places, LockedPlaces,
       CountedPlaces, Waiters
<1>4. ASSUME NEW w \in Waiters, Emplace(w) PROVE TypeOK'
  BY <1>4 DEF Emplace, Move, TypeOK, Places, LockedPlaces,
       CountedPlaces, Waiters
<1>5. ASSUME NEW w \in Waiters, Suspend(w) PROVE TypeOK'
  BY <1>5 DEF Suspend, Pred, Move, TypeOK, Places, LockedPlaces,
       CountedPlaces, Waiters
<1>6. ASSUME NEW w \in Waiters, Block(w) PROVE TypeOK'
  BY <1>6 DEF Block, Pred, Move, TypeOK, Places, LockedPlaces,
       CountedPlaces, Waiters
<1>7. ASSUME NEW w \in Waiters, TimeOut(w) PROVE TypeOK'
  BY <1>7 DEF TimeOut, TypeOK, Places, LockedPlaces,
       CountedPlaces, Waiters
<1>8. ASSUME NEW w \in Waiters, Resume(w) PROVE TypeOK'
  BY <1>8 DEF Resume, Move, TypeOK, Places, LockedPlaces,
       CountedPlaces, Waiters
<1>9. ASSUME NEW w \in Waiters, Unblock(w) PROVE TypeOK'
  BY <1>9 DEF Unblock, Move, TypeOK, Places, LockedPlaces,
       CountedPlaces, Waiters
<1>10. ASSUME NEW w \in Waiters, RelockFiber(w) PROVE TypeOK'
  BY <1>10 DEF RelockFiber, EndOfLoop, Move, TypeOK, Places, LockedPlaces,
       CountedPlaces, Waiters
<1>11. ASSUME NEW w \in Waiters, RelockThread(w) PROVE TypeOK'
  BY <1>11 DEF RelockThread, Pred, EndOfLoop, Move, TypeOK, Places, LockedPlaces,
       CountedPlaces, Waiters
<1>12. ASSUME NEW w \in Waiters, Succeed(w) PROVE TypeOK'
  BY <1>12 DEF Succeed, Pred, EndOfLoop, Move, TypeOK, Places, LockedPlaces,
       CountedPlaces, Waiters
<1>13. ASSUME NEW w \in Waiters, EraseFiber(w) PROVE TypeOK'
  <2>1. waiting' \in Seq(Fibers)
    BY <1>13 DEF EraseFiber, Without, TypeOK
  <2> QED
    BY <1>13, <2>1 DEF EraseFiber, Move, TypeOK, Places, LockedPlaces,
       CountedPlaces, Waiters
<1>14. ASSUME NEW w \in Waiters, UncountOnCondition(w) PROVE TypeOK'
  BY <1>14 DEF UncountOnCondition, Move, TypeOK, Places, LockedPlaces,
       CountedPlaces, Waiters
<1>15. ASSUME NEW w \in Waiters, EndWait(w) PROVE TypeOK'
  <2>1. result[w] = "true" => tokens > 0
    BY <1>15 DEF EndWait, LockHeld
  <2> QED
    BY <1>15, <2>1 DEF EndWait, Leave, Move, TypeOK, Places, LockedPlaces,
       CountedPlaces, Waiters
<1>16. ASSUME NEW w \in Waiters, Expire(w) PROVE TypeOK'
  BY <1>16 DEF Expire, TypeOK, Places, LockedPlaces,
       CountedPlaces, Waiters
<1>17. ASSUME NEW n \in Notifiers, NEW call \in {"notify_one", "notify_all"}, AddToken(n, call)
      PROVE TypeOK'
  BY <1>17 DEF AddToken, Move, TypeOK, Places, LockedPlaces,
       CountedPlaces, Waiters
<1>18. ASSUME NEW n \in Notifiers, UnlockFirst(n) PROVE TypeOK'
  BY <1>18 DEF UnlockFirst, TypeOK, Places, LockedPlaces,
       CountedPlaces, Waiters
<1>19. ASSUME NEW n \in Notifiers, FastPath(n) PROVE TypeOK'
  BY <1>19 DEF FastPath, Return, Move, TypeOK, Places, LockedPlaces,
       CountedPlaces, Waiters
<1>20. ASSUME NEW n \in Notifiers, NotifyFibers(n) PROVE TypeOK'
  <2>1. state' \in [Fibers -> {"Running", "Queued", "Yielded", "Waiting"}]
    BY <1>20 DEF NotifyFibers, Notified, TypeOK
  <2> QED
    BY <1>20, <2>1 DEF NotifyFibers, Return, Move, TypeOK, Places, LockedPlaces,
       CountedPlaces, Waiters
<1>21. ASSUME NEW n \in Notifiers, NotifyThreads(n) PROVE TypeOK'
  BY <1>21 DEF NotifyThreads, Return, Blocked, Move, TypeOK, Places, LockedPlaces,
       CountedPlaces, Waiters
<1>22. CASE UNCHANGED vars
  BY <1>22 DEF vars, TypeOK
<1> QED
  BY Zenon, <1>1, <1>2, <1>3, <1>4, <1>5, <1>6, <1>7, <1>8,
     <1>9, <1>10, <1>11, <1>12, <1>13, <1>14, <1>15,
     <1>16, <1>17, <1>18, <1>19, <1>20, <1>21, <1>22
     DEF Next, WaitStep, NotifyStep, Quiet

\* Every step keeps the waiters that use the condition holding the user's lock.
LEMMA NextLockHeld ==
  ASSUME TypeOK, LockHeld, [Next]_vars
  PROVE  LockHeld'
<1>0. /\ at \in [Waiters \cup Notifiers -> Places] /\ tokens \in Nat
      /\ result \in [Waiters -> {"none", "true", "false"}]
  BY DEF TypeOK
<1> USE CVAssumption, <1>0
<1>1. ASSUME NEW w \in Waiters, BeginWait(w) PROVE LockHeld'
  BY <1>1 DEF BeginWait, Leave, Pred, Move, LockHeld, LockedPlaces
<1>2. ASSUME NEW w \in Waiters, Count(w) PROVE LockHeld'
  BY <1>2 DEF Count, Move, LockHeld, LockedPlaces
<1>3. ASSUME NEW w \in Waiters, CountOnCondition(w) PROVE LockHeld'
  BY <1>3 DEF CountOnCondition, Move, LockHeld, LockedPlaces
<1>4. ASSUME NEW w \in Waiters, Emplace(w) PROVE LockHeld'
  BY <1>4 DEF Emplace, Move, LockHeld, LockedPlaces
<1>5. ASSUME NEW w \in Waiters, Suspend(w) PROVE LockHeld'
  BY <1>5 DEF Suspend, Pred, Move, LockHeld, LockedPlaces
<1>6. ASSUME NEW w \in Waiters, Block(w) PROVE LockHeld'
  BY <1>6 DEF Block, Pred, Move, LockHeld, LockedPlaces
<1>7. ASSUME NEW w \in Waiters, TimeOut(w) PROVE LockHeld'
  BY <1>7 DEF TimeOut, LockHeld, LockedPlaces
<1>8. ASSUME NEW w \in Waiters, Resume(w) PROVE LockHeld'
  BY <1>8 DEF Resume, Move, LockHeld, LockedPlaces
<1>9. ASSUME NEW w \in Waiters, Unblock(w) PROVE LockHeld'
  BY <1>9 DEF Unblock, Move, LockHeld, LockedPlaces
<1>10. ASSUME NEW w \in Waiters, RelockFiber(w) PROVE LockHeld'
  BY <1>10 DEF RelockFiber, EndOfLoop, Move, LockHeld, LockedPlaces
<1>11. ASSUME NEW w \in Waiters, RelockThread(w) PROVE LockHeld'
  BY <1>11 DEF RelockThread, Pred, EndOfLoop, Move, LockHeld, LockedPlaces
<1>12. ASSUME NEW w \in Waiters, Succeed(w) PROVE LockHeld'
  BY <1>12 DEF Succeed, Pred, EndOfLoop, Move, LockHeld, LockedPlaces
<1>13. ASSUME NEW w \in Waiters, EraseFiber(w) PROVE LockHeld'
  BY <1>13 DEF EraseFiber, Move, LockHeld, LockedPlaces
<1>14. ASSUME NEW w \in Waiters, UncountOnCondition(w) PROVE LockHeld'
  BY <1>14 DEF UncountOnCondition, Move, LockHeld, LockedPlaces
<1>15. ASSUME NEW w \in Waiters, EndWait(w) PROVE LockHeld'
  BY <1>15 DEF EndWait, Leave, Move, LockHeld, LockedPlaces
<1>16. ASSUME NEW w \in Waiters, Expire(w) PROVE LockHeld'
  BY <1>16 DEF Expire, LockHeld, LockedPlaces
<1>17. ASSUME NEW n \in Notifiers, NEW call \in {"notify_one", "notify_all"}, AddToken(n, call)
      PROVE LockHeld'
  BY <1>17 DEF AddToken, Move, LockHeld, LockedPlaces
<1>18. ASSUME NEW n \in Notifiers, UnlockFirst(n) PROVE LockHeld'
  BY <1>18 DEF UnlockFirst, LockHeld, LockedPlaces
<1>19. ASSUME NEW n \in Notifiers, FastPath(n) PROVE LockHeld'
  BY <1>19 DEF FastPath, Return, Move, LockHeld, LockedPlaces
<1>20. ASSUME NEW n \in Notifiers, NotifyFibers(n) PROVE LockHeld'
  BY <1>20 DEF NotifyFibers, Return, Move, LockHeld, LockedPlaces
<1>21. ASSUME NEW n \in Notifiers, NotifyThreads(n) PROVE LockHeld'
  BY <1>21 DEF NotifyThreads, Return, Blocked, Move, LockHeld, LockedPlaces
<1>22. CASE UNCHANGED vars
  BY <1>22 DEF vars, LockHeld
<1> QED
  BY Zenon, <1>1, <1>2, <1>3, <1>4, <1>5, <1>6, <1>7, <1>8,
     <1>9, <1>10, <1>11, <1>12, <1>13, <1>14, <1>15,
     <1>16, <1>17, <1>18, <1>19, <1>20, <1>21, <1>22
     DEF Next, WaitStep, NotifyStep, Quiet

\* The counters stay right when they are left alone and nobody enters or leaves
\* the places they count.
LEMMA CountersSame ==
  ASSUME TypeOK, CountersExact, NEW a \in Waiters \cup Notifiers, NEW p,
         at' = [at EXCEPT ![a] = p], numWaiting' = numWaiting,
         numWaitingOnCondition' = numWaitingOnCondition,
         a \in Waiters => (at[a] \in CountedPlaces <=> p \in CountedPlaces),
         a \in Threads => (at[a] \in ConditionPlaces <=> p \in ConditionPlaces)
  PROVE  CountersExact'
<1>1. at \in [Waiters \cup Notifiers -> Places] /\ Threads \subseteq Waiters
  BY DEF TypeOK, Waiters
<1>2. Having(Waiters, at', CountedPlaces) = Having(Waiters, at, CountedPlaces)
  BY Zenon, <1>1, HavingSame
<1>3. Having(Threads, at', ConditionPlaces) = Having(Threads, at, ConditionPlaces)
  BY Zenon, <1>1, HavingSame
<1> QED
  BY <1>2, <1>3 DEF CountersExact

\* Every step keeps the counters equal to the numbers of waiters they count.
LEMMA NextCountersExact ==
  ASSUME TypeOK, CountersExact, [Next]_vars
  PROVE  CountersExact'
<1>0. /\ at \in [Waiters \cup Notifiers -> Places] /\ Threads \subseteq Waiters
      /\ IsFiniteSet(Waiters) /\ IsFiniteSet(Threads) /\ Waiters \cap Notifiers = {}
      /\ Fibers \cap Threads = {}
  BY CVAssumption, FS_Subset DEF TypeOK, Waiters
<1> USE CVAssumption
<1>1. ASSUME NEW w \in Waiters, BeginWait(w) PROVE CountersExact'
  <2>1. /\ at[w] = "idle" /\ \E p \in {"left", "count"} : at' = [at EXCEPT ![w] = p]
        /\ UNCHANGED <<numWaiting, numWaitingOnCondition>>
    BY <1>1 DEF BeginWait, Leave, Move
  <2> QED
    BY Zenon, <2>1, CountersSame DEF CountedPlaces, ConditionPlaces
<1>2. ASSUME NEW w \in Waiters, Count(w) PROVE CountersExact'
  <2>1. /\ at[w] = "count" /\ at' = [at EXCEPT ![w] = IF w \in Fibers THEN "emplace" ELSE "countOnCondition"]
        /\ numWaiting' = numWaiting + 1 /\ numWaitingOnCondition' = numWaitingOnCondition
    BY <1>2 DEF Count, Move
  <2>2. Cardinality(Having(Waiters, at', CountedPlaces)) = Cardinality(Having(Waiters, at, CountedPlaces)) + 1
    BY Zenon, <1>0, <2>1, HavingEnter DEF CountedPlaces, ConditionPlaces
  <2>3. Having(Threads, at', ConditionPlaces) = Having(Threads, at, ConditionPlaces)
    BY Zenon, <1>0, <2>1, HavingSame DEF CountedPlaces, ConditionPlaces
  <2> QED
    BY <2>1, <2>2, <2>3 DEF CountersExact
<1>3. ASSUME NEW w \in Waiters, CountOnCondition(w) PROVE CountersExact'
  <2>1. /\ at[w] = "countOnCondition" /\ at' = [at EXCEPT ![w] = "test"] /\ w \in Threads
        /\ numWaitingOnCondition' = numWaitingOnCondition + 1 /\ numWaiting' = numWaiting
    BY <1>3 DEF CountOnCondition, Move, TypeOK
  <2>2. Having(Waiters, at', CountedPlaces) = Having(Waiters, at, CountedPlaces)
    BY Zenon, <1>0, <2>1, HavingSame DEF CountedPlaces, ConditionPlaces
  <2>3. Cardinality(Having(Threads, at', ConditionPlaces)) = Cardinality(Having(Threads, at, ConditionPlaces)) + 1
    BY Zenon, <1>0, <2>1, HavingEnter DEF CountedPlaces, ConditionPlaces
  <2> QED
    BY <2>1, <2>2, <2>3 DEF CountersExact
<1>4. ASSUME NEW w \in Waiters, Emplace(w) PROVE CountersExact'
  <2>1. /\ at[w] = "emplace" /\ at' = [at EXCEPT ![w] = "test"] /\ w \notin Threads
        /\ UNCHANGED <<numWaiting, numWaitingOnCondition>>
    BY <1>4 DEF Emplace, Move, TypeOK
  <2> QED
    BY Zenon, <2>1, CountersSame DEF CountedPlaces, ConditionPlaces
<1>5. ASSUME NEW w \in Waiters, Suspend(w) PROVE CountersExact'
  <2>1. /\ at[w] = "test" /\ at' = [at EXCEPT ![w] = "suspended"]
        /\ UNCHANGED <<numWaiting, numWaitingOnCondition>>
    BY <1>5 DEF Suspend, Pred, Move
  <2> QED
    BY Zenon, <2>1, CountersSame DEF CountedPlaces, ConditionPlaces
<1>6. ASSUME NEW w \in Waiters, Block(w) PROVE CountersExact'
  <2>1. /\ at[w] = "test" /\ at' = [at EXCEPT ![w] = "suspended"]
        /\ UNCHANGED <<numWaiting, numWaitingOnCondition>>
    BY <1>6 DEF Block, Pred, Move
  <2> QED
    BY Zenon, <2>1, CountersSame DEF CountedPlaces, ConditionPlaces
<1>7. ASSUME NEW w \in Waiters, TimeOut(w) PROVE CountersExact'
  BY <1>7 DEF TimeOut, CountersExact
<1>8. ASSUME NEW w \in Waiters, Resume(w) PROVE CountersExact'
  <2>1. /\ at[w] = "suspended" /\ at' = [at EXCEPT ![w] = "relock"]
        /\ UNCHANGED <<numWaiting, numWaitingOnCondition>>
    BY <1>8 DEF Resume, Move
  <2> QED
    BY Zenon, <2>1, CountersSame DEF CountedPlaces, ConditionPlaces
<1>9. ASSUME NEW w \in Waiters, Unblock(w) PROVE CountersExact'
  <2>1. /\ at[w] = "suspended" /\ at' = [at EXCEPT ![w] = "relock"]
        /\ UNCHANGED <<numWaiting, numWaitingOnCondition>>
    BY <1>9 DEF Unblock, Move
  <2> QED
    BY Zenon, <2>1, CountersSame DEF CountedPlaces, ConditionPlaces
<1>10. ASSUME NEW w \in Waiters, RelockFiber(w) PROVE CountersExact'
  <2>1. /\ at[w] = "relock" /\ \E p \in {"test", EndOfLoop(w)} : at' = [at EXCEPT ![w] = p]
        /\ UNCHANGED <<numWaiting, numWaitingOnCondition>>
    BY <1>10 DEF RelockFiber, Move
  <2>2. EndOfLoop(w) \in CountedPlaces /\ (w \in Threads => EndOfLoop(w) \in ConditionPlaces)
    BY DEF EndOfLoop, CountedPlaces, ConditionPlaces
  <2> QED
    BY Zenon, <2>1, <2>2, CountersSame DEF CountedPlaces, ConditionPlaces
<1>11. ASSUME NEW w \in Waiters, RelockThread(w) PROVE CountersExact'
  <2>1. /\ at[w] = "relock" /\ \E p \in {"test", EndOfLoop(w)} : at' = [at EXCEPT ![w] = p]
        /\ UNCHANGED <<numWaiting, numWaitingOnCondition>>
    BY <1>11 DEF RelockThread, Move
  <2>2. EndOfLoop(w) \in CountedPlaces /\ (w \in Threads => EndOfLoop(w) \in ConditionPlaces)
    BY DEF EndOfLoop, CountedPlaces, ConditionPlaces
  <2> QED
    BY Zenon, <2>1, <2>2, CountersSame DEF CountedPlaces, ConditionPlaces
<1>12. ASSUME NEW w \in Waiters, Succeed(w) PROVE CountersExact'
  <2>1. /\ at[w] = "test" /\ at' = [at EXCEPT ![w] = EndOfLoop(w)]
        /\ UNCHANGED <<numWaiting, numWaitingOnCondition>>
    BY <1>12 DEF Succeed, Move
  <2>2. EndOfLoop(w) \in CountedPlaces /\ (w \in Threads => EndOfLoop(w) \in ConditionPlaces)
    BY DEF EndOfLoop, CountedPlaces, ConditionPlaces
  <2> QED
    BY Zenon, <2>1, <2>2, CountersSame DEF CountedPlaces, ConditionPlaces
<1>13. ASSUME NEW w \in Waiters, EraseFiber(w) PROVE CountersExact'
  <2>1. /\ at[w] = "erase" /\ at' = [at EXCEPT ![w] = "uncount"]
        /\ UNCHANGED <<numWaiting, numWaitingOnCondition>>
    BY <1>13 DEF EraseFiber, Move
  <2> QED
    BY Zenon, <2>1, CountersSame DEF CountedPlaces, ConditionPlaces
<1>14. ASSUME NEW w \in Waiters, UncountOnCondition(w) PROVE CountersExact'
  <2>1. /\ at[w] = "uncountOnCondition" /\ at' = [at EXCEPT ![w] = "uncount"] /\ w \in Threads
        /\ numWaitingOnCondition' = numWaitingOnCondition - 1 /\ numWaiting' = numWaiting
    BY <1>14 DEF UncountOnCondition, Move, TypeOK
  <2>2. Having(Waiters, at', CountedPlaces) = Having(Waiters, at, CountedPlaces)
    BY Zenon, <1>0, <2>1, HavingSame DEF CountedPlaces, ConditionPlaces
  <2>3. Cardinality(Having(Threads, at', ConditionPlaces)) = Cardinality(Having(Threads, at, ConditionPlaces)) - 1
    BY Zenon, <1>0, <2>1, HavingLeave DEF CountedPlaces, ConditionPlaces
  <2> QED
    BY <2>1, <2>2, <2>3 DEF CountersExact
<1>15. ASSUME NEW w \in Waiters, EndWait(w) PROVE CountersExact'
  <2>1. /\ at[w] = "uncount" /\ at' = [at EXCEPT ![w] = "left"]
        /\ numWaiting' = numWaiting - 1 /\ numWaitingOnCondition' = numWaitingOnCondition
    BY <1>15 DEF EndWait, Leave, Move
  <2>2. Cardinality(Having(Waiters, at', CountedPlaces)) = Cardinality(Having(Waiters, at, CountedPlaces)) - 1
    BY Zenon, <1>0, <2>1, HavingLeave DEF CountedPlaces, ConditionPlaces
  <2>3. Having(Threads, at', ConditionPlaces) = Having(Threads, at, ConditionPlaces)
    BY Zenon, <1>0, <2>1, HavingSame DEF CountedPlaces, ConditionPlaces
  <2> QED
    BY <2>1, <2>2, <2>3 DEF CountersExact
<1>16. ASSUME NEW w \in Waiters, Expire(w) PROVE CountersExact'
  BY <1>16 DEF Expire, CountersExact
<1>17. ASSUME NEW n \in Notifiers, NEW call \in {"notify_one", "notify_all"}, AddToken(n, call)
      PROVE CountersExact'
  <2>1. /\ \E p \in {"fastPath"} : at' = [at EXCEPT ![n] = p]
        /\ UNCHANGED <<numWaiting, numWaitingOnCondition>>
    BY <1>17 DEF AddToken, Move
  <2> QED
    BY Zenon, <1>0, <2>1, CountersSame
<1>18. ASSUME NEW n \in Notifiers, UnlockFirst(n) PROVE CountersExact'
  BY <1>18 DEF UnlockFirst, CountersExact
<1>19. ASSUME NEW n \in Notifiers, FastPath(n) PROVE CountersExact'
  <2>1. /\ \E p \in {"left", "list"} : at' = [at EXCEPT ![n] = p]
        /\ UNCHANGED <<numWaiting, numWaitingOnCondition>>
    BY <1>19 DEF FastPath, Return, Move
  <2> QED
    BY Zenon, <1>0, <2>1, CountersSame
<1>20. ASSUME NEW n \in Notifiers, NotifyFibers(n) PROVE CountersExact'
  <2>1. /\ \E p \in {"left", "condition"} : at' = [at EXCEPT ![n] = p]
        /\ UNCHANGED <<numWaiting, numWaitingOnCondition>>
    BY <1>20 DEF NotifyFibers, Return, Move
  <2> QED
    BY Zenon, <1>0, <2>1, CountersSame
<1>21. ASSUME NEW n \in Notifiers, NotifyThreads(n) PROVE CountersExact'
  <2>1. /\ \E p \in {"left"} : at' = [at EXCEPT ![n] = p]
        /\ UNCHANGED <<numWaiting, numWaitingOnCondition>>
    BY <1>21 DEF NotifyThreads, Return, Move
  <2> QED
    BY Zenon, <1>0, <2>1, CountersSame
<1>22. CASE UNCHANGED vars
  BY <1>22 DEF vars, CountersExact
<1> QED
  BY Zenon, <1>1, <1>2, <1>3, <1>4, <1>5, <1>6, <1>7, <1>8,
     <1>9, <1>10, <1>11, <1>12, <1>13, <1>14, <1>15,
     <1>16, <1>17, <1>18, <1>19, <1>20, <1>21, <1>22
     DEF Next, WaitStep, NotifyStep, Quiet

\* The list stays right when it is left alone and no fiber enters or leaves the
\* places of listed fibers.
LEMMA ListSame ==
  ASSUME TypeOK, ListExact, NEW a \in Waiters \cup Notifiers, NEW p,
         at' = [at EXCEPT ![a] = p], waiting' = waiting,
         a \in Fibers => (at[a] \in ListPlaces <=> p \in ListPlaces)
  PROVE  ListExact'
<1>1. Fibers \in SUBSET Waiters
  BY DEF Waiters
<1>2. Having(Fibers, at', ListPlaces) = Having(Fibers, at, ListPlaces)
  BY Zenon, <1>1, HavingSame
<1> QED
  BY <1>2 DEF ListExact

\* emplace_front() adds one fiber to the list.
LEMMA EmplaceFront ==
  ASSUME TypeOK, NEW f \in Fibers, f \notin {waiting[i] : i \in DOMAIN waiting},
         \A i, j \in DOMAIN waiting : waiting[i] = waiting[j] => i = j,
         waiting' = <<f>> \o waiting
  PROVE  /\ \A i, j \in DOMAIN waiting' : waiting'[i] = waiting'[j] => i = j
         /\ {waiting'[i] : i \in DOMAIN waiting'} = {waiting[i] : i \in DOMAIN waiting} \cup {f}
<1> DEFINE r == waiting'
<1>1. /\ DOMAIN waiting = 1 .. Len(waiting) /\ Len(waiting) \in Nat
      /\ DOMAIN r = 1 .. Len(waiting) + 1 /\ r[1] = f
      /\ \A i \in 2 .. Len(waiting) + 1 : r[i] = waiting[i - 1]
  <2>1. waiting \in Seq(Fibers) /\ <<f>> \in Seq(Fibers) /\ Len(<<f>>) = 1
    BY DEF TypeOK
  <2> QED
    BY <2>1
<1> HIDE DEF r
<1>2. ASSUME NEW i \in DOMAIN r, i # 1
      PROVE  i - 1 \in DOMAIN waiting /\ r[i] = waiting[i - 1]
  <2>1. i \in 2 .. Len(waiting) + 1 /\ i - 1 \in 1 .. Len(waiting)
    BY <1>1, <1>2
  <2> QED
    BY <1>1, <2>1
<1>3. \A i \in DOMAIN waiting : waiting[i] # f
  BY ONLY f \notin {waiting[i] : i \in DOMAIN waiting}
<1>4. \A i \in DOMAIN waiting : i + 1 \in DOMAIN r /\ r[i + 1] = waiting[i]
  BY <1>1
<1>5. 1 \in DOMAIN r /\ r[1] = f
  BY <1>1
<1>6. \A i, j \in DOMAIN r : r[i] = r[j] => i = j
  BY ONLY <1>1, <1>2, <1>3, \A i, j \in DOMAIN waiting : waiting[i] = waiting[j] => i = j
<1>7. \A i \in DOMAIN r : r[i] \in {waiting[j] : j \in DOMAIN waiting} \cup {f}
  BY <1>2, <1>5
<1>8. \A x \in {waiting[j] : j \in DOMAIN waiting} \cup {f} : x \in {r[i] : i \in DOMAIN r}
  BY <1>4, <1>5
<1>9. {r[i] : i \in DOMAIN r} = {waiting[i] : i \in DOMAIN waiting} \cup {f}
  BY Zenon, <1>7, <1>8
<1> QED
  BY Zenon, <1>6, <1>9 DEF r

\* erase(it) takes the fiber at `it' off the list, and no other.
LEMMA EraseAt ==
  ASSUME TypeOK, NEW it \in DOMAIN waiting, NEW r, r = Without(it),
         \A i, j \in DOMAIN waiting : waiting[i] = waiting[j] => i = j
  PROVE  /\ \A i, j \in DOMAIN r : r[i] = r[j] => i = j
         /\ {r[i] : i \in DOMAIN r} = {waiting[i] : i \in DOMAIN waiting} \ {waiting[it]}
<1>1. /\ waiting \in Seq(Fibers) /\ DOMAIN waiting = 1 .. Len(waiting) /\ Len(waiting) \in Nat
  BY DEF TypeOK
<1>2. /\ DOMAIN r = 1 .. Len(waiting) - 1
      /\ \A i \in DOMAIN r : r[i] = waiting[IF i < it THEN i ELSE i + 1]
  BY <1>1 DEF Without
<1>3. \A i, j \in DOMAIN r : r[i] = r[j] => i = j
  BY ONLY <1>1, <1>2, it \in DOMAIN waiting,
          \A i, j \in DOMAIN waiting : waiting[i] = waiting[j] => i = j
<1>4. ASSUME NEW i \in DOMAIN r
      PROVE  r[i] \in {waiting[k] : k \in DOMAIN waiting} \ {waiting[it]}
  <2>1. CASE i < it
    BY <1>1, <1>2, <2>1
  <2>2. CASE ~(i < it)
    BY <1>1, <1>2, <2>2
  <2> QED
    BY <2>1, <2>2
<1>5. ASSUME NEW k \in DOMAIN waiting, waiting[k] # waiting[it]
      PROVE  waiting[k] \in {r[i] : i \in DOMAIN r}
  <2>1. CASE k < it
    <3>1. k \in DOMAIN r /\ r[k] = waiting[k]
      BY <1>1, <1>2, <2>1
    <3> QED
      BY <3>1
  <2>2. CASE it < k
    <3>1. k - 1 \in DOMAIN r /\ r[k - 1] = waiting[k]
      BY <1>1, <1>2, <2>2
    <3> QED
      BY <3>1
  <2> QED
    BY <1>1, <1>5, <2>1, <2>2
<1> QED
  BY <1>3, <1>4, <1>5

\* Every step keeps the list equal to the set of fibers that it should hold.
LEMMA NextListExact ==
  ASSUME TypeOK, ListExact, [Next]_vars
  PROVE  ListExact'
<1>0. /\ at \in [Waiters \cup Notifiers -> Places] /\ Fibers \in SUBSET Waiters
      /\ Waiters \cap Notifiers = {} /\ Fibers \cap Threads = {}
  BY CVAssumption DEF TypeOK, Waiters
<1> USE CVAssumption
<1>1. ASSUME NEW w \in Waiters, BeginWait(w) PROVE ListExact'
  <2>1. at[w] = "idle" /\ \E p \in {"left", "count"} : at' = [at EXCEPT ![w] = p] /\ waiting' = waiting
    BY <1>1 DEF BeginWait, Leave, Move
  <2> QED
    BY Zenon, <1>0, <2>1, ListSame DEF ListPlaces
<1>2. ASSUME NEW w \in Waiters, Count(w) PROVE ListExact'
  <2>1. at[w] = "count" /\ \E p \in {"emplace", "countOnCondition"} : at' = [at EXCEPT ![w] = p] /\ waiting' = waiting
    BY Zenon, <1>2 DEF Count, Move
  <2> QED
    BY Zenon, <1>0, <2>1, ListSame DEF ListPlaces
<1>3. ASSUME NEW w \in Waiters, CountOnCondition(w) PROVE ListExact'
  <2>1. at[w] = "countOnCondition" /\ at' = [at EXCEPT ![w] = "test"] /\ w \notin Fibers /\ waiting' = waiting
    BY <1>3 DEF CountOnCondition, Move, TypeOK
  <2> QED
    BY Zenon, <1>0, <2>1, ListSame DEF ListPlaces
<1>4. ASSUME NEW w \in Waiters, Emplace(w) PROVE ListExact'
  <2>1. /\ at[w] = "emplace" /\ at' = [at EXCEPT ![w] = "test"] /\ w \in Fibers
        /\ waiting' = <<w>> \o waiting
    BY <1>4 DEF Emplace, Move, TypeOK
  <2>2. Having(Fibers, at', ListPlaces) = Having(Fibers, at, ListPlaces) \cup {w}
    BY <1>0, <2>1 DEF Having, ListPlaces
  <2>3. w \notin {waiting[i] : i \in DOMAIN waiting}
    BY <2>1 DEF ListExact, Having, ListPlaces
  <2>4. waiting \in Seq(Fibers) /\ \A i, j \in DOMAIN waiting : waiting[i] = waiting[j] => i = j
    BY DEF TypeOK, ListExact
  <2>5. /\ \A i, j \in DOMAIN waiting' : waiting'[i] = waiting'[j] => i = j
        /\ {waiting'[i] : i \in DOMAIN waiting'} = {waiting[i] : i \in DOMAIN waiting} \cup {w}
    BY Zenon, <2>1, <2>3, <2>4, EmplaceFront
  <2> QED
    BY <2>2, <2>5 DEF ListExact
<1>5. ASSUME NEW w \in Waiters, Suspend(w) PROVE ListExact'
  <2>1. at[w] = "test" /\ at' = [at EXCEPT ![w] = "suspended"] /\ waiting' = waiting
    BY <1>5 DEF Suspend, Pred, Move
  <2> QED
    BY Zenon, <1>0, <2>1, ListSame DEF ListPlaces
<1>6. ASSUME NEW w \in Waiters, Block(w) PROVE ListExact'
  <2>1. at[w] = "test" /\ at' = [at EXCEPT ![w] = "suspended"] /\ waiting' = waiting
    BY <1>6 DEF Block, Pred, Move
  <2> QED
    BY Zenon, <1>0, <2>1, ListSame DEF ListPlaces
<1>7. ASSUME NEW w \in Waiters, TimeOut(w) PROVE ListExact'
  BY <1>7 DEF TimeOut, ListExact
<1>8. ASSUME NEW w \in Waiters, Resume(w) PROVE ListExact'
  <2>1. at[w] = "suspended" /\ at' = [at EXCEPT ![w] = "relock"] /\ waiting' = waiting
    BY <1>8 DEF Resume, Move
  <2> QED
    BY Zenon, <1>0, <2>1, ListSame DEF ListPlaces
<1>9. ASSUME NEW w \in Waiters, Unblock(w) PROVE ListExact'
  <2>1. at[w] = "suspended" /\ at' = [at EXCEPT ![w] = "relock"] /\ waiting' = waiting
    BY <1>9 DEF Unblock, Move
  <2> QED
    BY Zenon, <1>0, <2>1, ListSame DEF ListPlaces
<1>10. ASSUME NEW w \in Waiters, RelockFiber(w) PROVE ListExact'
  <2>1. at[w] = "relock" /\ \E p \in {"test", EndOfLoop(w)} : at' = [at EXCEPT ![w] = p]
    BY <1>10 DEF RelockFiber, Move
  <2>2. waiting' = waiting /\ (w \in Fibers => EndOfLoop(w) = "erase")
    BY <1>10 DEF RelockFiber, EndOfLoop
  <2> QED
    BY Zenon, <1>0, <2>1, <2>2, ListSame DEF ListPlaces
<1>11. ASSUME NEW w \in Waiters, RelockThread(w) PROVE ListExact'
  <2>1. at[w] = "relock" /\ \E p \in {"test", EndOfLoop(w)} : at' = [at EXCEPT ![w] = p]
    BY <1>11 DEF RelockThread, Move
  <2>2. waiting' = waiting /\ (w \in Fibers => EndOfLoop(w) = "erase")
    BY <1>11 DEF RelockThread, EndOfLoop
  <2> QED
    BY Zenon, <1>0, <2>1, <2>2, ListSame DEF ListPlaces
<1>12. ASSUME NEW w \in Waiters, Succeed(w) PROVE ListExact'
  <2>1. at[w] = "test" /\ at' = [at EXCEPT ![w] = EndOfLoop(w)]
    BY <1>12 DEF Succeed, Move
  <2>2. waiting' = waiting /\ (w \in Fibers => EndOfLoop(w) = "erase")
    BY <1>12 DEF Succeed, EndOfLoop
  <2> QED
    BY Zenon, <1>0, <2>1, <2>2, ListSame DEF ListPlaces
<1>13. ASSUME NEW w \in Waiters, EraseFiber(w) PROVE ListExact'
  <2>1. at[w] = "erase" /\ at' = [at EXCEPT ![w] = "uncount"]
    BY <1>13 DEF EraseFiber, Move
  <2>2. PICK it \in DOMAIN waiting : waiting[it] = w /\ waiting' = Without(it)
    BY <1>13 DEF EraseFiber
  <2>3. w \in Fibers
    BY <2>2 DEF TypeOK
  <2>4. Having(Fibers, at', ListPlaces) = Having(Fibers, at, ListPlaces) \ {w}
    BY <1>0, <2>1, <2>3 DEF Having, ListPlaces
  <2>5. /\ \A i, j \in DOMAIN waiting' : waiting'[i] = waiting'[j] => i = j
        /\ {waiting'[i] : i \in DOMAIN waiting'} = {waiting[i] : i \in DOMAIN waiting} \ {w}
    BY <2>2, EraseAt DEF ListExact
  <2> QED
    BY <2>4, <2>5 DEF ListExact
<1>14. ASSUME NEW w \in Waiters, UncountOnCondition(w) PROVE ListExact'
  <2>1. at[w] = "uncountOnCondition" /\ at' = [at EXCEPT ![w] = "uncount"] /\ waiting' = waiting
    BY <1>14 DEF UncountOnCondition, Move
  <2> QED
    BY Zenon, <1>0, <2>1, ListSame DEF ListPlaces
<1>15. ASSUME NEW w \in Waiters, EndWait(w) PROVE ListExact'
  <2>1. at[w] = "uncount" /\ at' = [at EXCEPT ![w] = "left"] /\ waiting' = waiting
    BY <1>15 DEF EndWait, Leave, Move
  <2> QED
    BY Zenon, <1>0, <2>1, ListSame DEF ListPlaces
<1>16. ASSUME NEW w \in Waiters, Expire(w) PROVE ListExact'
  BY <1>16 DEF Expire, ListExact
<1>17. ASSUME NEW n \in Notifiers, NEW call \in {"notify_one", "notify_all"}, AddToken(n, call)
      PROVE ListExact'
  <2>1. (\E p \in {"fastPath"} : at' = [at EXCEPT ![n] = p]) /\ waiting' = waiting
    BY <1>17 DEF AddToken, Move
  <2> QED
    BY Zenon, <1>0, <2>1, ListSame
<1>18. ASSUME NEW n \in Notifiers, UnlockFirst(n) PROVE ListExact'
  BY <1>18 DEF UnlockFirst, ListExact
<1>19. ASSUME NEW n \in Notifiers, FastPath(n) PROVE ListExact'
  <2>1. (\E p \in {"left", "list"} : at' = [at EXCEPT ![n] = p]) /\ waiting' = waiting
    BY <1>19 DEF FastPath, Return, Move
  <2> QED
    BY Zenon, <1>0, <2>1, ListSame
<1>20. ASSUME NEW n \in Notifiers, NotifyFibers(n) PROVE ListExact'
  <2>1. (\E p \in {"left", "condition"} : at' = [at EXCEPT ![n] = p]) /\ waiting' = waiting
    BY <1>20 DEF NotifyFibers, Return, Move
  <2> QED
    BY Zenon, <1>0, <2>1, ListSame
<1>21. ASSUME NEW n \in Notifiers, NotifyThreads(n) PROVE ListExact'
  <2>1. (\E p \in {"left"} : at' = [at EXCEPT ![n] = p]) /\ waiting' = waiting
    BY <1>21 DEF NotifyThreads, Return, Move
  <2> QED
    BY Zenon, <1>0, <2>1, ListSame
<1>22. CASE UNCHANGED vars
  BY <1>22 DEF vars, ListExact
<1> QED
  BY Zenon, <1>1, <1>2, <1>3, <1>4, <1>5, <1>6, <1>7, <1>8,
     <1>9, <1>10, <1>11, <1>12, <1>13, <1>14, <1>15,
     <1>16, <1>17, <1>18, <1>19, <1>20, <1>21, <1>22
     DEF Next, WaitStep, NotifyStep, Quiet

\* The calls of notify_one() are finitely many.
LEMMA OneCallsFinite == IsFiniteSet(OneCalls)
BY CVAssumption, FS_Subset DEF OneCalls

\* The counted waiters are finitely many.
LEMMA CountedFinite ==
  /\ IsFiniteSet(Having(Waiters, at, CountedPlaces))
  /\ IsFiniteSet(Having(Threads, at, ConditionPlaces))
<1>1. /\ Having(Waiters, at, CountedPlaces) \subseteq Waiters
      /\ Having(Threads, at, ConditionPlaces) \subseteq Waiters
  BY DEF Having, Waiters
<1> QED
  BY <1>1, FS_Subset, CVAssumption

\* A waiter already ahead of a notify_all() stays so when no waiter newly blocks,
\* no notifier moves and no token is added.
LEMMA AheadSame ==
  ASSUME TypeOK, NotifyAllAhead, calls' = calls, tokens' \in Int, tokens' <= tokens,
         \A n \in Notifiers : at'[n] = at[n],
         \A w \in Waiters : Parked(w)' => Parked(w)
  PROVE  NotifyAllAhead'
<1>1. OneCalls' = OneCalls /\ \A n \in Notifiers, w \in Waiters : StillToNotify(n, w)' <=> StillToNotify(n, w)
  BY DEF OneCalls, StillToNotify, All
<1>2. Cardinality(OneCalls) \in Nat
  BY OneCallsFinite, FS_CardinalityType
<1>3. tokens' > Cardinality(OneCalls)' => tokens > Cardinality(OneCalls)
  BY <1>1, <1>2 DEF TypeOK
<1> QED
  BY <1>1, <1>3 DEF NotifyAllAhead

\* Without tokens nobody is entitled to return.
LEMMA AheadWithoutTokens ==
  ASSUME TypeOK, NotifyAllAhead, calls' = calls, tokens' = tokens, ~Pred,
         \A n \in Notifiers : at'[n] = at[n]
  PROVE  NotifyAllAhead'
<1>1. OneCalls' = OneCalls /\ Cardinality(OneCalls) \in Nat
  BY OneCallsFinite, FS_CardinalityType DEF OneCalls
<1>2. ~(tokens' > Cardinality(OneCalls)')
  BY <1>1 DEF Pred, TypeOK
<1> QED
  BY <1>2 DEF NotifyAllAhead

\* Every step keeps a notify_all() ahead of the blocked waiters it is for: with a
\* waiter counted the call passes the tests of the two counters.
LEMMA NextNotifyAllAhead ==
  ASSUME TypeOK, CountersExact, ListExact, NotifyAllAhead, [Next]_vars
  PROVE  NotifyAllAhead'
<1>0. /\ at \in [Waiters \cup Notifiers -> Places] /\ state \in [Fibers -> {"Running", "Queued", "Yielded", "Waiting"}]
      /\ signalled \subseteq Threads /\ tokens \in Int
      /\ Waiters \cap Notifiers = {} /\ Fibers \cap Threads = {} /\ Waiters = Fibers \cup Threads
  BY CVAssumption DEF TypeOK, Waiters
<1>1. ASSUME NEW w \in Waiters, BeginWait(w) PROVE NotifyAllAhead'
  <2>1. (\E p \in {"left", "count"} : at' = [at EXCEPT ![w] = p])
        /\ UNCHANGED <<calls, state, signalled>>
    BY <1>1 DEF BeginWait, Leave, Move
  <2>2. tokens' \in Int /\ tokens' <= tokens
    BY <1>1, <1>0 DEF BeginWait, Leave, TypeOK
  <2>3. \A v \in Waiters : Parked(v)' => Parked(v)
    BY <1>0, <2>1 DEF Parked
  <2> QED
    BY <1>0, <2>1, <2>2, <2>3, AheadSame
<1>2. ASSUME NEW w \in Waiters, Count(w) PROVE NotifyAllAhead'
  <2>1. (\E p \in {"emplace", "countOnCondition"} : at' = [at EXCEPT ![w] = p])
        /\ UNCHANGED <<calls, state, signalled>>
    BY Zenon, <1>2 DEF Count, Move
  <2>2. tokens' = tokens
    BY <1>2, <1>0 DEF Count
  <2>3. \A v \in Waiters : Parked(v)' => Parked(v)
    BY <1>0, <2>1 DEF Parked
  <2> QED
    BY <1>0, <2>1, <2>2, <2>3, AheadSame
<1>3. ASSUME NEW w \in Waiters, CountOnCondition(w) PROVE NotifyAllAhead'
  <2>1. (at' = [at EXCEPT ![w] = "test"])
        /\ UNCHANGED <<calls, state, signalled>>
    BY <1>3 DEF CountOnCondition, Move
  <2>2. tokens' = tokens
    BY <1>3, <1>0 DEF CountOnCondition
  <2>3. \A v \in Waiters : Parked(v)' => Parked(v)
    BY <1>0, <2>1 DEF Parked
  <2> QED
    BY <1>0, <2>1, <2>2, <2>3, AheadSame
<1>4. ASSUME NEW w \in Waiters, Emplace(w) PROVE NotifyAllAhead'
  <2>1. (at' = [at EXCEPT ![w] = "test"])
        /\ UNCHANGED <<calls, state, signalled>>
    BY <1>4 DEF Emplace, Move
  <2>2. tokens' = tokens
    BY <1>4, <1>0 DEF Emplace
  <2>3. \A v \in Waiters : Parked(v)' => Parked(v)
    BY <1>0, <2>1 DEF Parked
  <2> QED
    BY <1>0, <2>1, <2>2, <2>3, AheadSame
<1>5. ASSUME NEW w \in Waiters, Suspend(w) PROVE NotifyAllAhead'
  <2>1. ~Pred /\ UNCHANGED <<calls, tokens>> /\ at' = [at EXCEPT ![w] = "suspended"]
    BY <1>5 DEF Suspend, Move
  <2> QED
    BY <1>0, <2>1, AheadWithoutTokens
<1>6. ASSUME NEW w \in Waiters, Block(w) PROVE NotifyAllAhead'
  <2>1. ~Pred /\ UNCHANGED <<calls, tokens>> /\ at' = [at EXCEPT ![w] = "suspended"]
    BY <1>6 DEF Block, Move
  <2> QED
    BY <1>0, <2>1, AheadWithoutTokens
<1>7. ASSUME NEW w \in Waiters, TimeOut(w) PROVE NotifyAllAhead'
  <2>1. /\ UNCHANGED <<calls, tokens, at, signalled>> /\ state' = [state EXCEPT ![w] = "Queued"]
    BY <1>7 DEF TimeOut
  <2>2. \A v \in Waiters : Parked(v)' => Parked(v)
    BY <1>0, <2>1 DEF Parked
  <2> QED
    BY <1>0, <2>1, <2>2, AheadSame
<1>8. ASSUME NEW w \in Waiters, Resume(w) PROVE NotifyAllAhead'
  <2>1. (at' = [at EXCEPT ![w] = "relock"])
        /\ calls' = calls /\ state' = [state EXCEPT ![w] = "Running"] /\ signalled' = signalled
    BY <1>8 DEF Resume, Move
  <2>2. tokens' = tokens
    BY <1>8, <1>0 DEF Resume
  <2>3. \A v \in Waiters : Parked(v)' => Parked(v)
    BY <1>0, <2>1 DEF Parked
  <2> QED
    BY <1>0, <2>1, <2>2, <2>3, AheadSame
<1>9. ASSUME NEW w \in Waiters, Unblock(w) PROVE NotifyAllAhead'
  <2>1. (at' = [at EXCEPT ![w] = "relock"])
        /\ calls' = calls /\ state' = state /\ signalled' = signalled \ {w}
    BY <1>9 DEF Unblock, Move
  <2>2. tokens' = tokens
    BY <1>9, <1>0 DEF Unblock
  <2>3. \A v \in Waiters : Parked(v)' => Parked(v)
    BY <1>0, <2>1 DEF Parked
  <2> QED
    BY <1>0, <2>1, <2>2, <2>3, AheadSame
<1>10. ASSUME NEW w \in Waiters, RelockFiber(w) PROVE NotifyAllAhead'
  <2>1. (\E p \in {"test", "erase", "uncountOnCondition"} : at' = [at EXCEPT ![w] = p])
        /\ UNCHANGED <<calls, state, signalled>>
    BY <1>10 DEF RelockFiber, EndOfLoop, Move
  <2>2. tokens' = tokens
    BY <1>10, <1>0 DEF RelockFiber, EndOfLoop
  <2>3. \A v \in Waiters : Parked(v)' => Parked(v)
    BY <1>0, <2>1 DEF Parked
  <2> QED
    BY <1>0, <2>1, <2>2, <2>3, AheadSame
<1>11. ASSUME NEW w \in Waiters, RelockThread(w) PROVE NotifyAllAhead'
  <2>1. (\E p \in {"test", "erase", "uncountOnCondition"} : at' = [at EXCEPT ![w] = p])
        /\ UNCHANGED <<calls, state, signalled>>
    BY <1>11 DEF RelockThread, EndOfLoop, Move
  <2>2. tokens' = tokens
    BY <1>11, <1>0 DEF RelockThread, EndOfLoop
  <2>3. \A v \in Waiters : Parked(v)' => Parked(v)
    BY <1>0, <2>1 DEF Parked
  <2> QED
    BY <1>0, <2>1, <2>2, <2>3, AheadSame
<1>12. ASSUME NEW w \in Waiters, Succeed(w) PROVE NotifyAllAhead'
  <2>1. (\E p \in {"erase", "uncountOnCondition"} : at' = [at EXCEPT ![w] = p])
        /\ UNCHANGED <<calls, state, signalled>>
    BY Zenon, <1>12 DEF Succeed, EndOfLoop, Move
  <2>2. tokens' = tokens
    BY <1>12, <1>0 DEF Succeed, EndOfLoop
  <2>3. \A v \in Waiters : Parked(v)' => Parked(v)
    BY <1>0, <2>1 DEF Parked
  <2> QED
    BY <1>0, <2>1, <2>2, <2>3, AheadSame
<1>13. ASSUME NEW w \in Waiters, EraseFiber(w) PROVE NotifyAllAhead'
  <2>1. (at' = [at EXCEPT ![w] = "uncount"])
        /\ UNCHANGED <<calls, state, signalled>>
    BY <1>13 DEF EraseFiber, Move
  <2>2. tokens' = tokens
    BY <1>13, <1>0 DEF EraseFiber
  <2>3. \A v \in Waiters : Parked(v)' => Parked(v)
    BY <1>0, <2>1 DEF Parked
  <2> QED
    BY <1>0, <2>1, <2>2, <2>3, AheadSame
<1>14. ASSUME NEW w \in Waiters, UncountOnCondition(w) PROVE NotifyAllAhead'
  <2>1. (at' = [at EXCEPT ![w] = "uncount"])
        /\ UNCHANGED <<calls, state, signalled>>
    BY <1>14 DEF UncountOnCondition, Move
  <2>2. tokens' = tokens
    BY <1>14, <1>0 DEF UncountOnCondition
  <2>3. \A v \in Waiters : Parked(v)' => Parked(v)
    BY <1>0, <2>1 DEF Parked
  <2> QED
    BY <1>0, <2>1, <2>2, <2>3, AheadSame
<1>15. ASSUME NEW w \in Waiters, EndWait(w) PROVE NotifyAllAhead'
  <2>1. (at' = [at EXCEPT ![w] = "left"])
        /\ UNCHANGED <<calls, state, signalled>>
    BY <1>15 DEF EndWait, Leave, Move
  <2>2. tokens' \in Int /\ tokens' <= tokens
    BY <1>15, <1>0 DEF EndWait, Leave, TypeOK
  <2>3. \A v \in Waiters : Parked(v)' => Parked(v)
    BY <1>0, <2>1 DEF Parked
  <2> QED
    BY <1>0, <2>1, <2>2, <2>3, AheadSame
<1>16. ASSUME NEW w \in Waiters, Expire(w) PROVE NotifyAllAhead'
  <2>1. UNCHANGED <<calls, tokens, at, state, signalled>>
    BY <1>16 DEF Expire
  <2> QED
    BY <1>0, <2>1, AheadSame DEF Parked
<1>17. ASSUME NEW n \in Notifiers, NEW call \in {"notify_one", "notify_all"}, AddToken(n, call)
      PROVE NotifyAllAhead'
  <2>1. /\ at[n] = "idle" /\ at' = [at EXCEPT ![n] = "fastPath"] /\ tokens' = tokens + 1
        /\ calls' = [calls EXCEPT ![n] = call] /\ UNCHANGED <<state, signalled>>
    BY <1>17 DEF AddToken, Move
  <2>2. /\ calls[n] = "none" /\ calls \in [Notifiers -> {"none", "notify_one", "notify_all"}]
        /\ tokens \in Nat
    BY <2>1 DEF NotifyAllAhead, TypeOK
  <2>3. \A v \in Waiters : Parked(v)' => Parked(v)
    BY <1>0, <2>1 DEF Parked
  <2>4. \A m \in Notifiers : at'[m] = "idle" => calls'[m] = "none"
    BY <1>0, <2>1, <2>2 DEF NotifyAllAhead
  <2>5. CASE call = "notify_all"
    <3>1. \A v \in Waiters : StillToNotify(n, v)'
      BY Zenon, <1>0, <2>1, <2>2, <2>5 DEF StillToNotify, All
    <3> QED
      BY <2>4, <3>1 DEF NotifyAllAhead
  <2>6. CASE call = "notify_one"
    <3>1. OneCalls' = OneCalls \cup {n} /\ n \notin OneCalls
      BY <2>1, <2>2, <2>6 DEF OneCalls
    <3>2. Cardinality(OneCalls') = Cardinality(OneCalls) + 1 /\ Cardinality(OneCalls) \in Nat
      BY Zenon, <3>1, OneCallsFinite, FS_AddElement, FS_CardinalityType
    <3>3. tokens' > Cardinality(OneCalls') => tokens > Cardinality(OneCalls)
      BY <2>1, <2>2, <3>2
    <3>4. \A m \in Notifiers, v \in Waiters : StillToNotify(m, v) => StillToNotify(m, v)'
      BY <1>0, <2>1, <2>2 DEF StillToNotify, All
    <3> QED
      BY <2>3, <2>4, <3>3, <3>4 DEF NotifyAllAhead
  <2> QED
    BY <2>5, <2>6
<1>18. ASSUME NEW n \in Notifiers, UnlockFirst(n) PROVE NotifyAllAhead'
  <2>1. UNCHANGED <<calls, tokens, at, state, signalled>>
    BY <1>18 DEF UnlockFirst
  <2> QED
    BY <1>0, <2>1, AheadSame DEF Parked
<1>19. ASSUME NEW n \in Notifiers, FastPath(n) PROVE NotifyAllAhead'
  <2>1. UNCHANGED <<calls, tokens, state, signalled>> /\ \E p \in {"left", "list"} : at' = [at EXCEPT ![n] = p]
    BY <1>19 DEF FastPath, Return, Move
  <2>2. \A v \in Waiters : Parked(v)' => Parked(v)
    BY <1>0, <2>1 DEF Parked
  <2>3. ASSUME NEW v \in Waiters, Parked(v), NEW m \in Notifiers, StillToNotify(m, v)
        PROVE  StillToNotify(m, v)'
    <3>1. v \in Having(Waiters, at, CountedPlaces)
      BY <2>3 DEF Parked, Having, CountedPlaces
    <3>2. numWaiting # 0
      BY <3>1, CountedFinite, FS_EmptySet DEF CountersExact
    <3>3. at' = [at EXCEPT ![n] = "list"] /\ at[n] = "fastPath"
      BY <1>19, <3>2 DEF FastPath, NobodyWaits, Move
    <3> QED
      BY <1>0, <2>1, <2>3, <3>3 DEF StillToNotify, All
  <2>4. OneCalls' = OneCalls /\ \A m \in Notifiers : at'[m] = "idle" => calls'[m] = "none"
    BY <1>0, <2>1 DEF NotifyAllAhead, OneCalls
  <2> QED
    BY <2>1, <2>2, <2>3, <2>4 DEF NotifyAllAhead
<1>20. ASSUME NEW n \in Notifiers, NotifyFibers(n) PROVE NotifyAllAhead'
  <2>1. /\ UNCHANGED <<calls, tokens, signalled>> /\ at[n] = "list"
        /\ \E p \in {"left", "condition"} : at' = [at EXCEPT ![n] = p]
        /\ state' = Notified({waiting[i] : i \in DOMAIN waiting \cap IF All(n) THEN Nat ELSE {1}})
    BY <1>20 DEF NotifyFibers, Return, Move
  <2>2. \A v \in Waiters : Parked(v)' => Parked(v)
    BY <1>0, <2>1 DEF Parked, Notified
  <2>3. ASSUME NEW v \in Waiters, Parked(v)', Parked(v), NEW m \in Notifiers, StillToNotify(m, v)
        PROVE  StillToNotify(m, v)'
    <3>1. CASE m = n
      <4>1. All(n) /\ at' = [at EXCEPT ![n] = "condition"]
        BY <1>20, <2>3, <3>1 DEF NotifyFibers, GoesOn, StillToNotify, Move
      <4>2. v \notin Fibers
        <5> SUFFICES ASSUME v \in Fibers PROVE FALSE
          OBVIOUS
        <5>1. v \in {waiting[i] : i \in DOMAIN waiting}
          BY <2>3 DEF Parked, ListExact, Having, ListPlaces
        <5>2. DOMAIN waiting = 1 .. Len(waiting) /\ Len(waiting) \in Nat
          BY DEF TypeOK
        <5>3. DOMAIN waiting \cap Nat = DOMAIN waiting
          BY ONLY <5>2
        <5>4. PICK fs : fs = {waiting[i] : i \in DOMAIN waiting}
          BY Zenon
        <5>5. state' = Notified(fs) /\ v \in fs
          BY <2>1, <4>1, <5>1, <5>3, <5>4
        <5>6. state'[v] = "Queued" \/ state'[v] \in {"Running", "Queued"}
          BY ONLY Zenon, <1>0, <5>5, v \in Fibers DEF Notified
        <5> QED
          BY <2>3, <5>6 DEF Parked
      <4> QED
        BY <1>0, <2>1, <2>3, <3>1, <4>1, <4>2 DEF StillToNotify, All, Waiters
    <3>2. CASE m # n
      BY Zenon, <1>0, <2>1, <2>3, <3>2 DEF StillToNotify, All
    <3> QED
      BY <3>1, <3>2
  <2>4. OneCalls' = OneCalls /\ \A m \in Notifiers : at'[m] = "idle" => calls'[m] = "none"
    BY Zenon, <1>0, <2>1 DEF NotifyAllAhead, OneCalls
  <2> QED
    BY <2>1, <2>2, <2>3, <2>4 DEF NotifyAllAhead
<1>21. ASSUME NEW n \in Notifiers, NotifyThreads(n) PROVE NotifyAllAhead'
  <2>1. /\ UNCHANGED <<calls, tokens, state>> /\ at[n] = "condition"
        /\ at' = [at EXCEPT ![n] = "left"] /\ signalled \subseteq signalled'
    BY <1>21 DEF NotifyThreads, Return, Move
  <2>2. \A v \in Waiters : Parked(v)' => Parked(v)
    BY <1>0, <2>1 DEF Parked
  <2>3. ASSUME NEW v \in Waiters, Parked(v)', Parked(v), NEW m \in Notifiers, StillToNotify(m, v)
        PROVE  StillToNotify(m, v)'
    <3>1. m # n
      <4> SUFFICES ASSUME m = n PROVE FALSE
        OBVIOUS
      <4>1. v \in Threads /\ All(n)
        BY <2>1, <2>3 DEF StillToNotify
      <4>2. v \in Blocked
        BY <1>0, <2>3, <4>1 DEF Parked, Blocked
      <4>3. v \in Having(Threads, at, ConditionPlaces)
        BY <2>3, <4>1 DEF Parked, Having, ConditionPlaces
      <4>4. numWaitingOnCondition # 0
        BY <4>3, CountedFinite, FS_EmptySet DEF CountersExact
      <4>5. v \in signalled'
        BY <1>21, <4>1, <4>2, <4>4 DEF NotifyThreads
      <4> QED
        BY <1>0, <2>3, <4>1, <4>5 DEF Parked
    <3> QED
      BY <1>0, <2>1, <2>3, <3>1 DEF StillToNotify, All
  <2>4. OneCalls' = OneCalls /\ \A m \in Notifiers : at'[m] = "idle" => calls'[m] = "none"
    BY <1>0, <2>1 DEF NotifyAllAhead, OneCalls
  <2> QED
    BY <2>1, <2>2, <2>3, <2>4 DEF NotifyAllAhead
<1>22. CASE UNCHANGED vars
  <2>1. calls' = calls /\ tokens' = tokens /\ at' = at /\ state' = state /\ signalled' = signalled
    BY <1>22 DEF vars
  <2> QED
    BY <1>0, <2>1, AheadSame DEF Parked
<1> QED
  BY Zenon, <1>1, <1>2, <1>3, <1>4, <1>5, <1>6, <1>7, <1>8,
     <1>9, <1>10, <1>11, <1>12, <1>13, <1>14, <1>15,
     <1>16, <1>17, <1>18, <1>19, <1>20, <1>21, <1>22
     DEF Next, WaitStep, NotifyStep, Quiet

-----------------------------------------------------------------------------
(* What is proved of the condition variable.                               *)

\* The list and the counters of a condition variable, the user's lock and the
\* calls of notify_all() keep their relation in every reachable state.
THEOREM ConditionVariableInvariant == Spec => []CVInv
<1>1. Init => CVInv
  BY InitCVInv
<1>2. CVInv /\ [Next]_vars => CVInv'
  BY NextTypeOK, NextLockHeld, NextCountersExact, NextListExact, NextNotifyAllAhead DEF CVInv
<1> QED
  BY <1>1, <1>2, PTL DEF Spec

\* notify_all() misses no waiter: one that is blocked while there are more tokens
\* than calls of notify_one() has a notifier still to come, for any number of
\* fibers, threads and notifiers.
THEOREM NotifyAllReachesEveryWaiter == Spec => []NoLostNotifyAll
<1>1. CVInv => NoLostNotifyAll
  BY DEF CVInv, NotifyAllAhead, NoLostNotifyAll, StillToNotify
<1> QED
  BY <1>1, ConditionVariableInvariant, PTL

\* The list holds fibers that are inside wait(), each once, and numWaiting counts
\* them together with the threads counted in numWaitingOnCondition.
THEOREM ListHoldsWaitingFibers == Spec => []ListedAreWaiting
<1>1. ASSUME CVInv PROVE ListedAreWaiting
  <2> DEFINE listed == Having(Fibers, at, ListPlaces)
             onCondition == Having(Threads, at, ConditionPlaces)
             counted == Having(Waiters, at, CountedPlaces)
  <2>1. /\ \A i, j \in DOMAIN waiting : waiting[i] = waiting[j] => i = j
        /\ {waiting[i] : i \in DOMAIN waiting} = listed
        /\ waiting \in Seq(Fibers) /\ DOMAIN waiting = 1 .. Len(waiting) /\ Len(waiting) \in Nat
        /\ numWaiting = Cardinality(counted) /\ numWaitingOnCondition = Cardinality(onCondition)
    BY <1>1 DEF CVInv, ListExact, TypeOK, CountersExact
  <2>2. \A i \in DOMAIN waiting : at[waiting[i]] \in ListPlaces
    <3>1. \A i \in DOMAIN waiting : waiting[i] \in listed
      BY <2>1
    <3> QED
      BY <3>1 DEF Having
  <2>3. Cardinality(listed) = Len(waiting)
    <3> HIDE DEF listed
    <3>1. waiting \in [1 .. Len(waiting) -> listed]
      BY <2>1
    <3>2. waiting \in Bijection(1 .. Len(waiting), listed)
      BY <2>1, <3>1 DEF Bijection, Injection, Surjection, IsInjective
    <3>3. IsFiniteSet(1 .. Len(waiting)) /\ Cardinality(1 .. Len(waiting)) = Len(waiting)
      <4>1. Len(waiting) \in Nat
        BY <2>1
      <4> QED
        BY SMTT(60), <4>1, FS_Interval
    <3> QED
      BY <3>2, <3>3, FS_Bijection DEF ExistsBijection
  <2>4. /\ IsFiniteSet(listed) /\ IsFiniteSet(onCondition) /\ IsFiniteSet(counted)
        /\ listed \cap onCondition = {} /\ listed \cup onCondition \subseteq counted
    <3>1. listed \subseteq Waiters /\ onCondition \subseteq Waiters /\ counted \subseteq Waiters
      BY DEF Having, Waiters
    <3>2. listed \cap onCondition = {} /\ listed \cup onCondition \subseteq counted
      BY CVAssumption DEF Having, Waiters, ListPlaces, ConditionPlaces, CountedPlaces
    <3> QED
      BY <3>1, <3>2, CVAssumption, FS_Subset
  <2> HIDE DEF listed, onCondition, counted
  <2>5. Cardinality(listed \cup onCondition) = Cardinality(listed) + Cardinality(onCondition)
    <3>1. Cardinality(listed \cap onCondition) = 0
      BY <2>4, FS_EmptySet
    <3>2. Cardinality(listed \cup onCondition)
            = Cardinality(listed) + Cardinality(onCondition) - Cardinality(listed \cap onCondition)
      BY <2>4, FS_Union
    <3>3. Cardinality(listed) \in Nat /\ Cardinality(onCondition) \in Nat
      BY <2>4, FS_CardinalityType
    <3> QED
      BY <3>1, <3>2, <3>3
  <2>6. Cardinality(listed \cup onCondition) <= Cardinality(counted)
    BY <2>4, FS_Subset
  <2> QED
    BY <2>1, <2>2, <2>3, <2>5, <2>6 DEF ListedAreWaiting, ListPlaces
<1> QED
  BY <1>1, ConditionVariableInvariant, PTL
=============================================================================
