---------------------------- MODULE EventProofs ----------------------------
(***************************************************************************)
(* EventDelivers holds for any number of tasks, events and operations.     *)
(***************************************************************************)
EXTENDS Event, TLAPS

\* Condition variables that tasks of S wait on.
WaitLists(S) == [list : Seq(S), woken : SUBSET S]

EventPlaces == {"out", "deps", "wait", "waitUntil", "any"}
Waiting == {"wait", "waitUntil"}

EventType ==
  /\ mode \in [Events -> {"Auto", "Manual"}]
  /\ signalled \in [Events -> BOOLEAN]
  /\ deps \in [Sources -> BOOLEAN]
  /\ mutexes \in [Events -> Tasks \cup {NoTask}]
  /\ cv \in [Events -> WaitLists(Tasks)]
  /\ eventAt \in [Tasks -> EventPlaces]
  /\ on \in [Tasks -> Events]
  /\ members \subseteq Sources
  /\ sets \in [Events -> Nat]
  /\ gets \in [Events -> Nat]

\* The list of an event holds the tasks that wait on it, each once; only they are woken.
Listed ==
  /\ \A e \in Events : IsInjective(cv[e].list) /\ cv[e].woken \subseteq Range(cv[e].list)
  /\ \A e \in Events : \A t \in Tasks :
       t \in Range(cv[e].list) <=> eventAt[t] \in Waiting /\ on[t] = e

\* A mutex that is held is held by the signal() of a source that any() was given.
Held ==
  /\ \A t \in Tasks : eventAt[t] = "deps" => on[t] \in Sources /\ mutexes[on[t]] = t
  /\ \A e \in Events : mutexes[e] # NoTask => eventAt[mutexes[e]] = "deps" /\ on[mutexes[e]] = e

\* An event is signalled only by having been set.
SetBefore == \A e \in Events : signalled[e] => sets[e] > 0

\* The three promises of EventDelivers.
Delivered ==
  \A e \in Events : signalled[e] =>
    IF mode[e] = "Manual" THEN Range(cv[e].list) \subseteq cv[e].woken
    ELSE cv[e].list = <<>> \/ cv[e].woken # {} \/ e \in gaveUp
OnePerSet ==
  \A e \in Events : mode[e] = "Auto" => gets[e] + (IF signalled[e] THEN 1 ELSE 0) <= sets[e]
AnySignalled ==
  \A e \in Sources : deps[e] /\ signalled[e] /\ mutexes[e] = NoTask => sets[AnyEvent] > 0

EventInv == EventType /\ Listed /\ Held /\ SetBefore /\ Delivered /\ OnePerSet /\ AnySignalled
-----------------------------------------------------------------------------
(* What the operations of a condition variable do to its list.             *)

\* wait(): in front of the others.
LEMMA JoinWaiters ==
  ASSUME NEW S, NEW q \in WaitLists(S), NEW f \in S,
         IsInjective(q.list), f \notin Range(q.list)
  PROVE  /\ Join(q, f) \in WaitLists(S)
         /\ Join(q, f).woken = q.woken
         /\ IsInjective(Join(q, f).list)
         /\ Range(Join(q, f).list) = Range(q.list) \cup {f}
<1> DEFINE s == q.list
<1> DEFINE r == <<f>> \o s
<1>0. Join(q, f) = [list |-> r, woken |-> q.woken]
  <2>1. ASSUME NEW l PROVE [q EXCEPT !.list = l] = [list |-> l, woken |-> q.woken]
    BY DEF WaitLists
  <2> QED BY Zenon, <2>1 DEF Join
<1>1. /\ s \in Seq(S) /\ Len(s) \in Nat /\ DOMAIN s = 1..Len(s)
      /\ Join(q, f).list = r /\ Join(q, f).woken = q.woken /\ q.woken \in SUBSET S
  BY <1>0 DEF WaitLists
<1>2. /\ r \in Seq(S) /\ DOMAIN r = 1..Len(s) + 1 /\ r[1] = f
      /\ \A k \in 1..Len(s) : r[k + 1] = s[k]
  <2>1. <<f>> \in Seq(S) /\ Len(<<f>>) = 1 /\ <<f>>[1] = f
    OBVIOUS
  <2> HIDE DEF s
  <2>2. r \in Seq(S) /\ Len(r) = Len(s) + 1
    BY ONLY <1>1, <2>1 DEF r
  <2>3. r[1] = f
    BY ONLY <1>1, <2>1 DEF r
  <2>4. ASSUME NEW k \in 1..Len(s) PROVE r[k + 1] = s[k]
    BY ONLY <1>1, <2>1, <2>4 DEF r
  <2> QED BY <1>1, <2>2, <2>3, <2>4
<1>3. /\ \A a, b \in 1..Len(s) : s[a] = s[b] => a = b
      /\ \A a \in 1..Len(s) : s[a] # f
  BY Zenon, <1>1 DEF IsInjective, Range
<1> HIDE DEF s, r
<1>4. \A k \in 1..Len(s) + 1 : k = 1 \/ (k - 1 \in 1..Len(s) /\ r[k] = s[k - 1])
  BY <1>1, <1>2
<1>5. IsInjective(r)
  <2>1. ASSUME NEW a \in 1..Len(s) + 1, NEW b \in 1..Len(s) + 1, r[a] = r[b] PROVE a = b
    <3>1. CASE a = 1 \/ b = 1
      BY <1>1, <1>2, <1>3, <1>4, <2>1, <3>1
    <3>2. CASE a # 1 /\ b # 1
      <4>1. s[a - 1] = s[b - 1] /\ a - 1 \in 1..Len(s) /\ b - 1 \in 1..Len(s)
        BY <1>4, <2>1, <3>2
      <4> QED BY <1>1, <1>3, <4>1
    <3> QED BY <3>1, <3>2
  <2> QED BY <1>2, <2>1 DEF IsInjective
<1>6. Range(r) = Range(s) \cup {f}
  <2>1. \A k \in 1..Len(s) : k + 1 \in 1..Len(s) + 1
    BY <1>1
  <2>2. Range(s) \subseteq Range(r) /\ f \in Range(r)
    BY <1>1, <1>2, <2>1 DEF Range
  <2>3. ASSUME NEW k \in 1..Len(s) + 1 PROVE r[k] \in Range(s) \cup {f}
    BY <1>1, <1>2, <1>4 DEF Range
  <2>4. Range(r) \subseteq Range(s) \cup {f}
    BY Zenon, <1>2, <2>3 DEF Range
  <2> QED BY Zenon, <2>2, <2>4
<1> QED BY <1>0, <1>1, <1>2, <1>5, <1>6 DEF WaitLists, s

\* A wait() that returns: out of the list.
LEMMA LeaveWaiters ==
  ASSUME NEW S, NEW q \in WaitLists(S), NEW f \in Range(q.list), IsInjective(q.list)
  PROVE  /\ Leave(q, f) \in WaitLists(S)
         /\ Leave(q, f).woken = q.woken \ {f}
         /\ IsInjective(Leave(q, f).list)
         /\ Range(Leave(q, f).list) = Range(q.list) \ {f}
<1> DEFINE s == q.list
<1> DEFINE n == CHOOSE i \in DOMAIN s : s[i] = f
<1> DEFINE r == Without(s, n)
<1>1. /\ s \in Seq(S) /\ Len(s) \in Nat /\ DOMAIN s = 1..Len(s) /\ q.woken \in SUBSET S
      /\ \A k \in 1..Len(s) : s[k] \in S
  BY DEF WaitLists
<1>2. /\ Leave(q, f) = [list |-> r, woken |-> q.woken \ {f}]
      /\ Leave(q, f).list = r /\ Leave(q, f).woken = q.woken \ {f}
  BY DEF Leave
<1>3. n \in 1..Len(s) /\ s[n] = f
  BY <1>1 DEF Range
<1>4. \A a, b \in 1..Len(s) : s[a] = s[b] => a = b
  BY <1>1 DEF IsInjective
<1> HIDE DEF s, n
<1>5. DOMAIN r = 1..Len(s) - 1 /\ \A k \in 1..Len(s) - 1 : r[k] = s[IF k < n THEN k ELSE k + 1]
  BY DEF Without
<1>6. r \in Seq(S)
  <2>1. r \in [1..Len(s) - 1 -> S]
    BY <1>1, <1>3 DEF Without
  <2> QED BY <1>1, <1>3, <2>1
<1> HIDE DEF r
<1>7. IsInjective(r)
  <2>1. ASSUME NEW a \in 1..Len(s) - 1, NEW b \in 1..Len(s) - 1, r[a] = r[b] PROVE a = b
    BY <1>1, <1>3, <1>4, <1>5, <2>1
  <2> QED BY <1>5, <2>1 DEF IsInjective
<1>8. ASSUME NEW k \in 1..Len(s) - 1 PROVE r[k] \in Range(s) /\ r[k] # f
  BY <1>1, <1>3, <1>4, <1>5 DEF Range
<1>9. ASSUME NEW k \in 1..Len(s), s[k] # f PROVE s[k] \in Range(r)
  <2>1. CASE k < n
    <3>1. k \in 1..Len(s) - 1 /\ r[k] = s[k]
      BY <1>1, <1>3, <1>5, <2>1
    <3> QED BY <1>5, <3>1 DEF Range
  <2>2. CASE ~(k < n)
    <3>1. k - 1 \in 1..Len(s) - 1 /\ ~(k - 1 < n) /\ k - 1 + 1 = k
      BY <1>1, <1>3, <1>9, <2>2
    <3>2. r[k - 1] = s[k]
      BY <1>5, <3>1
    <3> QED BY <1>5, <3>1, <3>2 DEF Range
  <2> QED BY <2>1, <2>2
<1>10. Range(r) = Range(s) \ {f}
  BY <1>1, <1>5, <1>8, <1>9 DEF Range
<1> QED BY <1>1, <1>2, <1>6, <1>7, <1>10 DEF WaitLists, s

\* notify_one() and notify_all(): who waits is still listed, and the first, or all, awake.
LEMMA NotifyWaiters ==
  ASSUME NEW S, NEW q \in WaitLists(S), q.woken \subseteq Range(q.list), NEW auto \in BOOLEAN,
         NEW r, r = IF auto THEN NotifyOne(q) ELSE NotifyAll(q)
  PROVE  /\ r \in WaitLists(S) /\ r.list = q.list
         /\ r.woken \subseteq Range(q.list)
         /\ IF auto THEN q.list = <<>> \/ r.woken # {} ELSE Range(q.list) \subseteq r.woken
<1>1. /\ q.list \in Seq(S) /\ Len(q.list) \in Nat /\ DOMAIN q.list = 1..Len(q.list)
      /\ q.woken \in SUBSET S
  BY DEF WaitLists
<1>2. Range(q.list) \subseteq S
  BY <1>1 DEF Range
<1>3. CASE auto
  <2>1. r = [list |-> q.list, woken |-> q.woken \cup {q.list[i] : i \in DOMAIN q.list \cap {1}}]
    BY Zenon, <1>3 DEF NotifyOne, WaitLists
  <2>2. {q.list[i] : i \in DOMAIN q.list \cap {1}} \subseteq Range(q.list)
    BY DEF Range
  <2>3. q.list # <<>> => q.list[1] \in {q.list[i] : i \in DOMAIN q.list \cap {1}}
    BY <1>1
  <2>4. /\ r.list = q.list
        /\ r.woken = q.woken \cup {q.list[i] : i \in DOMAIN q.list \cap {1}}
    BY <2>1
  <2>5. r.woken \subseteq Range(q.list) /\ (q.list = <<>> \/ r.woken # {})
    BY Zenon, <2>2, <2>3, <2>4
  <2>6. r = [list |-> q.list, woken |-> r.woken] /\ r.woken \in SUBSET S
    BY <1>2, <2>1, <2>4, <2>5
  <2>7. r \in WaitLists(S)
    BY <1>1, <2>6 DEF WaitLists
  <2> QED BY Zenon, <1>3, <2>4, <2>5, <2>7
<1>4. CASE ~auto
  <2>1. r = [list |-> q.list, woken |-> Range(q.list)]
    BY <1>4 DEF NotifyAll, WaitLists
  <2> QED BY <1>1, <1>2, <1>4, <2>1 DEF WaitLists
<1> QED BY <1>3, <1>4
-----------------------------------------------------------------------------
(* What the steps do to the lists.                                         *)

\* signal(), up to the dependents: the event is signalled and its waiters are notified.
LEMMA SetEffect ==
  ASSUME EventType, Listed, NEW e \in Events, SetUnlessSignalled(e)
  PROVE  /\ signalled' \in [Events -> BOOLEAN] /\ sets' \in [Events -> Nat]
         /\ cv' \in [Events -> WaitLists(Tasks)]
         /\ \A d \in Events : cv'[d].list = cv[d].list /\ cv'[d].woken \subseteq Range(cv[d].list)
         /\ \A d \in Events : d # e \/ signalled[e] =>
              signalled'[d] = signalled[d] /\ sets'[d] = sets[d] /\ cv'[d] = cv[d]
         /\ ~signalled[e] => signalled'[e] /\ sets'[e] = sets[e] + 1
         /\ ~signalled[e] => IF mode[e] = "Manual" THEN Range(cv'[e].list) \subseteq cv'[e].woken
                             ELSE cv'[e].list = <<>> \/ cv'[e].woken # {}
<1>1. CASE signalled[e]
  BY <1>1 DEF SetUnlessSignalled, EventType, Listed
<1>2. CASE ~signalled[e]
  <2>1. Set(e)
    BY <1>2 DEF SetUnlessSignalled
  <2>2. /\ signalled' \in [Events -> BOOLEAN] /\ sets' \in [Events -> Nat]
        /\ signalled'[e] /\ sets'[e] = sets[e] + 1
        /\ \A d \in Events : d # e => signalled'[d] = signalled[d] /\ sets'[d] = sets[d]
    BY <2>1 DEF Set, EventType
  <2> DEFINE q == cv[e]
             auto == mode[e] = "Auto"
             r == IF auto THEN NotifyOne(q) ELSE NotifyAll(q)
  <2>3. q \in WaitLists(Tasks) /\ q.woken \subseteq Range(q.list) /\ auto \in BOOLEAN
    BY DEF EventType, Listed
  <2>4. cv' = [cv EXCEPT ![e] = r]
    BY <2>1 DEF Set
  <2>5. mode[e] = "Manual" <=> ~auto
    BY DEF EventType
  <2> HIDE DEF auto, q, r
  <2>6. /\ r \in WaitLists(Tasks) /\ r.list = q.list /\ r.woken \subseteq Range(q.list)
        /\ IF auto THEN q.list = <<>> \/ r.woken # {} ELSE Range(q.list) \subseteq r.woken
    BY <2>3, NotifyWaiters DEF r
  <2>7. /\ cv' \in [Events -> WaitLists(Tasks)] /\ cv'[e] = r
        /\ \A d \in Events : d # e => cv'[d] = cv[d]
    BY <2>4, <2>6 DEF EventType
  <2>8. ASSUME NEW d \in Events
        PROVE  cv'[d].list = cv[d].list /\ cv'[d].woken \subseteq Range(cv[d].list)
    BY <2>6, <2>7 DEF q, Listed
  <2> QED BY <1>2, <2>2, <2>5, <2>6, <2>7, <2>8
<1> QED BY <1>1, <1>2

\* The lists say who waits when they and the waiting tasks are the same.
LEMMA ListsSame ==
  ASSUME EventType, Listed,
         \A d \in Events : cv'[d].list = cv[d].list /\ cv'[d].woken \subseteq Range(cv[d].list),
         \A u \in Tasks : eventAt'[u] \in Waiting <=> eventAt[u] \in Waiting,
         \A u \in Tasks : eventAt[u] \in Waiting => on'[u] = on[u]
  PROVE  Listed'
BY Zenon DEF Listed

\* Where a task goes.
LEMMA GoEffect ==
  ASSUME EventType, NEW t \in Tasks, NEW place \in EventPlaces, NEW e \in Events, Go(t, place, e)
  PROVE  /\ eventAt' \in [Tasks -> EventPlaces] /\ on' \in [Tasks -> Events]
         /\ eventAt'[t] = place /\ on'[t] = e
         /\ \A u \in Tasks : u # t => eventAt'[u] = eventAt[u] /\ on'[u] = on[u]
BY DEF Go, EventType

\* A wait begins.
LEMMA BeginWaitLists ==
  ASSUME EventType, Listed, NEW t \in Tasks, eventAt[t] = "out", NEW e \in Events,
         NEW place \in Waiting, Go(t, place, e), cv' = [cv EXCEPT ![e] = Join(@, t)]
  PROVE  cv' \in [Events -> WaitLists(Tasks)] /\ Listed'
<1>1. cv[e] \in WaitLists(Tasks) /\ IsInjective(cv[e].list) /\ t \notin Range(cv[e].list)
  BY DEF EventType, Listed, Waiting
<1>2. /\ Join(cv[e], t) \in WaitLists(Tasks)
      /\ Join(cv[e], t).woken = cv[e].woken
      /\ IsInjective(Join(cv[e], t).list)
      /\ Range(Join(cv[e], t).list) = Range(cv[e].list) \cup {t}
  BY ZenonT(60), <1>1, JoinWaiters
<1>3. /\ cv' \in [Events -> WaitLists(Tasks)] /\ cv'[e] = Join(cv[e], t)
      /\ \A d \in Events : d # e => cv'[d] = cv[d]
  BY <1>2 DEF EventType
<1>4. /\ eventAt'[t] \in Waiting /\ on'[t] = e
      /\ \A u \in Tasks : u # t => eventAt'[u] = eventAt[u] /\ on'[u] = on[u]
  BY GoEffect DEF Waiting, EventPlaces
<1>5. eventAt[t] \notin Waiting
  BY DEF Waiting
<1>6. ASSUME NEW d \in Events
      PROVE  /\ IsInjective(cv'[d].list) /\ cv'[d].woken \subseteq Range(cv'[d].list)
             /\ \A u \in Tasks : u \in Range(cv'[d].list) <=> eventAt'[u] \in Waiting /\ on'[u] = d
  <2>1. CASE d = e
    BY <1>2, <1>3, <1>4, <2>1 DEF Listed
  <2>2. CASE d # e
    BY <1>3, <1>4, <1>5, <2>2 DEF Listed
  <2> QED BY <2>1, <2>2
<1> QED BY <1>3, <1>6 DEF Listed

\* A wait ends.
LEMMA LeaveLists ==
  ASSUME EventType, Listed, NEW t \in Tasks, eventAt[t] \in Waiting, Go(t, "out", AnyEvent),
         cv' = [cv EXCEPT ![on[t]] = Leave(@, t)]
  PROVE  /\ cv' \in [Events -> WaitLists(Tasks)] /\ Listed'
         /\ \A d \in Events : d # on[t] => cv'[d] = cv[d]
         /\ Range(cv'[on[t]].list) = Range(cv[on[t]].list) \ {t}
         /\ cv'[on[t]].woken = cv[on[t]].woken \ {t}
<1> DEFINE e == on[t]
<1>1. /\ e \in Events /\ cv[e] \in WaitLists(Tasks) /\ IsInjective(cv[e].list)
      /\ t \in Range(cv[e].list)
  BY DEF EventType, Listed
<1>2. /\ Leave(cv[e], t) \in WaitLists(Tasks)
      /\ Leave(cv[e], t).woken = cv[e].woken \ {t}
      /\ IsInjective(Leave(cv[e], t).list)
      /\ Range(Leave(cv[e], t).list) = Range(cv[e].list) \ {t}
  BY <1>1, LeaveWaiters
<1>3. /\ cv' \in [Events -> WaitLists(Tasks)] /\ cv'[e] = Leave(cv[e], t)
      /\ \A d \in Events : d # e => cv'[d] = cv[d]
  BY <1>1, <1>2 DEF EventType
<1>4. /\ eventAt'[t] \notin Waiting
      /\ \A u \in Tasks : u # t => eventAt'[u] = eventAt[u] /\ on'[u] = on[u]
  BY GoEffect DEF Waiting, EventPlaces, Events
<1> HIDE DEF e
<1>6. ASSUME NEW d \in Events
      PROVE  /\ IsInjective(cv'[d].list) /\ cv'[d].woken \subseteq Range(cv'[d].list)
             /\ \A u \in Tasks : u \in Range(cv'[d].list) <=> eventAt'[u] \in Waiting /\ on'[u] = d
  <2>1. CASE d = e
    BY <1>2, <1>3, <1>4, <2>1 DEF Listed
  <2>2. CASE d # e
    <3>1. t \notin Range(cv[d].list)
      BY <2>2 DEF Listed, e
    <3> QED BY <1>3, <1>4, <2>2, <3>1 DEF Listed
  <2> QED BY <2>1, <2>2
<1>7. Listed'
  BY <1>6 DEF Listed
<1> QED BY <1>2, <1>3, <1>7 DEF e
-----------------------------------------------------------------------------
(* The steps keep the invariant.                                           *)

LEMMA InitEventInv == EventInit => EventInv
<1> SUFFICES ASSUME EventInit PROVE EventInv
  OBVIOUS
<1>1. /\ NoWaiters \in WaitLists(Tasks) /\ IsInjective(NoWaiters.list)
      /\ Range(NoWaiters.list) = {} /\ NoWaiters.woken = {}
  BY DEF NoWaiters, WaitLists, IsInjective, Range
<1>2. EventType
  BY <1>1 DEF EventInit, EventType, EventPlaces, Events
<1>3. Listed
  BY <1>1 DEF EventInit, Listed, Waiting
<1>4. \A e \in Events : ~signalled[e] /\ sets[e] = 0 /\ gets[e] = 0
  BY DEF EventInit
<1>5. Held
  BY DEF EventInit, Held
<1>6. SetBefore /\ Delivered /\ OnePerSet /\ AnySignalled
  BY <1>4 DEF SetBefore, Delivered, OnePerSet, AnySignalled, Events
<1> QED BY <1>2, <1>3, <1>5, <1>6 DEF EventInv

\* signal() breaks no promise of the event or of another one.
LEMMA SetKeeps ==
  ASSUME EventType, Listed, SetBefore, Delivered, OnePerSet, NEW e \in Events,
         SetUnlessSignalled(e), UNCHANGED <<mode, gets, gaveUp>>
  PROVE  SetBefore' /\ Delivered' /\ OnePerSet' /\ sets'[e] > 0
<1>1. \A d \in Events : sets[d] \in Nat /\ gets[d] \in Nat
  BY DEF EventType
<1>2. ASSUME NEW d \in Events, d # e \/ signalled[e]
      PROVE  signalled'[d] = signalled[d] /\ sets'[d] = sets[d] /\ cv'[d] = cv[d]
  BY <1>2, SetEffect
<1>3. ~signalled[e] => signalled'[e] /\ sets'[e] = sets[e] + 1
  BY SetEffect
<1>4. sets'[e] > 0
  BY <1>1, <1>2, <1>3 DEF SetBefore
<1>5. SetBefore'
  BY <1>2, <1>4 DEF SetBefore
<1>6. Delivered'
  BY <1>2, SetEffect DEF Delivered
<1>7. OnePerSet'
  <2>1. ASSUME NEW d \in Events, mode[d] = "Auto"
        PROVE  gets[d] + (IF signalled'[d] THEN 1 ELSE 0) <= sets'[d]
    BY <1>1, <1>2, <1>3, <2>1 DEF OnePerSet
  <2> QED BY <2>1 DEF OnePerSet
<1> QED BY <1>4, <1>5, <1>6, <1>7

LEMMA KeepSignal ==
  ASSUME EventInv, NEW t \in Tasks, NEW e \in Events, Signal(t, e)
  PROVE  EventInv'
<1> USE DEF EventInv
<1>1. SetUnlessSignalled(e) /\ eventAt[t] = "out" /\ mutexes[e] = NoTask
  BY DEF Signal, Call
<1>2. /\ mode' = mode /\ deps' = deps /\ members' = members /\ gets' = gets /\ gaveUp' = gaveUp
  BY DEF Signal
<1>3. /\ eventAt' \in [Tasks -> EventPlaces] /\ on' \in [Tasks -> Events]
      /\ mutexes' \in [Events -> Tasks \cup {NoTask}]
      /\ \A u \in Tasks : u # t => eventAt'[u] = eventAt[u] /\ on'[u] = on[u]
      /\ \A d \in Events : d # e => mutexes'[d] = mutexes[d]
      /\ \/ eventAt'[t] = "out" /\ on'[t] = on[t] /\ mutexes'[e] = NoTask
            /\ (signalled[e] \/ e \notin Sources \/ ~deps[e])
         \/ eventAt'[t] = "deps" /\ on'[t] = e /\ mutexes'[e] = t /\ e \in Sources
  <2>1. CASE ~signalled[e] /\ e \in Sources /\ deps[e]
    <3>1. Go(t, "deps", e) /\ mutexes' = [mutexes EXCEPT ![e] = t] /\ "deps" \in EventPlaces
      BY <2>1 DEF Signal, EventPlaces
    <3> QED BY <2>1, <3>1, GoEffect DEF EventType
  <2>2. CASE ~(~signalled[e] /\ e \in Sources /\ deps[e])
    BY Zenon, <1>1, <2>2 DEF Signal, EventType
  <2> QED BY <2>1, <2>2
<1>4. EventType'
  BY Zenon, <1>1, <1>2, <1>3, SetEffect DEF EventType
<1>5. Listed'
  <2>1. /\ \A u \in Tasks : eventAt'[u] \in Waiting <=> eventAt[u] \in Waiting
        /\ \A u \in Tasks : eventAt[u] \in Waiting => on'[u] = on[u]
    BY <1>1, <1>3 DEF Waiting
  <2> QED BY Zenon, <1>1, <2>1, SetEffect, ListsSame
<1>6. Held'
  BY <1>1, <1>3, EventAssumption DEF Held, EventType
<1>7. SetBefore' /\ Delivered' /\ OnePerSet'
  BY <1>1, <1>2, SetKeeps
<1>8. AnySignalled'
  <2> SUFFICES ASSUME NEW d \in Sources, deps'[d], signalled'[d], mutexes'[d] = NoTask
               PROVE  sets'[AnyEvent] > 0
    BY DEF AnySignalled
  <2>1. sets'[AnyEvent] >= sets[AnyEvent] /\ sets[AnyEvent] \in Nat /\ sets'[AnyEvent] \in Nat
    BY SMTT(60), <1>1, SetEffect DEF EventType, Events
  <2>2. t # NoTask
    BY EventAssumption
  <2>3. deps[d] /\ signalled[d] /\ mutexes[d] = NoTask
    <3>1. CASE d # e
      BY SMTT(60), <1>1, <1>2, <1>3, <3>1, SetEffect DEF Events
    <3>2. CASE d = e
      BY <1>1, <1>2, <1>3, <2>2, <3>2
    <3> QED BY <3>1, <3>2
  <2> QED BY <2>1, <2>3 DEF AnySignalled
<1> QED BY <1>4, <1>5, <1>6, <1>7, <1>8

LEMMA KeepSignalDep ==
  ASSUME EventInv, NEW t \in Tasks, SignalDep(t)
  PROVE  EventInv'
<1> USE DEF EventInv
<1>1. SetUnlessSignalled(AnyEvent) /\ eventAt[t] = "deps" /\ AnyEvent \in Events
  BY DEF SignalDep, Events
<1>2. /\ mode' = mode /\ deps' = deps /\ members' = members /\ gets' = gets /\ gaveUp' = gaveUp
      /\ mutexes' = [mutexes EXCEPT ![on[t]] = NoTask]
  BY DEF SignalDep
<1>3. /\ eventAt' \in [Tasks -> EventPlaces] /\ on' \in [Tasks -> Events]
      /\ eventAt'[t] = "out"
      /\ \A u \in Tasks : u # t => eventAt'[u] = eventAt[u] /\ on'[u] = on[u]
  BY <1>1, GoEffect DEF SignalDep, EventPlaces
<1>4. EventType'
  BY Zenon, <1>1, <1>2, <1>3, SetEffect DEF EventType
<1>5. Listed'
  <2>1. /\ \A u \in Tasks : eventAt'[u] \in Waiting <=> eventAt[u] \in Waiting
        /\ \A u \in Tasks : eventAt[u] \in Waiting => on'[u] = on[u]
    BY <1>1, <1>3 DEF Waiting
  <2> QED BY <1>1, <2>1, SetEffect, ListsSame
<1>6. Held'
  BY <1>1, <1>2, <1>3, EventAssumption DEF Held, EventType
<1>7. SetBefore' /\ Delivered' /\ OnePerSet' /\ sets'[AnyEvent] > 0
  BY <1>1, <1>2, SetKeeps
<1>8. AnySignalled'
  BY <1>7 DEF AnySignalled
<1> QED BY <1>4, <1>5, <1>6, <1>7, <1>8

\* wait() and test() when they take the signal: what they do to the event.
LEMMA TakeEffect ==
  ASSUME EventType, SetBefore, OnePerSet, NEW e \in Events, signalled[e], Take(e),
         sets' = sets, mode' = mode
  PROVE  /\ signalled' \in [Events -> BOOLEAN] /\ gets' \in [Events -> Nat]
         /\ \A d \in Events : signalled'[d] => signalled[d]
         /\ signalled'[e] => mode[e] = "Manual"
         /\ SetBefore' /\ OnePerSet'
<1>1. /\ signalled' \in [Events -> BOOLEAN] /\ gets' \in [Events -> Nat]
      /\ \A d \in Events : d # e => signalled'[d] = signalled[d] /\ gets'[d] = gets[d]
      /\ signalled'[e] = (mode[e] = "Manual") /\ gets'[e] = gets[e] + 1
  BY DEF Take, EventType
<1>2. \A d \in Events : signalled'[d] => signalled[d]
  BY <1>1
<1>3. SetBefore'
  BY <1>2 DEF SetBefore
<1>4. OnePerSet'
  BY <1>1 DEF OnePerSet, EventType
<1> QED BY <1>1, <1>2, <1>3, <1>4

\* The lists and the waits are as they were, and no event has become signalled.
LEMMA KeepLists ==
  ASSUME EventInv, cv' = cv, eventAt' = eventAt, on' = on, mutexes' = mutexes, deps' = deps,
         mode' = mode, sets' = sets, gaveUp' = gaveUp,
         \A d \in Events : signalled'[d] => signalled[d]
  PROVE  Listed' /\ Held' /\ Delivered' /\ AnySignalled'
<1> USE DEF EventInv
<1>1. Listed' /\ Held'
  BY DEF Listed, Held
<1>2. Delivered'
  BY DEF Delivered
<1>3. AnySignalled'
  BY DEF AnySignalled, Events
<1> QED BY <1>1, <1>2, <1>3

LEMMA KeepClear ==
  ASSUME EventInv, NEW t \in Tasks, NEW e \in Events, Clear(t, e)
  PROVE  EventInv'
<1> USE DEF EventInv
<1>1. /\ signalled' \in [Events -> BOOLEAN]
      /\ \A d \in Events : signalled'[d] => signalled[d]
  BY DEF Clear, EventType
<1>2. EventType'
  BY <1>1 DEF Clear, EventType
<1>3. SetBefore' /\ OnePerSet'
  BY <1>1 DEF Clear, SetBefore, OnePerSet, EventType
<1>4. Listed' /\ Held' /\ Delivered' /\ AnySignalled'
  BY <1>1, KeepLists DEF Clear
<1> QED BY <1>2, <1>3, <1>4

LEMMA KeepTest ==
  ASSUME EventInv, NEW t \in Tasks, NEW e \in Events,
         IF signalled[e] THEN Take(e) ELSE UNCHANGED <<signalled, gets>>,
         UNCHANGED <<mode, deps, mutexes, cv, eventAt, on, members, sets, gaveUp>>
  PROVE  EventInv'
<1> USE DEF EventInv
<1>1. /\ signalled' \in [Events -> BOOLEAN] /\ gets' \in [Events -> Nat]
      /\ \A d \in Events : signalled'[d] => signalled[d]
      /\ SetBefore' /\ OnePerSet'
  <2>1. CASE signalled[e]
    BY <2>1, TakeEffect
  <2>2. CASE ~signalled[e]
    BY <2>2 DEF EventType, SetBefore, OnePerSet
  <2> QED BY <2>1, <2>2
<1>2. EventType'
  BY <1>1 DEF EventType
<1>3. Listed' /\ Held' /\ Delivered' /\ AnySignalled'
  BY <1>1, KeepLists
<1> QED BY <1>1, <1>2, <1>3

\* A task that holds no mutex, before or after, goes somewhere.
LEMMA KeepHeld ==
  ASSUME EventType, Held, NEW t \in Tasks, eventAt[t] # "deps", NEW place \in EventPlaces,
         place # "deps", NEW e \in Events, Go(t, place, e), mutexes' = mutexes
  PROVE  Held'
<1>1. /\ eventAt'[t] = place /\ on'[t] = e
      /\ \A u \in Tasks : u # t => eventAt'[u] = eventAt[u] /\ on'[u] = on[u]
  BY Zenon, GoEffect
<1>2. ASSUME NEW u \in Tasks, eventAt'[u] = "deps" PROVE on'[u] \in Sources /\ mutexes'[on'[u]] = u
  BY Zenon, <1>1, <1>2 DEF Held
<1>3. ASSUME NEW d \in Events, mutexes'[d] # NoTask
      PROVE  eventAt'[mutexes'[d]] = "deps" /\ on'[mutexes'[d]] = d
  <2>1. mutexes[d] \in Tasks /\ eventAt[mutexes[d]] = "deps" /\ on[mutexes[d]] = d
    BY <1>3 DEF Held, EventType
  <2> QED BY Zenon, <1>1, <2>1
<1> QED BY Zenon, <1>2, <1>3 DEF Held

LEMMA KeepWait ==
  ASSUME EventInv, NEW t \in Tasks, NEW e \in Events, NEW place \in Waiting,
         EventWait(t, e, place)
  PROVE  EventInv'
<1> USE DEF EventInv
<1>1. CASE signalled[e]
  BY <1>1, KeepTest DEF EventWait
<1>2. CASE ~signalled[e]
  <2>1. /\ eventAt[t] = "out" /\ cv' = [cv EXCEPT ![e] = Join(@, t)] /\ Go(t, place, e)
        /\ signalled' = signalled /\ gets' = gets /\ mode' = mode /\ deps' = deps
        /\ mutexes' = mutexes /\ members' = members /\ sets' = sets /\ gaveUp' = gaveUp
    BY <1>2 DEF EventWait, Call
  <2>2. place \in EventPlaces /\ place # "deps" /\ eventAt[t] # "deps"
    BY <2>1 DEF Waiting, EventPlaces
  <2>3. cv' \in [Events -> WaitLists(Tasks)] /\ Listed'
    BY Zenon, <2>1, BeginWaitLists
  <2>4. EventType'
    BY <2>1, <2>2, <2>3, GoEffect DEF EventType
  <2>5. Held'
    BY <2>1, <2>2, KeepHeld
  <2>6. SetBefore' /\ OnePerSet' /\ AnySignalled'
    BY ZenonT(60), <2>1 DEF SetBefore, OnePerSet, AnySignalled
  <2>7. Delivered'
    <3>1. \A d \in Events : d # e => cv'[d] = cv[d]
      BY Zenon, <2>1 DEF EventType
    <3> QED BY Zenon, <1>2, <2>1, <3>1 DEF Delivered
  <2> QED BY <2>3, <2>4, <2>5, <2>6, <2>7
<1> QED BY <1>1, <1>2

LEMMA KeepWake ==
  ASSUME EventInv, NEW t \in Tasks, EventWake(t)
  PROVE  EventInv'
<1> USE DEF EventInv
<1> DEFINE e == on[t]
<1>1. /\ e \in Events /\ eventAt[t] \in Waiting /\ eventAt[t] # "deps" /\ mode' = mode
      /\ deps' = deps /\ mutexes' = mutexes /\ members' = members /\ sets' = sets
      /\ gaveUp' = gaveUp
  BY Zenon DEF EventWake, Waiting, EventType
<1>2. CASE signalled[e]
  <2>1. Take(e) /\ cv' = [cv EXCEPT ![e] = Leave(@, t)] /\ Go(t, "out", AnyEvent)
    BY <1>2 DEF EventWake
  <2>2. /\ signalled' \in [Events -> BOOLEAN] /\ gets' \in [Events -> Nat]
        /\ \A d \in Events : signalled'[d] => signalled[d]
        /\ signalled'[e] => mode[e] = "Manual"
        /\ SetBefore' /\ OnePerSet'
    BY <1>1, <1>2, <2>1, TakeEffect
  <2>3. /\ cv' \in [Events -> WaitLists(Tasks)] /\ Listed'
        /\ \A d \in Events : d # e => cv'[d] = cv[d]
        /\ Range(cv'[e].list) = Range(cv[e].list) \ {t}
        /\ cv'[e].woken = cv[e].woken \ {t}
    BY Zenon, <1>1, <2>1, LeaveLists
  <2>4. "out" \in EventPlaces /\ AnyEvent \in Events
    BY DEF EventPlaces, Events
  <2>5. EventType'
    BY Zenon, <1>1, <2>1, <2>2, <2>3, <2>4, GoEffect DEF EventType
  <2>6. Held'
    BY Zenon, <1>1, <2>1, <2>4, KeepHeld
  <2>7. Delivered'
    <3> SUFFICES ASSUME NEW d \in Events, signalled'[d]
                 PROVE  IF mode'[d] = "Manual" THEN Range(cv'[d].list) \subseteq cv'[d].woken
                        ELSE cv'[d].list = <<>> \/ cv'[d].woken # {} \/ d \in gaveUp'
      BY Zenon DEF Delivered
    <3>1. CASE d = e
      BY Zenon, <1>1, <1>2, <2>2, <2>3, <3>1 DEF Delivered
    <3>2. CASE d # e
      BY Zenon, <1>1, <2>2, <2>3, <3>2 DEF Delivered
    <3> QED BY <3>1, <3>2
  <2>8. AnySignalled'
    BY Zenon, <1>1, <2>2 DEF AnySignalled, Events
  <2> QED BY <2>2, <2>3, <2>5, <2>6, <2>7, <2>8
<1>3. CASE ~signalled[e]
  <2>1. /\ cv' = [cv EXCEPT ![e] = Resuspend(@, t)]
        /\ signalled' = signalled /\ gets' = gets /\ eventAt' = eventAt /\ on' = on
    BY <1>3 DEF EventWake
  <2>2. /\ Resuspend(cv[e], t) \in WaitLists(Tasks)
        /\ Resuspend(cv[e], t).list = cv[e].list
        /\ Resuspend(cv[e], t).woken = cv[e].woken \ {t}
    <3>1. cv[e] \in WaitLists(Tasks)
      BY <1>1 DEF EventType
    <3> HIDE DEF e, EventInv
    <3> QED BY <3>1 DEF Resuspend, WaitLists
  <2>3. /\ cv' \in [Events -> WaitLists(Tasks)] /\ cv'[e] = Resuspend(cv[e], t)
        /\ \A d \in Events : d # e => cv'[d] = cv[d]
    BY <1>1, <2>1, <2>2 DEF EventType
  <2>4. EventType'
    BY <1>1, <2>1, <2>3 DEF EventType
  <2>5. Listed'
    <3>1. \A d \in Events :
            cv'[d].list = cv[d].list /\ cv'[d].woken \subseteq Range(cv[d].list)
      BY ZenonT(60), <2>2, <2>3 DEF Listed
    <3> QED BY Zenon, <2>1, <3>1, ListsSame
  <2>6. Held' /\ SetBefore' /\ OnePerSet' /\ AnySignalled'
    BY Zenon, <1>1, <2>1 DEF Held, SetBefore, OnePerSet, AnySignalled
  <2>7. Delivered'
    BY Zenon, <1>1, <1>3, <2>1, <2>3 DEF Delivered
  <2> QED BY <2>4, <2>5, <2>6, <2>7
<1> QED BY <1>2, <1>3

LEMMA KeepTimeOut ==
  ASSUME EventInv, NEW t \in Tasks, TimeOut(t)
  PROVE  EventInv'
<1> USE DEF EventInv
<1> DEFINE e == on[t]
<1>1. /\ e \in Events /\ eventAt[t] \in Waiting /\ eventAt[t] # "deps" /\ mode' = mode
      /\ deps' = deps /\ mutexes' = mutexes /\ members' = members /\ sets' = sets
      /\ gaveUp' = gaveUp \cup {e}
      /\ signalled' = signalled /\ gets' = gets
      /\ cv' = [cv EXCEPT ![e] = Leave(@, t)] /\ Go(t, "out", AnyEvent)
  BY DEF TimeOut, Waiting, EventType
<1>2. /\ cv' \in [Events -> WaitLists(Tasks)] /\ Listed'
      /\ \A d \in Events : d # e => cv'[d] = cv[d]
      /\ Range(cv'[e].list) = Range(cv[e].list) \ {t}
      /\ cv'[e].woken = cv[e].woken \ {t}
  BY Zenon, <1>1, LeaveLists
<1>3. "out" \in EventPlaces /\ AnyEvent \in Events
  BY DEF EventPlaces, Events
<1>4. EventType'
  BY Zenon, <1>1, <1>2, <1>3, GoEffect DEF EventType
<1>5. Held'
  BY Zenon, <1>1, <1>3, KeepHeld
<1>6. Delivered'
  <2> SUFFICES ASSUME NEW d \in Events, signalled'[d]
               PROVE  IF mode'[d] = "Manual" THEN Range(cv'[d].list) \subseteq cv'[d].woken
                      ELSE cv'[d].list = <<>> \/ cv'[d].woken # {} \/ d \in gaveUp'
    BY DEF Delivered
  <2>1. CASE d = e
    BY Zenon, <1>1, <1>2, <2>1 DEF Delivered
  <2>2. CASE d # e
    BY Zenon, <1>1, <1>2, <2>2 DEF Delivered
  <2> QED BY <2>1, <2>2
<1>7. SetBefore' /\ OnePerSet' /\ AnySignalled'
  BY Zenon, <1>1 DEF SetBefore, OnePerSet, AnySignalled
<1> QED BY Zenon, <1>2, <1>4, <1>5, <1>6, <1>7

LEMMA KeepCallAny ==
  ASSUME EventInv, NEW t \in Tasks, CallAny(t)
  PROVE  EventInv'
<1> USE DEF EventInv
<1>1. /\ eventAt[t] = "out" /\ Go(t, "any", AnyEvent) /\ AnyEvent \in Events
      /\ "any" \in EventPlaces
      /\ UNCHANGED <<mode, signalled, deps, mutexes, cv, members, sets, gets, gaveUp>>
  BY DEF CallAny, Events, EventPlaces
<1>2. EventType'
  BY <1>1, GoEffect DEF EventType
<1>3. Listed'
  <2>1. /\ \A u \in Tasks : eventAt'[u] \in Waiting <=> eventAt[u] \in Waiting
        /\ \A u \in Tasks : eventAt[u] \in Waiting => on'[u] = on[u]
    BY <1>1, GoEffect DEF Waiting
  <2>2. \A d \in Events : cv'[d].list = cv[d].list /\ cv'[d].woken \subseteq Range(cv[d].list)
    BY <1>1 DEF Listed
  <2> QED BY <2>1, <2>2, ListsSame
<1>4. Held'
  BY <1>1, KeepHeld
<1>5. SetBefore' /\ Delivered' /\ OnePerSet' /\ AnySignalled'
  BY <1>1 DEF SetBefore, Delivered, OnePerSet, AnySignalled
<1> QED BY <1>2, <1>3, <1>4, <1>5

LEMMA KeepAddMember ==
  ASSUME EventInv, NEW t \in Tasks, NEW e \in Sources, AddMember(t, e)
  PROVE  EventInv'
<1> USE DEF EventInv
<1>1. /\ eventAt[t] = "any" /\ mutexes[e] = NoTask /\ AnyEvent \in Events /\ e \in Events
      /\ e # AnyEvent /\ members' = members \ {e} /\ deps' = [deps EXCEPT ![e] = TRUE]
      /\ UNCHANGED <<mode, mutexes, gets, gaveUp>>
  BY Zenon, EventAssumption DEF AddMember, Events
<1>2. /\ eventAt' \in [Tasks -> EventPlaces] /\ on' \in [Tasks -> Events]
      /\ eventAt'[t] \in {"any", "out"}
      /\ \A u \in Tasks : u # t => eventAt'[u] = eventAt[u] /\ on'[u] = on[u]
  <2>1. CASE members = {e}
    BY Zenon, <1>1, <2>1, GoEffect DEF AddMember, EventPlaces
  <2>2. CASE members # {e}
    BY Zenon, <1>1, <2>2 DEF AddMember, EventType
  <2> QED BY <2>1, <2>2
<1>3. /\ \A u \in Tasks : eventAt'[u] \in Waiting <=> eventAt[u] \in Waiting
      /\ \A u \in Tasks : eventAt[u] \in Waiting => on'[u] = on[u]
  BY Zenon, <1>1, <1>2 DEF Waiting
<1>4. Held'
  BY <1>1, <1>2, EventAssumption DEF Held, EventType
<1>5. CASE signalled[e]
  <2>1. SetUnlessSignalled(AnyEvent)
    BY <1>5 DEF AddMember
  <2>2. EventType'
    BY Zenon, <1>1, <1>2, <2>1, SetEffect DEF EventType
  <2>3. Listed'
    BY Zenon, <1>1, <1>3, <2>1, SetEffect, ListsSame
  <2>4. SetBefore' /\ Delivered' /\ OnePerSet' /\ sets'[AnyEvent] > 0
    BY <1>1, <2>1, SetKeeps
  <2>5. AnySignalled'
    BY <2>4 DEF AnySignalled
  <2> QED BY <1>4, <2>2, <2>3, <2>4, <2>5
<1>6. CASE ~signalled[e]
  <2>1. UNCHANGED <<signalled, sets, cv>>
    BY <1>6 DEF AddMember
  <2>2. EventType'
    BY <1>1, <1>2, <2>1 DEF EventType
  <2>3. Listed'
    <3>1. \A d \in Events : cv'[d].list = cv[d].list /\ cv'[d].woken \subseteq Range(cv[d].list)
      BY ZenonT(60), <2>1 DEF Listed
    <3> QED BY Zenon, <1>3, <3>1, ListsSame
  <2>4. SetBefore' /\ Delivered' /\ OnePerSet'
    BY <1>1, <2>1 DEF SetBefore, Delivered, OnePerSet
  <2>5. AnySignalled'
    BY <1>1, <1>6, <2>1 DEF AnySignalled, EventType
  <2> QED BY <1>4, <2>2, <2>3, <2>4, <2>5
<1> QED BY <1>5, <1>6

LEMMA NextEventInv == EventInv /\ [EventNext]_eventVars => EventInv'
<1> SUFFICES ASSUME EventInv, [EventNext]_eventVars PROVE EventInv'
  OBVIOUS
<1>1. CASE UNCHANGED eventVars
  BY Zenon, <1>1 DEF eventVars, EventInv, EventType, Listed, Held, SetBefore, Delivered, OnePerSet,
                       AnySignalled
<1>2. ASSUME NEW t \in Tasks, EventStep(t) PROVE EventInv'
  <2>1. ASSUME NEW e \in Events, Test(t, e) PROVE EventInv'
    BY <2>1, KeepTest DEF Test
  <2>2. ASSUME NEW e \in Events, NEW place \in {"wait", "waitUntil"}, EventWait(t, e, place)
        PROVE  EventInv'
    BY <2>2, KeepWait DEF Waiting
  <2> QED BY <1>2, <2>1, <2>2, KeepSignal, KeepSignalDep, KeepClear, KeepWake, KeepTimeOut,
             KeepCallAny, KeepAddMember DEF EventStep
<1> QED BY <1>1, <1>2 DEF EventNext

LEMMA EventInvDelivers == EventInv => EventDelivers
BY DEF EventInv, Delivered, OnePerSet, AnySignalled, EventDelivers
-----------------------------------------------------------------------------
\* A signal reaches the waiters the mode says, an Auto event lets one caller through
\* per signal, and any() misses no source, for any number of tasks and events in any
\* interleaving of their operations (signal(), clear(), wait(), wait_until(), test(),
\* any()).
THEOREM EventsDeliver == EventSpec => []EventDelivers
<1>1. EventInv /\ [EventNext]_eventVars => EventInv'
  BY NextEventInv
<1> QED BY <1>1, InitEventInv, EventInvDelivers, PTL DEF EventSpec
=============================================================================
