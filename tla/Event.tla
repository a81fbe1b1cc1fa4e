------------------------------- MODULE Event -------------------------------
(* Event: signal(), clear(), wait(), wait_until(), test() and any().  Every  *)
(* operation is one critical section of the event's mutex, but for signal(), *)
(* which signals the dependent events with its own mutex held.               *)
EXTENDS WaitList, Integers

CONSTANTS
  Tasks,      \* tasks that use the events
  Sources,    \* events the tasks share; all of them are given to any()
  AnyEvent,   \* the event any() makes; it has no dependents itself
  MaxOps,     \* bound on the operations called
  NoTask      \* nobody holds a mutex

Events == Sources \cup {AnyEvent}

ASSUME EventAssumption == NoTask \notin Tasks /\ AnyEvent \notin Sources

VARIABLES
  mode, signalled,  \* of each event
  deps,             \* does AnyEvent depend on the event?
  mutexes, cv,      \* of each event; the mutex is held across steps by signal() only
  eventAt, on,      \* where each task is, and the event it calls
  members,          \* sources any() has yet to go through; {} once it returned
  anyCalled, ops,
  sets, gets,       \* how often each event was set, and a wait or test took it
  gaveUp            \* events a wait_until() returned false for

eventVars == <<mode, signalled, deps, mutexes, cv, eventAt, on, members, anyCalled, ops, sets,
               gets, gaveUp>>

\* An event that is made signalled is one that is signalled at once.
EventInit ==
  /\ mode \in [Events -> {"Auto", "Manual"}] /\ signalled = [e \in Events |-> FALSE]
  /\ deps = [e \in Sources |-> FALSE]
  /\ mutexes = [e \in Events |-> NoTask] /\ cv = [e \in Events |-> NoWaiters]
  /\ eventAt = [t \in Tasks |-> "out"] /\ on = [t \in Tasks |-> AnyEvent]
  /\ members = Sources /\ anyCalled = FALSE /\ ops = 0
  /\ sets = [e \in Events |-> 0] /\ gets = [e \in Events |-> 0] /\ gaveUp = {}

Go(t, place, e) == eventAt' = [eventAt EXCEPT ![t] = place] /\ on' = [on EXCEPT ![t] = e]

\* A task calls an operation on an event it has: AnyEvent once any() returned.
Call(t, e) ==
  /\ eventAt[t] = "out" /\ mutexes[e] = NoTask /\ ops < MaxOps /\ ops' = ops + 1
  /\ e = AnyEvent => members = {}

\* The body of Shared::signal() after the early return: set and notify.
Set(e) ==
  /\ signalled' = [signalled EXCEPT ![e] = TRUE]
  /\ sets' = [sets EXCEPT ![e] = @ + 1]
  /\ cv' = [cv EXCEPT ![e] = IF mode[e] = "Auto" THEN NotifyOne(@) ELSE NotifyAll(@)]
SetUnlessSignalled(e) == IF signalled[e] THEN UNCHANGED <<signalled, sets, cv>> ELSE Set(e)

Signal(t, e) ==
  /\ Call(t, e) /\ SetUnlessSignalled(e)
  /\ IF ~signalled[e] /\ e \in Sources /\ deps[e]
     THEN mutexes' = [mutexes EXCEPT ![e] = t] /\ Go(t, "deps", e)
     ELSE UNCHANGED <<mutexes, eventAt, on>>
  /\ UNCHANGED <<mode, deps, members, anyCalled, gets, gaveUp>>

\* for (auto dep : deps) dep->signal(), and unlock.
SignalDep(t) ==
  /\ eventAt[t] = "deps" /\ SetUnlessSignalled(AnyEvent)
  /\ mutexes' = [mutexes EXCEPT ![on[t]] = NoTask] /\ Go(t, "out", AnyEvent)
  /\ UNCHANGED <<mode, deps, members, anyCalled, ops, gets, gaveUp>>

Clear(t, e) ==
  /\ Call(t, e) /\ signalled' = [signalled EXCEPT ![e] = FALSE]
  /\ UNCHANGED <<mode, deps, mutexes, cv, eventAt, on, members, anyCalled, sets, gets, gaveUp>>

\* A wait() or test() that succeeds: an Auto event is unsignalled.
Take(e) ==
  /\ signalled' = [signalled EXCEPT ![e] = mode[e] = "Manual"]
  /\ gets' = [gets EXCEPT ![e] = @ + 1]

Test(t, e) ==
  /\ Call(t, e)
  /\ IF signalled[e] THEN Take(e) ELSE UNCHANGED <<signalled, gets>>
  /\ UNCHANGED <<mode, deps, mutexes, cv, eventAt, on, members, anyCalled, sets, gaveUp>>

\* wait() and wait_for(), wait_until(): place says which of them.
EventWait(t, e, place) ==
  /\ Call(t, e)
  /\ IF signalled[e] THEN Take(e) /\ UNCHANGED <<cv, eventAt, on>>
     ELSE cv' = [cv EXCEPT ![e] = Join(@, t)] /\ Go(t, place, e) /\ UNCHANGED <<signalled, gets>>
  /\ UNCHANGED <<mode, deps, mutexes, members, anyCalled, sets, gaveUp>>

EventWake(t) ==
  LET e == on[t]
  IN  /\ eventAt[t] \in {"wait", "waitUntil"} /\ t \in cv[e].woken /\ mutexes[e] = NoTask
      /\ IF signalled[e]
         THEN Take(e) /\ cv' = [cv EXCEPT ![e] = Leave(@, t)] /\ Go(t, "out", AnyEvent)
         ELSE cv' = [cv EXCEPT ![e] = Resuspend(@, t)] /\ UNCHANGED <<signalled, gets, eventAt, on>>
      /\ UNCHANGED <<mode, deps, mutexes, members, anyCalled, ops, sets, gaveUp>>

\* The time point has passed when the fiber runs: false, whatever signalled is.
TimeOut(t) ==
  LET e == on[t]
  IN  /\ eventAt[t] = "waitUntil" /\ mutexes[e] = NoTask /\ gaveUp' = gaveUp \cup {e}
      /\ cv' = [cv EXCEPT ![e] = Leave(@, t)] /\ Go(t, "out", AnyEvent)
      /\ UNCHANGED <<mode, signalled, deps, mutexes, members, anyCalled, ops, sets, gets>>
-----------------------------------------------------------------------------
(* any()                                                                   *)

CallAny(t) ==
  /\ eventAt[t] = "out" /\ ~anyCalled /\ anyCalled' = TRUE /\ Go(t, "any", AnyEvent)
  /\ UNCHANGED <<mode, signalled, deps, mutexes, cv, members, ops, sets, gets, gaveUp>>

\* Mutant: an event that is signalled already is only registered with.
AddMemberOnly(t, e) ==
  /\ eventAt[t] = "any" /\ e \in members /\ mutexes[e] = NoTask
  /\ deps' = [deps EXCEPT ![e] = TRUE] /\ members' = members \ {e}
  /\ IF members = {e} THEN Go(t, "out", AnyEvent) ELSE UNCHANGED <<eventAt, on>>
  /\ UNCHANGED <<mode, signalled, mutexes, cv, anyCalled, ops, sets, gets, gaveUp>>

\* With the mutex of the next source held.
AddMember(t, e) ==
  /\ eventAt[t] = "any" /\ e \in members /\ mutexes[e] = NoTask
  /\ IF signalled[e] THEN SetUnlessSignalled(AnyEvent) ELSE UNCHANGED <<signalled, sets, cv>>
  /\ deps' = [deps EXCEPT ![e] = TRUE] /\ members' = members \ {e}
  /\ IF members = {e} THEN Go(t, "out", AnyEvent) ELSE UNCHANGED <<eventAt, on>>
  /\ UNCHANGED <<mode, mutexes, anyCalled, ops, gets, gaveUp>>

EventStep(t) ==
  \/ \E e \in Events : \/ Signal(t, e) \/ Clear(t, e) \/ Test(t, e)
                       \/ \E place \in {"wait", "waitUntil"} : EventWait(t, e, place)
  \/ SignalDep(t) \/ EventWake(t) \/ TimeOut(t) \/ CallAny(t)
  \/ \E e \in Sources : AddMember(t, e)

EventNext == \E t \in Tasks : EventStep(t)
EventSpec == EventInit /\ [][EventNext]_eventVars
-----------------------------------------------------------------------------
(* Properties.                                                             *)

\* A signal reaches whom the mode says, and nobody else.  While a Manual event is
\* signalled all its waiters are awake; while an Auto event is, one of them is,
\* unless the notification may have gone to a wait that timed out.  An Auto event
\* lets at most one wait() or test() through per signal.  An event made by any()
\* has been signalled if a source is signalled, whether it was before any() came
\* to it or has been since (signal(), wait() and any()).
EventDelivers ==
  /\ \A e \in Events : signalled[e] =>
       IF mode[e] = "Manual" THEN Range(cv[e].list) \subseteq cv[e].woken
       ELSE cv[e].list = <<>> \/ cv[e].woken # {} \/ e \in gaveUp
  /\ \A e \in Events : mode[e] = "Auto" =>
       gets[e] + (IF signalled[e] THEN 1 ELSE 0) <= sets[e]
  /\ \A e \in Sources : deps[e] /\ signalled[e] /\ mutexes[e] = NoTask => sets[AnyEvent] > 0

\* No call is left but waits on events that are not signalled, or whose
\* notification went to a wait that timed out.
EventsReturned ==
  \A t \in Tasks :
    eventAt[t] = "out" \/ (eventAt[t] = "wait" /\ (signalled[on[t]] => on[t] \in gaveUp))
=============================================================================
