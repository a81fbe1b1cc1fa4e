--------------------------- MODULE WaitingFibers ---------------------------
(***************************************************************************)
(* Scheduler::WaitingFibers (include/marl/scheduler.h, src/scheduler.cpp): *)
(* the fibers of one worker that are blocked with a timeout.  The class    *)
(* keeps the same information twice: `timeouts', a set ordered by (time    *)
(* point, fiber address), and `fibers', a map from fiber to time point.    *)
(* A value of this module is a record with these two fields; the methods   *)
(* that mutate the object are operators that return the new record.        *)
(***************************************************************************)
EXTENDS Integers

\* The object the constructor builds: both containers empty.
NoneWaiting == [timeouts |-> {}, fibers |-> [f \in {} |-> 0]]

\* operator bool(): is any fiber waiting?
IsWaiting(w) == DOMAIN w.fibers # {}

\* contains(fiber)
Contains(w, f) == f \in DOMAIN w.fibers

\* add(timeout, fiber).  Neither emplace() replaces an element that is there.
Add(w, timepoint, f) ==
  [timeouts |-> w.timeouts \cup {[timepoint |-> timepoint, fiber |-> f]},
   fibers   |-> [g \in DOMAIN w.fibers \cup {f} |->
                   IF g \in DOMAIN w.fibers THEN w.fibers[g] ELSE timepoint]]

\* Mutant: the entry of the ordered set stays.
EraseFromMapOnly(w, f) ==
  [w EXCEPT !.fibers = [g \in DOMAIN w.fibers \ {f} |-> w.fibers[g]]]

\* erase(fiber): a fiber that is not in the map is ignored; otherwise the
\* time point the map holds locates the entry of the ordered set.
Erase(w, f) ==
  IF ~Contains(w, f) THEN w ELSE
  [timeouts |-> w.timeouts \ {[timepoint |-> w.fibers[f], fiber |-> f]},
   fibers   |-> [g \in DOMAIN w.fibers \ {f} |-> w.fibers[g]]]

\* Timeout::operator<, the order of `timeouts'.  Ties are broken by the
\* address of the fiber, which the program does not control: either entry
\* may come first.
MayPrecede(a, b) == a.timepoint <= b.timepoint

\* The entries that may be timeouts.begin().
Begin(w) == {a \in w.timeouts : \A b \in w.timeouts : MayPrecede(a, b)}

\* next(): the earliest time point of a non-empty object.
NextTimeout(w) == (CHOOSE a \in w.timeouts : a \in Begin(w)).timepoint

\* take(now) returns a fiber: the object is not empty and the first entry has
\* expired.  Taken(w, a) is the object left when `a' is that entry.
Expired(w, now) == {a \in Begin(w) : IsWaiting(w) /\ a.timepoint <= now}
Taken(w, a) ==
  [timeouts |-> w.timeouts \ {a},
   fibers   |-> [g \in DOMAIN w.fibers \ {a.fiber} |-> w.fibers[g]]]

\* The assertions of take() and erase(), "maps out of sync": the two
\* containers hold the same fibers with the same time points.
InSync(w) ==
  w.timeouts = {[timepoint |-> w.fibers[f], fiber |-> f] : f \in DOMAIN w.fibers}
=============================================================================
