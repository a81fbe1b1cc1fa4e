------------------------------- MODULE Thread -------------------------------
(***************************************************************************)
(* Thread::Affinity, the cores a thread may run on, its policies, and      *)
(* Thread, the handle of a thread that is started with an affinity.  A     *)
(* core is a number, as Core::pthread.index; on Windows its low part is    *)
(* the processor group, the first member of Core::windows.                 *)
(***************************************************************************)
EXTENDS Integers, Sequences, SequencesExt

CONSTANTS Cores,      \* the cores of the machine
          Groups,     \* processor groups, 256 in the code
          Handles,    \* Thread objects
          MaxThreads, \* bound on the threads started
          MaxEdits,   \* bound on the calls of add() and remove()
          NoThread    \* Thread::impl is nullptr

VARIABLES os,         \* "Windows" or "Pthread"
          cores,      \* Affinity::cores
          wanted,     \* the cores added, and not removed
          edits,
          policy,     \* anyOf, oneOf, or none yet: the affinity is then fixed
          impl,       \* Thread::impl of each handle: the number of a thread
          affinity,   \* Impl::affinity of each thread
          running,    \* where each thread is: none, start, run, done
          pinned,     \* the cores the system lets it run on
          impls,      \* the Thread::Impl objects that have not been deleted
          moves       \* calls of operator=, at most one for each thread

vars == <<os, cores, wanted, edits, policy, impl, affinity, running, pinned, impls, moves>>

Group(core) == core % Groups
\* The affinities given to add(), remove() and the constructor: no core twice.
Lists == {s \in UNION {[1..n -> Cores] : n \in 0..3} : IsInjective(s)}
SortCores(s) == SortSeq(s, LAMBDA a, b : a < b)

\* Affinity::add(): what is not there yet, and all of it sorted.
Added(s, other) == SortCores(s \o SelectSeq(other, LAMBDA c : c \notin ToSet(s)))

(* The loop of Affinity::remove(): a core to be removed is replaced by the *)
(* last one, and the loop goes on with the core after it.                  *)
RECURSIVE RemoveFrom(_, _, _)
RemoveFrom(s, other, i) ==
  IF i > Len(s) THEN s
  ELSE IF s[i] \in ToSet(other)
       THEN RemoveFrom(Front([s EXCEPT ![i] = Last(s)]), other, i + 1)
       ELSE RemoveFrom(s, other, i + 1)
Removed(s, other) == SortCores(RemoveFrom(s, other, 1))

\* Policy::get() of anyOf() and of oneOf(); threads are numbered from 0.
AnyOf(id) ==
  IF cores = <<>> \/ os = "Pthread" THEN cores
  ELSE LET group == Group(cores[(id % Len(cores)) + 1])
       IN  SelectSeq(cores, LAMBDA c : Group(c) = group)
OneOf(id) == IF cores = <<>> THEN cores ELSE <<cores[(id % Len(cores)) + 1]>>
Get(id) == IF policy = "anyOf" THEN AnyOf(id) ELSE OneOf(id)

-----------------------------------------------------------------------------
\* Affinity(std::initializer_list<Core>) neither sorts nor compares.
Init ==
  /\ os \in {"Windows", "Pthread"}
  /\ cores \in Lists /\ wanted = ToSet(cores) /\ edits = 0 /\ policy = "none"
  /\ impl = [h \in Handles |-> NoThread]
  /\ affinity = <<>> /\ running = <<>> /\ pinned = <<>> /\ impls = {} /\ moves = 0

AddCores(other) ==
  /\ policy = "none" /\ edits < MaxEdits
  /\ cores' = Added(cores, other)
  /\ wanted' = wanted \cup ToSet(other)
  /\ edits' = edits + 1
  /\ UNCHANGED <<os, policy, impl, affinity, running, pinned, impls, moves>>

RemoveCores(other) ==
  /\ policy = "none" /\ edits < MaxEdits
  /\ cores' = Removed(cores, other)
  /\ wanted' = wanted \ ToSet(other)
  /\ edits' = edits + 1
  /\ UNCHANGED <<os, policy, impl, affinity, running, pinned, impls, moves>>

MakePolicy(p) ==
  /\ policy = "none" /\ policy' = p
  /\ UNCHANGED <<os, cores, wanted, edits, impl, affinity, running, pinned, impls, moves>>

\* Thread(affinity, func): Windows gives the new thread its affinity at once.
Start(h) ==
  LET id == Len(running) IN
  /\ policy # "none" /\ impl[h] = NoThread /\ id < MaxThreads
  /\ impl' = [impl EXCEPT ![h] = id]
  /\ impls' = impls \cup {id}
  /\ affinity' = Append(affinity, Get(id))
  /\ running' = Append(running, IF os = "Windows" THEN "run" ELSE "start")
  /\ pinned' = Append(pinned, IF os = "Windows" /\ Get(id) # <<>>
                              THEN ToSet(Get(id)) ELSE Cores)
  /\ UNCHANGED <<os, cores, wanted, edits, policy, moves>>

\* Impl::setAffinity(), the first thing a pthread does; without cores it may
\* run on any.
SetAffinity(id) ==
  /\ running[id + 1] = "start"
  /\ running' = [running EXCEPT ![id + 1] = "run"]
  /\ pinned' = IF affinity[id + 1] = <<>> THEN pinned
               ELSE [pinned EXCEPT ![id + 1] = ToSet(affinity[id + 1])]
  /\ UNCHANGED <<os, cores, wanted, edits, policy, impl, affinity, impls, moves>>

\* func() returns.
Finish(id) ==
  /\ running[id + 1] = "run"
  /\ running' = [running EXCEPT ![id + 1] = "done"]
  /\ UNCHANGED <<os, cores, wanted, edits, policy, impl, affinity, pinned, impls, moves>>

\* join(): a pthread's Impl is deleted, on Windows it stays.
Join(h) ==
  /\ os = "Pthread" /\ impl[h] # NoThread /\ running[impl[h] + 1] = "done"
  /\ impls' = impls \ {impl[h]}
  /\ impl' = [impl EXCEPT ![h] = NoThread]
  /\ UNCHANGED <<os, cores, wanted, edits, policy, affinity, running, pinned, moves>>

\* The threads of this handle have been joined.
Joined(h) ==
  impl[h] # NoThread => os = "Windows" /\ running[impl[h] + 1] = "done"

\* ~Thread() on Windows, after join().
Destroy(h) ==
  /\ impl[h] # NoThread /\ Joined(h)
  /\ impls' = impls \ {impl[h]}
  /\ impl' = [impl EXCEPT ![h] = NoThread]
  /\ UNCHANGED <<os, cores, wanted, edits, policy, affinity, running, pinned, moves>>

\* Thread(Thread&&) and operator=(Thread&&), to a handle whose thread was joined.
\* Mutant: the other handle keeps its thread.
MovedAndKept(h, g) == [impl EXCEPT ![h] = impl[g]]
Moved(h, g) == [impl EXCEPT ![h] = impl[g], ![g] = NoThread]
Move(h, g) ==
  /\ h # g /\ Joined(h) /\ impl[g] # NoThread /\ moves < MaxThreads
  /\ impls' = impls \ {impl[h]}
  /\ impl' = Moved(h, g)
  /\ moves' = moves + 1
  /\ UNCHANGED <<os, cores, wanted, edits, policy, affinity, running, pinned>>

Next ==
  \/ \E other \in Lists : AddCores(other) \/ RemoveCores(other)
  \/ \E p \in {"anyOf", "oneOf"} : MakePolicy(p)
  \/ \E h \in Handles : Start(h) \/ Join(h) \/ Destroy(h) \/ \E g \in Handles : Move(h, g)
  \/ \E id \in 0..(Len(running) - 1) : SetAffinity(id) \/ Finish(id)

Spec == Init /\ [][Next]_vars

-----------------------------------------------------------------------------
(* "remove() removes the cores from the given affinity from this affinity":*)
(* what is left is what was added and not removed.                         *)
RemoveRemoves == ToSet(cores) = wanted

(* Affinity::add() and remove() keep the cores distinct, sort them, and    *)
(* lose none that they were not asked to remove.  A thread runs on cores   *)
(* of the affinity, of one processor group on Windows and a single core    *)
(* under oneOf(), which goes round the cores with the number of the        *)
(* thread.  Every thread that has not been joined is held by one handle,   *)
(* and its Impl is not deleted while it runs.                              *)
ThreadsSound ==
  /\ IsInjective(cores) /\ wanted \subseteq ToSet(cores)
  /\ edits > 0 => \A i, j \in 1..Len(cores) : i < j => cores[i] < cores[j]
  /\ \A id \in 0..(Len(running) - 1) : running[id + 1] # "start" /\ cores # <<>> =>
       /\ pinned[id + 1] # {} /\ pinned[id + 1] \subseteq ToSet(cores)
       /\ os = "Windows" => \A c, d \in pinned[id + 1] : Group(c) = Group(d)
       /\ policy = "oneOf" => pinned[id + 1] = {cores[(id % Len(cores)) + 1]}
  /\ \A id \in 0..(Len(running) - 1) :
       /\ running[id + 1] # "done" => id \in impls
       /\ id \in impls <=> \E h \in Handles : impl[h] = id
  /\ \A h, g \in Handles : impl[h] = impl[g] => h = g \/ impl[h] = NoThread
=============================================================================
