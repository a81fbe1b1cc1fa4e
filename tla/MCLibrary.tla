----------------------------- MODULE MCLibrary -----------------------------
(* The parts of the library around the scheduler, side by side.  `part'      *)
(* says which of them runs; the others stay as they began, so the behaviours *)
(* are those of each part by itself.                                         *)
EXTENDS Pool, Event

CONSTANTS
  Takers, MaxTickets, MaxTake, Null,                           \* Ticket
  MaxNodes, MaxEdges,                                          \* DAG
  MaxFns,                                                      \* Parallel
  MinGrow, MaxEntries,                                         \* List
  Base, MinHeap, Values, MaxCount,                             \* Vector
  Threads, MemSize, PageSize, PtrSize, MallocAlign, MaxUnits, MaxAllocs,  \* Memory
  Fibers, Main, Archs, StackSize, MaxVersion,                  \* OSFiber
  Tracers, MaxEvents, MaxScopes,                               \* Trace
  Cores, Groups, Handles, MaxThreads, MaxEdits, NoThread       \* Thread

VARIABLES
  part,
  next, prev, isCalled, isDone, onCall, isCalledCondVar, taken, taking, order, ticketAt, added,
  scheduled,
  phase, size, numIns, outs, counters, wg, taskAt, node, index, toInvoke, ran,
  call, scheduler, numFns, fnWg, started, fnAt, bound, fnRan,
  entryNext, entryPrev, head, freeEntry, listSize, capacity, liveEntries, listOrder,
  vec, content,
  blocks, words, allocs, stats, allocAt, arg, bad,
  arch, registers, contexts, status, current, version,
  queue, puts, file, writer, stopped, tracing, scopes, opened, destroyed,
  os, cores, wanted, edits, affinityPolicy, impl, affinity, running, pinned, impls, moves

tVars == <<next, prev, isCalled, isDone, onCall, isCalledCondVar, taken, taking, order, ticketAt,
           added, scheduled>>
dVars == <<phase, size, numIns, outs, counters, wg, taskAt, node, index, toInvoke, ran>>
pVars == <<call, scheduler, numFns, fnWg, started, fnAt, bound, fnRan>>
lVars == <<entryNext, entryPrev, head, freeEntry, listSize, capacity, liveEntries, listOrder>>
vVars == <<vec, content>>
mVars == <<blocks, words, allocs, stats, allocAt, arg, bad>>
oVars == <<arch, registers, contexts, status, current, version>>
rVars == <<queue, puts, file, writer, stopped, tracing, scopes, opened, destroyed>>
hVars == <<os, cores, wanted, edits, affinityPolicy, impl, affinity, running, pinned, impls,
           moves>>
blocking == <<vars, eventVars, tVars, dVars, pVars>>
support == <<lVars, vVars, mVars, oVars, rVars, hVars>>
mcVars == <<part, blocking, support>>

\* What is allocated: stacks between guard pages, objects, and arrays of the containers.
Kinds ==
  {[usage |-> "Stack", unit |-> 3, alignment |-> 2, useGuards |-> TRUE],
   [usage |-> "Create", unit |-> 1, alignment |-> 4, useGuards |-> FALSE],
   [usage |-> "Stl", unit |-> 2, alignment |-> 1, useGuards |-> FALSE]}

T == INSTANCE Ticket WITH at <- ticketAt
D == INSTANCE DAG WITH at <- taskAt
P == INSTANCE Parallel WITH wg <- fnWg, at <- fnAt, ran <- fnRan
L == INSTANCE List WITH next <- entryNext, prev <- entryPrev, free <- freeEntry,
                        size <- listSize, live <- liveEntries, order <- listOrder
V == INSTANCE Vector
M == INSTANCE Memory WITH at <- allocAt
O == INSTANCE OSFiber
R == INSTANCE Trace
H == INSTANCE Thread WITH policy <- affinityPolicy

\* Where several initial states differ, the parts that do not run take one.
MCInit ==
  /\ part \in {"Pool", "Event", "Ticket", "DAG", "Parallel", "List", "Vector", "Memory",
               "OSFiber", "Trace", "Thread"}
  /\ Init /\ EventInit /\ T!Init /\ D!Init /\ P!Init
  /\ L!Init /\ V!Init /\ M!Init /\ O!Init /\ R!Init /\ H!Init
  /\ part # "Pool" => kind = "Bounded" /\ policy = "Preserve"
  /\ part # "Event" => mode = [e \in Events |-> "Auto"]
  /\ part # "Parallel" => call = "parallelize" /\ numFns = 0
  /\ part # "OSFiber" => arch = "x86"
  /\ part # "Thread" => os = "Pthread" /\ cores = <<>>

Idle(others) == UNCHANGED part /\ UNCHANGED others

MCNext ==
  \/ part = "Pool" /\ Next /\ Idle(<<eventVars, tVars, dVars, pVars, support>>)
  \/ part = "Event" /\ EventNext /\ Idle(<<vars, tVars, dVars, pVars, support>>)
  \/ part = "Ticket" /\ T!Next /\ Idle(<<vars, eventVars, dVars, pVars, support>>)
  \/ part = "DAG" /\ D!Next /\ Idle(<<vars, eventVars, tVars, pVars, support>>)
  \/ part = "Parallel" /\ P!Next /\ Idle(<<vars, eventVars, tVars, dVars, support>>)
  \/ part = "List" /\ L!Next /\ Idle(<<blocking, vVars, mVars, oVars, rVars, hVars>>)
  \/ part = "Vector" /\ V!Next /\ Idle(<<blocking, lVars, mVars, oVars, rVars, hVars>>)
  \/ part = "Memory" /\ M!Next /\ Idle(<<blocking, lVars, vVars, oVars, rVars, hVars>>)
  \/ part = "OSFiber" /\ O!Next /\ Idle(<<blocking, lVars, vVars, mVars, rVars, hVars>>)
  \/ part = "Trace" /\ R!Next /\ Idle(<<blocking, lVars, vVars, mVars, oVars, hVars>>)
  \/ part = "Thread" /\ H!Next /\ Idle(<<blocking, lVars, vVars, mVars, oVars, rVars>>)

MCSpec == MCInit /\ [][MCNext]_mcVars
-----------------------------------------------------------------------------
(* Properties, each stated in the module of its part; those of Pool and    *)
(* Event are taken from there as they are.                                 *)

\* Ticket: tickets are called in the order they were taken, and none is forgotten.
TicketsInOrder == part = "Ticket" => T!TicketsInOrder

\* DAG::run(), parallelize() and blocking_call(): what they started has run, once
\* and in the order of the dependencies, when they return.
GroupsComplete ==
  /\ part = "DAG" => D!DependenciesFirst
  /\ part = "Parallel" => P!ReturnsAfterAll

\* The containers hold what a sequence with the same operations holds.
ContainersSound ==
  /\ part = "List" => L!ListWellFormed
  /\ part = "Vector" => V!VectorContents

\* Allocations do not overlap, are aligned, and are freed as they were made.
AllocationsSound == part = "Memory" => M!AllocationsSound

\* A fiber finds its registers as it left them, on every architecture, except the
\* few that the code has a slot for and loses (OSFiber!NotKept).
RegistersKept == part = "OSFiber" => O!RegistersKept

\* The trace file holds the events in order, complete up to its limit.
TraceComplete == part = "Trace" => R!TraceComplete

\* Threads run on the cores of their affinity, and each has one owner.
ThreadsSound == part = "Thread" => H!ThreadsSound

(* Every call returns: borrow() once items are returned, signal(), any(),  *)
(* a wait on an event that is and stays signalled, the wait() and done()   *)
(* of tickets that are all done in the end, DAG::run(), parallelize(),     *)
(* blocking_call() and ~Trace().  Calls are bounded in number and no step  *)
(* is ever undone, so a behaviour ends unless it stops taking steps it     *)
(* could take, and a state that has no step must be one where all returned.*)
AllReturn ==
  \/ CASE part = "Pool" -> AllReturned     [] part = "Event" -> EventsReturned
       [] part = "Ticket" -> T!AllReturned [] part = "DAG" -> D!AllReturned
       [] part = "Parallel" -> P!AllReturned [] part = "Trace" -> R!AllReturned
       [] OTHER -> TRUE
  \/ ENABLED MCNext
=============================================================================
