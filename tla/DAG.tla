-------------------------------- MODULE DAG --------------------------------
(* DAGBuilder and DAG::run(): a graph is built node by node, then run once.  *)
(* Task 0 is the caller of run(), task n > 0 the task that was scheduled to  *)
(* invoke node n.  The direct call of invoke() at the end of invoke() is the *)
(* last thing it does, so a task has one current node.                       *)
EXTENDS WaitGroup, FiniteSets

CONSTANTS
  MaxNodes,  \* bound on the nodes besides the root
  MaxEdges   \* bound on the dependencies

Root == 0                 \* RootIndex
Nodes == 0..MaxNodes
NoNode == MaxNodes + 1    \* InvalidNodeIndex

VARIABLES
  phase,          \* "build", "run" or "returned"
  size,           \* dag->nodes.size() - 1
  numIns, outs,   \* DAGBuilder::numIns and Node::outs
  counters,       \* RunContext::counters, by node; 0 for a node without counter
  wg,             \* the WaitGroup of run()
  at, node, index, \* where each task is, its node, and the outs it has gone through
  toInvoke,       \* the node it is to invoke last
  ran             \* how often the work of each node has run

vars == <<phase, size, numIns, outs, counters, wg, at, node, index, toInvoke, ran>>
graph == <<phase, size, numIns, outs>>

Init ==
  /\ phase = "build" /\ size = 0
  /\ numIns = [n \in Nodes |-> 0] /\ outs = [n \in Nodes |-> <<>>]
  /\ counters = [n \in Nodes |-> 0] /\ wg = NewGroup(0)
  /\ at = [t \in Nodes |-> "none"] /\ node = [t \in Nodes |-> NoNode]
  /\ index = [t \in Nodes |-> 0] /\ toInvoke = [t \in Nodes |-> NoNode] /\ ran = [n \in Nodes |-> 0]

NumEdges == LET sum[n \in Nodes] == numIns[n] + IF n = 0 THEN 0 ELSE sum[n - 1] IN sum[MaxNodes]
running == <<counters, wg, at, node, index, toInvoke, ran>>
-----------------------------------------------------------------------------
(* DAGBuilder                                                              *)

\* node(work, after), and n.then(work), which is node(work, {n}).
NewNode(after) ==
  /\ phase = "build" /\ size < MaxNodes /\ size' = size + 1
  /\ after \subseteq 0..size /\ NumEdges + Cardinality(after) <= MaxEdges
  /\ numIns' = [numIns EXCEPT ![size + 1] = Cardinality(after)]
  /\ outs' = [n \in Nodes |-> IF n \in after THEN Append(outs[n], size + 1) ELSE outs[n]]
  /\ UNCHANGED <<phase, running>>

\* addDependency().  The nodes are numbered so that a parent comes first.
AddDependency(parent, child) ==
  /\ phase = "build" /\ parent < child /\ child <= size /\ NumEdges < MaxEdges
  /\ numIns' = [numIns EXCEPT ![child] = @ + 1]
  /\ outs' = [outs EXCEPT ![parent] = Append(@, child)]
  /\ UNCHANGED <<phase, size, running>>

\* Mutant: a node with two dependencies gets no counter.
HasCounterOffByOne(n) == numIns[n] > 2

\* build(): the nodes that get a counter ...
HasCounter(n) == numIns[n] > 1

\* ... copied by initCounters() for a run; then run() invokes the root.
InitCounters == [n \in Nodes |-> IF HasCounter(n) THEN numIns[n] ELSE 0]
Run ==
  /\ phase = "build" /\ phase' = "run"
  /\ counters' = InitCounters
  /\ at' = [at EXCEPT ![Root] = "work"] /\ node' = [node EXCEPT ![Root] = Root]
  /\ UNCHANGED <<size, numIns, outs, wg, index, toInvoke, ran>>
-----------------------------------------------------------------------------
(* DAGBase::invoke()                                                       *)

Move(t, place) == at' = [at EXCEPT ![t] = place]

\* A scheduled task begins with its node.
BeginTask(t) ==
  /\ at[t] = "scheduled" /\ Move(t, "work") /\ node' = [node EXCEPT ![t] = t]
  /\ UNCHANGED <<graph, counters, wg, index, toInvoke, ran>>

Work(t) ==
  /\ at[t] = "work" /\ Move(t, "outs") /\ ran' = [ran EXCEPT ![node[t]] = @ + 1]
  /\ index' = [index EXCEPT ![t] = 0] /\ toInvoke' = [toInvoke EXCEPT ![t] = NoNode]
  /\ UNCHANGED <<graph, counters, wg, node>>

\* notify(): is the node ready, now that one more of its dependencies is done?
Ready(out) == ~HasCounter(out) \/ counters[out] = 1

\* notify() for the next of outs; schedule() the node noted before, if this one
\* is ready too.
NotifyOut(t) ==
  LET out   == outs[node[t]][index[t] + 1]
      ready == Ready(out)
  IN  /\ at[t] = "outs" /\ index[t] < Len(outs[node[t]]) /\ index' = [index EXCEPT ![t] = @ + 1]
      /\ counters' = IF HasCounter(out) THEN [counters EXCEPT ![out] = @ - 1] ELSE counters
      /\ IF ready THEN toInvoke' = [toInvoke EXCEPT ![t] = out] ELSE UNCHANGED toInvoke
      /\ IF ready /\ toInvoke[t] # NoNode
         THEN wg' = Add(wg, 1) /\ at' = [at EXCEPT ![toInvoke[t]] = "scheduled"]
         ELSE UNCHANGED <<wg, at>>
      /\ UNCHANGED <<graph, node, ran>>

\* After the last of outs: invoke() the node noted, or return, to the task or
\* to run().
EndOuts(t) ==
  /\ at[t] = "outs" /\ index[t] = Len(outs[node[t]])
  /\ IF toInvoke[t] # NoNode
     THEN node' = [node EXCEPT ![t] = toInvoke[t]] /\ Move(t, "work")
     ELSE Move(t, IF t = Root THEN "wait" ELSE "done") /\ UNCHANGED node
  /\ UNCHANGED <<graph, counters, wg, index, toInvoke, ran>>

\* wg.done()
Done(t) ==
  /\ at[t] = "done" /\ wg' = Decrement(wg) /\ Move(t, IF IsLastDone(wg) THEN "notify" ELSE "over")
  /\ UNCHANGED <<graph, counters, node, index, toInvoke, ran>>

DoneNotify(t) ==
  /\ at[t] = "notify" /\ wg' = NotifyDone(wg) /\ Move(t, "over")
  /\ UNCHANGED <<graph, counters, node, index, toInvoke, ran>>

\* wg.wait(), after which run() returns and its RunContext is gone.
Wait ==
  /\ at[Root] = "wait"
  /\ IF IsComplete(wg) THEN Move(Root, "over") /\ phase' = "returned" /\ UNCHANGED wg
     ELSE Move(Root, "suspended") /\ wg' = BeginWait(wg, Root) /\ UNCHANGED phase
  /\ UNCHANGED <<size, numIns, outs, counters, node, index, toInvoke, ran>>

Wake ==
  /\ at[Root] = "suspended" /\ Root \in wg.cv.woken
  /\ IF IsComplete(wg) THEN wg' = EndWait(wg, Root) /\ Move(Root, "over") /\ phase' = "returned"
     ELSE wg' = WaitAgain(wg, Root) /\ UNCHANGED <<at, phase>>
  /\ UNCHANGED <<size, numIns, outs, counters, node, index, toInvoke, ran>>

Next ==
  \/ \E after \in SUBSET Nodes : NewNode(after)
  \/ \E parent, child \in Nodes : AddDependency(parent, child)
  \/ Run \/ Wait \/ Wake
  \/ \E t \in Nodes : BeginTask(t) \/ Work(t) \/ NotifyOut(t) \/ EndOuts(t) \/ Done(t) \/ DoneNotify(t)

Spec == Init /\ [][Next]_vars
-----------------------------------------------------------------------------
(* Properties.                                                             *)

\* The nodes all of whose dependencies, at least one, lead back to the root.
Attached ==
  LET attached[n \in Nodes] ==
        \/ n = Root
        \/ numIns[n] > 0 /\ \A p \in 0..n - 1 : n \in Range(outs[p]) => attached[p]
  IN  {n \in Nodes : attached[n]}

\* A node's work begins when that of all its dependencies has been done, and is
\* done once; run() returns when every attached node has been, and no task uses the
\* counters or the data of a run that returned (notify(), invoke() and run()).
DependenciesFirst ==
  /\ \A t \in Nodes : at[t] = "work" =>
       /\ ran[node[t]] = 0
       /\ \A p \in Nodes : node[t] \in Range(outs[p]) => ran[p] = 1
  /\ phase = "returned" =>
       /\ \A n \in Nodes : ran[n] = IF n \in Attached THEN 1 ELSE 0
       /\ \A t \in Nodes : at[t] \in {"none", "notify", "over"}

\* run() has returned.
AllReturned == phase = "returned"
=============================================================================
