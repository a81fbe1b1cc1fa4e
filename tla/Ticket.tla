------------------------------- MODULE Ticket -------------------------------
(* Ticket::Queue and Ticket: a doubly linked list of records, one per ticket *)
(* that is not done, ending in the record `tail'.  Each ticket has a task    *)
(* that may wait for it, register a callback, call done() or drop it.        *)
(* Records are those of an UnboundedPool: constructed anew for each ticket,  *)
(* destructed with the last Loan.  Tasks use their tickets once take() has   *)
(* returned.                                                                 *)
EXTENDS WaitList, Integers

CONSTANTS
  Takers,      \* tasks that call take()
  MaxTickets,  \* bound on the tickets taken
  MaxTake,     \* bound on n in take(n, f)
  Null         \* nullptr

Tickets == 1..MaxTickets
TailRecord == 0       \* Shared::tail
Records == Tickets \cup {TailRecord}

VARIABLES
  next, prev,         \* Record::next and Record::prev
  isCalled, isDone,   \* Record::isCalled and Record::isDone
  onCall,             \* callbacks joined in Record::onCall
  isCalledCondVar,    \* Record::isCalledCondVar
  taken,              \* how many tickets have been borrowed from the pool
  taking,             \* what each taker has borrowed and not linked yet: <<first, last>> or <<>>
  order,              \* the tickets in the order take() linked them
  at,                 \* the task of each ticket: "none", "held", "wait", "called", "done", "gone"
  added, scheduled    \* callbacks given to onCall(), and scheduled

vars == <<next, prev, isCalled, isDone, onCall, isCalledCondVar, taken, taking, order, at,
          added, scheduled>>

Init ==
  /\ next = [r \in Records |-> Null] /\ prev = [r \in Records |-> Null]
  /\ isCalled = [r \in Records |-> FALSE] /\ isDone = [r \in Tickets |-> FALSE]
  /\ onCall = [r \in Records |-> 0] /\ isCalledCondVar = [r \in Records |-> NoWaiters]
  /\ taken = 0 /\ taking = [p \in Takers |-> <<>>] /\ order = <<>>
  /\ at = [r \in Tickets |-> "none"]
  /\ added = [r \in Tickets |-> 0] /\ scheduled = [r \in Records |-> 0]

Place(r, place) == at' = [at EXCEPT ![r] = place]

\* Record::callAndUnlock()
CallAndUnlock(r) ==
  IF isCalled[r] THEN UNCHANGED <<isCalled, onCall, isCalledCondVar, scheduled>>
  ELSE /\ isCalled' = [isCalled EXCEPT ![r] = TRUE]
       /\ onCall' = [onCall EXCEPT ![r] = 0]
       /\ isCalledCondVar' = [isCalledCondVar EXCEPT ![r] = NotifyAll(@)]
       /\ scheduled' = [scheduled EXCEPT ![r] = @ + onCall[r]]
CallNobody == UNCHANGED <<isCalled, onCall, isCalledCondVar, scheduled>>

\* take(n, f): n records of the pool, linked to one another and to the tail.
BorrowRecords(p, n) ==
  LET new == taken + 1..taken + n
  IN  /\ taking[p] = <<>> /\ taken + n <= MaxTickets
      /\ taking' = [taking EXCEPT ![p] = <<taken + 1, taken + n>>] /\ taken' = taken + n
      /\ next' = [r \in Records |-> IF r \notin new THEN next[r]
                                    ELSE IF r = taken + n THEN TailRecord ELSE r + 1]
      /\ prev' = [r \in Records |-> IF r \in new /\ r # taken + 1 THEN r - 1 ELSE prev[r]]
      /\ UNCHANGED <<isCalled, isDone, onCall, isCalledCondVar, order, at, added, scheduled>>

\* The rest of take(), with the mutex held: append the records to the list and
\* call the first of them if the list was empty.  take() returns.
LinkRecords(p) ==
  LET first == taking[p][1]
      last  == taking[p][2]
      front == prev[TailRecord]
  IN  /\ taking[p] # <<>> /\ taking' = [taking EXCEPT ![p] = <<>>]
      /\ prev' = [prev EXCEPT ![first] = front, ![TailRecord] = last]
      /\ IF front = Null THEN CallAndUnlock(first) /\ UNCHANGED next
         ELSE CallNobody /\ next' = [next EXCEPT ![front] = first]
      /\ order' = order \o [i \in 1..last - first + 1 |-> first + i - 1]
      /\ at' = [r \in Tickets |-> IF r \in first..last THEN "held" ELSE at[r]]
      /\ UNCHANGED <<isDone, taken, added>>
-----------------------------------------------------------------------------
(* The task of a ticket.                                                   *)

Wait(r) ==
  /\ at[r] = "held" /\ ~isDone[r]
  /\ IF isCalled[r] THEN Place(r, "called") /\ UNCHANGED isCalledCondVar
     ELSE Place(r, "wait") /\ isCalledCondVar' = [isCalledCondVar EXCEPT ![r] = Join(@, r)]
  /\ UNCHANGED <<next, prev, isCalled, isDone, onCall, taken, taking, order, added, scheduled>>

Wake(r) ==
  /\ at[r] = "wait" /\ r \in isCalledCondVar[r].woken
  /\ IF isCalled[r]
     THEN Place(r, "called") /\ isCalledCondVar' = [isCalledCondVar EXCEPT ![r] = Leave(@, r)]
     ELSE isCalledCondVar' = [isCalledCondVar EXCEPT ![r] = Resuspend(@, r)] /\ UNCHANGED at
  /\ UNCHANGED <<next, prev, isCalled, isDone, onCall, taken, taking, order, added, scheduled>>

\* onCall(f): scheduled at once if the ticket has been called.
OnCall(r) ==
  /\ at[r] \in {"held", "wait", "called"} /\ added[r] < 2 /\ added' = [added EXCEPT ![r] = @ + 1]
  /\ IF isCalled[r] THEN scheduled' = [scheduled EXCEPT ![r] = @ + 1] /\ UNCHANGED onCall
     ELSE onCall' = [onCall EXCEPT ![r] = @ + 1] /\ UNCHANGED scheduled
  /\ UNCHANGED <<next, prev, isCalled, isDone, isCalledCondVar, taken, taking, order, at>>

\* done(), or ~Record() as the last Loan goes: isDone.exchange(true) ...
BeginDone(r) ==
  /\ at[r] \in {"held", "called"} /\ isDone' = [isDone EXCEPT ![r] = TRUE] /\ Place(r, "done")
  /\ UNCHANGED <<next, prev, isCalled, onCall, isCalledCondVar, taken, taking, order, added,
                 scheduled>>

\* Mutant: whoever is done calls the next ticket, be it at the front or not.
CallNextAnyway(r) == next[r]

\* ... then, with the mutex held, who is to be called ...
CallNext(r) == IF prev[r] = Null THEN next[r] ELSE Null

\* Record::unlink()
Unlink(r) ==
  /\ next' = [s \in Records |-> IF s = r THEN Null ELSE IF s = prev[r] THEN next[r] ELSE next[s]]
  /\ prev' = [s \in Records |-> IF s = r THEN Null ELSE IF s = next[r] THEN prev[r] ELSE prev[s]]

\* ... unlink, and call it.  The record goes with the ticket.
EndDone(r) ==
  /\ at[r] = "done" /\ Unlink(r) /\ Place(r, "gone")
  /\ IF CallNext(r) = Null THEN CallNobody ELSE CallAndUnlock(CallNext(r))
  /\ UNCHANGED <<isDone, taken, taking, order, added>>

Next ==
  \/ \E p \in Takers : LinkRecords(p) \/ \E n \in 1..MaxTake : BorrowRecords(p, n)
  \/ \E r \in Tickets : Wait(r) \/ Wake(r) \/ OnCall(r) \/ BeginDone(r) \/ EndDone(r)

Spec == Init /\ [][Next]_vars
-----------------------------------------------------------------------------
(* Properties.                                                             *)

\* Tickets not done yet, in the order they were taken.
Linked == SelectSeq(order, LAMBDA r : at[r] # "gone")

\* Tickets are called in the order they were taken: a ticket that is called has
\* only finished ones before it, and the first of the unfinished ones has been
\* called, its waiter woken and its callbacks scheduled, each once.  The list holds
\* the unfinished tickets in that order, so no record that is gone is reached
\* through it (take(), done(), callAndUnlock() and unlink()).
TicketsInOrder ==
  /\ \A i, j \in DOMAIN order : i < j /\ isCalled[order[j]] => isDone[order[i]]
  /\ Linked # <<>> => isCalled[Head(Linked)]
  /\ \A r \in Tickets :
       /\ isCalled[r] => onCall[r] = 0 /\ Range(isCalledCondVar[r].list) \subseteq isCalledCondVar[r].woken
       /\ scheduled[r] + onCall[r] = added[r]
  /\ LET chain == Linked \o <<TailRecord>>
     IN  \A i \in DOMAIN chain :
           /\ prev[chain[i]] = IF i = 1 THEN Null ELSE chain[i - 1]
           /\ i < Len(chain) => next[chain[i]] = chain[i + 1]

\* Nobody waits for a ticket and nobody is inside take() or done().
AllReturned ==
  /\ taken = MaxTickets /\ \A p \in Takers : taking[p] = <<>>
  /\ \A r \in Tickets : at[r] = "gone"
=============================================================================
