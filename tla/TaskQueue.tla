----------------------------- MODULE TaskQueue -----------------------------
(***************************************************************************)
(* What a worker promises about tasks, with nothing said of fibers, locks, *)
(* sleeping or timeouts: tasks start in the order they were scheduled, a   *)
(* task starts at most once, here or on the worker that stole it, a queued *)
(* task is eventually started or stolen, and the worker stops only when    *)
(* every task it started has returned and none is left.                    *)
(***************************************************************************)
EXTENDS Sequences

CONSTANTS Task,    \* the tasks
          Pinned   \* those that may not be stolen

VARIABLES queue,    \* scheduled, not yet started
          started,  \* started here, not yet returned
          returned, \* returned
          taken,    \* stolen by another worker
          closed    \* the worker has stopped

tqVars == <<queue, started, returned, taken, closed>>

TQInit == /\ queue = <<>> /\ returned = {} /\ taken = {} /\ closed = FALSE
          /\ started \in SUBSET Task

Queued == {queue[i] : i \in DOMAIN queue}

Schedule(t) ==
  /\ ~closed /\ t \notin Queued \cup started \cup returned \cup taken
  /\ queue' = Append(queue, t)
  /\ UNCHANGED <<started, returned, taken, closed>>

StartFirst ==
  /\ ~closed /\ queue # <<>>
  /\ queue' = Tail(queue) /\ started' = started \cup {Head(queue)}
  /\ UNCHANGED <<returned, taken, closed>>

StealFirst ==
  /\ ~closed /\ queue # <<>> /\ Head(queue) \notin Pinned
  /\ queue' = Tail(queue) /\ taken' = taken \cup {Head(queue)}
  /\ UNCHANGED <<started, returned, closed>>

Return(t) ==
  /\ ~closed /\ t \in started
  /\ started' = started \ {t} /\ returned' = returned \cup {t}
  /\ UNCHANGED <<queue, taken, closed>>

Close ==
  /\ ~closed /\ queue = <<>> /\ started = {}
  /\ closed' = TRUE
  /\ UNCHANGED <<queue, started, returned, taken>>

TQNext == \/ \E t \in Task : Schedule(t) \/ Return(t)
          \/ StartFirst \/ StealFirst \/ Close

TQSafety == TQInit /\ [][TQNext]_tqVars
TQSpec   == TQSafety /\ WF_tqVars(StartFirst)
=============================================================================
