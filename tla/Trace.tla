-------------------------------- MODULE Trace --------------------------------
(***************************************************************************)
(* Trace: threads put events in a queue, and one thread of the Trace       *)
(* writes them to a file, at most MaxEvents of them.  An event is the      *)
(* thread that made it and its type; names, timestamps and how they are    *)
(* printed are left out.  eventQueues has a single element, so the indices *)
(* that choose a queue always choose that one.                             *)
(***************************************************************************)
EXTENDS Integers, Sequences, SequencesExt

CONSTANTS Tracers,    \* threads that make events
          MaxEvents,  \* events written to the file, 100000 in the code
          MaxScopes   \* bound on the scopes each thread opens

VARIABLES queue,      \* EventQueue::data
          puts,       \* the events in the order they were put
          file,       \* the events written
          writer,     \* where the thread of the Trace is
          stopped,    \* Trace::stopped
          tracing,    \* where each thread is: the event it is to put, or notifying
          scopes,     \* the scopes each thread is in, outermost first
          opened,     \* how many it has opened
          destroyed   \* ~Trace(): no, put, notify, join or yes

vars == <<queue, puts, file, writer, stopped, tracing, scopes, opened, destroyed>>

Idle == <<>>
Shutdown == <<"Trace", "Shutdown">>
WriterName == <<"Trace worker", "M">>
\* The events that begin and end a scope; "M" names a thread, and ends nothing.
EndOf == [B |-> "E", b |-> "e"]

-----------------------------------------------------------------------------
\* Trace(): nameThread("main") is the first event.
Init ==
  /\ queue = <<<<"main", "M">>>> /\ puts = queue /\ file = <<>>
  /\ writer = "name" /\ stopped = FALSE /\ destroyed = "no"
  /\ tracing = [t \in Tracers |-> Idle]
  /\ scopes = [t \in Tracers |-> <<>>]
  /\ opened = [t \in Tracers |-> 0]

(* beginEvent(), endEvent(), beginAsyncEvent(), endAsyncEvent() and        *)
(* nameThread(): an event is made unless the Trace has stopped.            *)
Make(t, type) ==
  tracing' = [tracing EXCEPT ![t] = IF stopped THEN Idle ELSE <<"put", type>>]

\* ScopedEvent and ScopedAsyncEvent: the constructor ...
Open(t, type) ==
  /\ destroyed = "no" /\ tracing[t] = Idle /\ opened[t] < MaxScopes
  /\ opened' = [opened EXCEPT ![t] = @ + 1]
  /\ scopes' = [scopes EXCEPT ![t] = Append(@, type)]
  /\ Make(t, type)
  /\ UNCHANGED <<queue, puts, file, writer, stopped, destroyed>>

\* ... and the destructor, innermost scope first.
Close(t) ==
  /\ tracing[t] = Idle /\ scopes[t] # <<>>
  /\ scopes' = [scopes EXCEPT ![t] = Front(@)]
  /\ Make(t, EndOf[Last(scopes[t])])
  /\ UNCHANGED <<queue, puts, file, writer, stopped, opened, destroyed>>

NameThread(t) ==
  /\ destroyed = "no" /\ tracing[t] = Idle /\ opened[t] < MaxScopes
  /\ opened' = [opened EXCEPT ![t] = @ + 1]
  /\ Make(t, "M")
  /\ UNCHANGED <<queue, puts, file, writer, stopped, scopes, destroyed>>

(* put(): the event is pushed under the mutex, and if the queue was empty  *)
(* the writer is notified after the unlock.                                *)
Push(event) ==
  /\ queue' = Append(queue, event)
  /\ puts' = Append(puts, event)

MustNotify == queue = <<>>
NotifyOne == writer' = CASE writer = "wait" -> "take" [] writer = "drain wait" -> "drain"
                         [] OTHER -> writer

Put(t) ==
  /\ tracing[t] # Idle /\ Head(tracing[t]) = "put"
  /\ Push(<<t, Last(tracing[t])>>)
  /\ tracing' = [tracing EXCEPT ![t] = IF MustNotify THEN <<"notify">> ELSE Idle]
  /\ UNCHANGED <<file, writer, stopped, scopes, opened, destroyed>>

PutNotify(t) ==
  /\ tracing[t] = <<"notify">>
  /\ NotifyOne
  /\ tracing' = [tracing EXCEPT ![t] = Idle]
  /\ UNCHANGED <<queue, puts, file, stopped, scopes, opened, destroyed>>

\* The writer begins with Thread::setName(): an event of its own, nobody to notify.
NameWriter ==
  /\ writer = "name"
  /\ Push(WriterName)
  /\ writer' = "take"
  /\ UNCHANGED <<file, stopped, tracing, scopes, opened, destroyed>>

\* take(): condition.wait() until the queue has an event.
TakeWait ==
  /\ queue = <<>> /\ writer \in {"take", "drain"}
  /\ writer' = IF writer = "take" THEN "wait" ELSE "drain wait"
  /\ UNCHANGED <<queue, puts, file, stopped, tracing, scopes, opened, destroyed>>

(* The loop of the writer: an event is taken and written, until there are  *)
(* MaxEvents in the file or the event is Shutdown.                         *)
\* Mutant: one event too many.
LastOffByOne == Len(file) = MaxEvents
LastOfLoop == Len(file) + 1 = MaxEvents

Write ==
  /\ writer = "take" /\ queue # <<>> /\ Head(queue) # Shutdown
  /\ queue' = Tail(queue)
  /\ file' = Append(file, Head(queue))
  /\ writer' = IF LastOfLoop THEN "stop" ELSE "take"
  /\ UNCHANGED <<puts, stopped, tracing, scopes, opened, destroyed>>

Stop ==
  /\ writer = "stop"
  /\ stopped' = TRUE /\ writer' = "drain"
  /\ UNCHANGED <<queue, puts, file, tracing, scopes, opened, destroyed>>

\* Events made before it stopped are still taken, and thrown away.
Drain ==
  /\ writer = "drain" /\ queue # <<>> /\ Head(queue) # Shutdown
  /\ queue' = Tail(queue)
  /\ UNCHANGED <<puts, file, writer, stopped, tracing, scopes, opened, destroyed>>

TakeShutdown ==
  /\ writer \in {"take", "drain"} /\ queue # <<>> /\ Head(queue) = Shutdown
  /\ queue' = Tail(queue)
  /\ writer' = "end"
  /\ UNCHANGED <<puts, file, stopped, tracing, scopes, opened, destroyed>>

(* ~Trace() runs when the program ends, after its threads: it puts the     *)
(* event Shutdown and joins the writer.                                    *)
Destroy ==
  /\ destroyed = "no"
  /\ \A t \in Tracers : tracing[t] = Idle /\ scopes[t] = <<>>
  /\ Push(Shutdown)
  /\ destroyed' = IF MustNotify THEN "notify" ELSE "join"
  /\ UNCHANGED <<file, writer, stopped, tracing, scopes, opened>>

DestroyNotify ==
  /\ destroyed = "notify" /\ NotifyOne
  /\ destroyed' = "join"
  /\ UNCHANGED <<queue, puts, file, stopped, tracing, scopes, opened>>

Join ==
  /\ destroyed = "join" /\ writer = "end"
  /\ destroyed' = "yes"
  /\ UNCHANGED <<queue, puts, file, writer, stopped, tracing, scopes, opened>>

Next ==
  \/ \E t \in Tracers :
       \/ \E type \in DOMAIN EndOf : Open(t, type)
       \/ Close(t) \/ NameThread(t) \/ Put(t) \/ PutNotify(t)
  \/ NameWriter \/ TakeWait \/ Write \/ Stop \/ Drain \/ TakeShutdown
  \/ Destroy \/ DestroyNotify \/ Join

Spec == Init /\ [][Next]_vars

-----------------------------------------------------------------------------
\* How many events of thread t and type are in s.
CountOf(s, t, type) == Len(SelectSeq(s, LAMBDA e : e = <<t, type>>))

(* The file holds the events in the order they were put, none left out and *)
(* none twice, up to MaxEvents of them, and all of them once ~Trace() is   *)
(* over, except that the name of the writer may be too late for it.        *)
(* However threads race with the end of the writing, no scope is           *)
(* closed in the file before it is opened, and all are closed when the     *)
(* file was not cut short.                                                 *)
TraceComplete ==
  /\ Len(file) <= MaxEvents
  /\ IsPrefix(file, puts)
  /\ ~stopped /\ writer \notin {"stop", "end"} => file \o queue = puts
  /\ \A t \in Tracers, type \in DOMAIN EndOf :
       CountOf(file, t, EndOf[type]) <= CountOf(file, t, type)
  /\ destroyed = "yes" =>
       /\ ToSet(queue) \subseteq {WriterName}
       /\ stopped \/ file \o <<Shutdown>> \o queue = puts
       /\ stopped => Len(file) = MaxEvents
       /\ ~stopped => \A t \in Tracers, type \in DOMAIN EndOf :
                        CountOf(file, t, EndOf[type]) = CountOf(file, t, type)

\* ~Trace() has returned, or has not been called.
AllReturned == destroyed = "yes"
=============================================================================
