-------------------------------- MODULE List --------------------------------
(* containers::list: entries linked in two chains, the elements from `head'  *)
(* and the unused entries from `free'.  Entries are never given back before  *)
(* the list is destructed.                                                   *)
EXTENDS Integers, Sequences, Functions

CONSTANTS
  MinGrow,    \* least number of entries grow() adds, 8 in the code
  MaxEntries  \* bound on the entries

Entry == 1..MaxEntries
Nil == 0  \* nullptr

VARIABLES
  next, prev,      \* Entry::next and Entry::prev
  head, free,      \* the two chains
  size, capacity,  \* list::size_ and list::capacity
  live,            \* entries whose data is constructed
  order            \* the elements, as the entries that hold them, first to last

vars == <<next, prev, head, free, size, capacity, live, order>>

Init ==
  /\ next = [e \in Entry |-> Nil] /\ prev = [e \in Entry |-> Nil] /\ head = Nil /\ free = Nil
  /\ size = 0 /\ capacity = 0 /\ live = {} /\ order = <<>>

\* Links are pairs of functions, changed by one of the operators in turn.
\* grow(): each new entry goes to the front of the unused ones, none of which is left.
GrowBy == IF capacity > MinGrow THEN capacity ELSE MinGrow
Grow(l) ==
  [next |-> [e \in Entry |-> IF e \in capacity + 2..capacity + GrowBy THEN e - 1
                             ELSE IF e = capacity + 1 THEN Nil ELSE l.next[e]],
   prev |-> [e \in Entry |-> IF e \in capacity + 1..capacity + GrowBy - 1 THEN e + 1
                             ELSE IF e = capacity + GrowBy THEN Nil ELSE l.prev[e]]]

\* unlink(), but for the chain's first entry ...
Unlink(l, e) ==
  [next |-> [x \in Entry |-> IF x = e THEN Nil ELSE IF x = l.prev[e] THEN l.next[e] ELSE l.next[x]],
   prev |-> [x \in Entry |-> IF x = e THEN Nil ELSE IF x = l.next[e] THEN l.prev[e] ELSE l.prev[x]]]

\* ... which becomes the next one if it was this.
FirstWithout(l, e, first) == IF first = e THEN l.next[e] ELSE first

\* link() in front of `first'.
Link(l, e, first) ==
  IF first = Nil THEN l
  ELSE [next |-> [l.next EXCEPT ![e] = first], prev |-> [l.prev EXCEPT ![first] = e]]

\* emplace_front()
EmplaceFront ==
  LET grow  == free = Nil
      l0    == IF grow THEN Grow([next |-> next, prev |-> prev]) ELSE [next |-> next, prev |-> prev]
      entry == IF grow THEN capacity + GrowBy ELSE free
      l     == Link(Unlink(l0, entry), entry, head)
  IN  /\ grow => capacity + GrowBy <= MaxEntries
      /\ next' = l.next /\ prev' = l.prev /\ head' = entry
      /\ free' = FirstWithout(l0, entry, entry)
      /\ capacity' = IF grow THEN capacity + GrowBy ELSE capacity
      /\ size' = size + 1 /\ live' = live \cup {entry} /\ order' = <<entry>> \o order

\* erase()
Erase(e) ==
  LET l0 == [next |-> next, prev |-> prev]
      l  == Link(Unlink(l0, e), e, free)
  IN  /\ e \in live /\ next' = l.next /\ prev' = l.prev
      /\ head' = FirstWithout(l0, e, head) /\ free' = e
      /\ size' = size - 1 /\ live' = live \ {e} /\ order' = SelectSeq(order, LAMBDA x : x # e)
      /\ UNCHANGED capacity

\* What is met from an entry on, first to last.
Chain(first) ==
  LET chain[n \in 0..MaxEntries] ==
        IF n = 0 THEN <<>>
        ELSE LET c == chain[n - 1]
                 e == IF c = <<>> THEN first ELSE next[c[Len(c)]]
             IN  IF e = Nil THEN c ELSE Append(c, e)
  IN  chain[MaxEntries]

\* ~list(): the elements met from `head' are destructed, every allocation is
\* given back, and another list is made.
Renew ==
  /\ live' = live \ Range(Chain(head)) /\ order' = <<>>
  /\ next' = [e \in Entry |-> Nil] /\ prev' = [e \in Entry |-> Nil] /\ head' = Nil /\ free' = Nil
  /\ size' = 0 /\ capacity' = 0

Next == EmplaceFront \/ (\E e \in Entry : Erase(e)) \/ Renew
Spec == Init /\ [][Next]_vars
-----------------------------------------------------------------------------
\* Is a chain that begins with an entry made of just these, linked both ways?
IsChain(first, s) ==
  /\ first = (IF s = <<>> THEN Nil ELSE s[1])
  /\ \A i \in DOMAIN s : /\ prev[s[i]] = IF i = 1 THEN Nil ELSE s[i - 1]
                         /\ next[s[i]] = IF i = Len(s) THEN Nil ELSE s[i + 1]

\* From `head' the elements are met in the order they were put in front, whatever
\* was erased in between, and from `free' every other entry once: none is lost, and
\* none is in both chains; the destructor destructs every element (emplace_front(),
\* erase(), grow(), link(), unlink(), ~list()).
ListWellFormed ==
  /\ IsChain(head, order) /\ live = Range(order) /\ size = Len(order)
  /\ IsChain(free, Chain(free)) /\ Range(Chain(free)) = 1..capacity \ live
=============================================================================
