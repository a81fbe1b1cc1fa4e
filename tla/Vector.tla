------------------------------- MODULE Vector -------------------------------
(* containers::vector<T, BASE_CAPACITY>: the first elements are in `buffer', *)
(* a vector that outgrows it moves to the heap.  A cell is Raw or holds a    *)
(* constructed element.  `bad' records an element constructed over another   *)
(* one, one destructed or moved from that is not there, or a use of memory   *)
(* that is not there.  Operators take and return a vector record.            *)
EXTENDS Integers, Sequences, Functions

CONSTANTS
  Base,     \* BASE_CAPACITY
  MinHeap,  \* least capacity on the heap, 8 in the code
  Values,   \* elements: positive numbers
  MaxCount  \* bound on the elements

VARIABLES
  vec,      \* two vectors
  content   \* what each is to hold, as a sequence

vars == <<vec, content>>
Names == {"v", "w"}

Raw == 0
DefaultValue == -1  \* T()
MovedFrom == -2

Cells(n) == [i \in 1..n |-> Raw]
NewVector == [count |-> 0, capacity |-> Base, buffer |-> Cells(Base), heap |-> <<>>,
              elements |-> "buffer", bad |-> FALSE]
Init == vec = [x \in Names |-> NewVector] /\ content = [x \in Names |-> <<>>]

\* reinterpret_cast<T*>(elements)
Elements(v) == CASE v.elements = "buffer" -> v.buffer [] v.elements = "heap" -> v.heap
                 [] v.elements = "null" -> <<>>

\* Write cells of the current storage.
Store(v, cells) ==
  IF v.elements = "heap" THEN [v EXCEPT !.heap = cells]
  ELSE IF v.elements = "buffer" THEN [v EXCEPT !.buffer = cells] ELSE v

Construct(v, i, x) ==
  LET c == Elements(v)
  IN  IF i \in DOMAIN c /\ c[i] = Raw THEN Store(v, [c EXCEPT ![i] = x]) ELSE [v EXCEPT !.bad = TRUE]

\* ~T() for the elements from a to b.
Destruct(v, a, b) ==
  LET c == Elements(v)
  IN  IF \A i \in a..b : i \in DOMAIN c /\ c[i] # Raw
      THEN Store(v, [i \in DOMAIN c |-> IF i \in a..b THEN Raw ELSE c[i]])
      ELSE [v EXCEPT !.bad = TRUE]

\* free(): destruct the elements; without the heap there is no storage.
Free(v) ==
  LET d == Destruct(v, 1, v.count)
  IN  IF v.elements = "heap" THEN [d EXCEPT !.heap = <<>>, !.elements = "null"] ELSE d

\* Mutant: only as much as is asked for now, less one.
GrownCapacityOffByOne(n) == n - 1

\* std::max(n * 2, 8)
GrownCapacity(n) == IF 2 * n > MinHeap THEN 2 * n ELSE MinHeap

\* reserve(): allocate, move the elements over, free the old storage.
Reserve(v, n) ==
  IF n <= v.capacity THEN v
  ELSE LET old == Elements(v)
           cap == GrownCapacity(n)
       IN  [Free(v) EXCEPT !.capacity = cap, !.elements = "heap",
              !.heap = [i \in 1..cap |-> IF i \in 1..v.count \cap DOMAIN old THEN old[i] ELSE Raw],
              !.bad = @ \/ ~ \A i \in 1..v.count : i \in DOMAIN old /\ old[i] # Raw]

\* push_back() and emplace_back()
PushBack(v, x) ==
  LET r == Reserve(v, v.count + 1)
  IN  [Construct(r, v.count + 1, x) EXCEPT !.count = @ + 1]

PopBack(v) == [Destruct(v, v.count, v.count) EXCEPT !.count = @ - 1]

\* resize(): default elements at the end, or fewer elements.
Resize(v, n) ==
  LET r == Reserve(v, n)
      c == Elements(r)
      more == [i \in DOMAIN c |-> IF i \in v.count + 1..n THEN DefaultValue ELSE c[i]]
  IN  IF v.count < n
      THEN [Store(r, more) EXCEPT !.count = n,
              !.bad = @ \/ ~ \A i \in v.count + 1..n : i \in DOMAIN c /\ c[i] = Raw]
      ELSE [Destruct(r, n + 1, v.count) EXCEPT !.count = n]

\* operator=: free, reserve, and construct the elements of the other one.
Assign(v, xs) ==
  LET r == Reserve(Free(v), Len(xs))
      c == Elements(r)
  IN  [Store(r, [i \in DOMAIN c |-> IF i \in DOMAIN xs THEN xs[i] ELSE c[i]])
         EXCEPT !.count = Len(xs),
                !.bad = @ \/ ~ \A i \in DOMAIN xs : i \in DOMAIN c /\ c[i] = Raw]

\* operator=(vector&&): the other one's elements are moved from, then resize(0).
MovedAway(v) == Resize(Store(v, [i \in DOMAIN Elements(v) |->
                                   IF i <= v.count THEN MovedFrom ELSE Elements(v)[i]]), 0)

Held(v) == SubSeq(Elements(v), 1, v.count)
-----------------------------------------------------------------------------
Update(x, v, xs) == vec' = [vec EXCEPT ![x] = v] /\ content' = [content EXCEPT ![x] = xs]

DoPushBack(x, e) ==
  vec[x].count < MaxCount /\ Update(x, PushBack(vec[x], e), Append(content[x], e))

DoPopBack(x) ==
  vec[x].count > 0 /\ Update(x, PopBack(vec[x]), SubSeq(content[x], 1, Len(content[x]) - 1))

DoResize(x, n) ==
  Update(x, Resize(vec[x], n),
         [i \in 1..n |-> IF i \in DOMAIN content[x] THEN content[x][i] ELSE DefaultValue])

DoReserve(x, n) == Update(x, Reserve(vec[x], n), content[x])

\* The constructors assign to a vector that has just been made; any vector that
\* has never left its buffer may be assigned to, within its capacity.  Other
\* assignments are left out, and are not sound in the code: free() resets neither
\* count nor capacity, so reserve() moves destructed elements to a larger block,
\* and does not replace a block that was freed.
CanAssign(x, y) == vec[x].elements = "buffer" /\ (vec[x].count = 0 \/ vec[y].count <= vec[x].capacity)

CopyAssign(x, y) ==
  /\ x # y /\ CanAssign(x, y) /\ Update(x, Assign(vec[x], Held(vec[y])), content[y])

MoveAssign(x, y) ==
  /\ x # y /\ CanAssign(x, y)
  /\ vec' = [vec EXCEPT ![x] = Assign(vec[x], Held(vec[y])), ![y] = MovedAway(vec[y])]
  /\ content' = [content EXCEPT ![x] = content[y], ![y] = <<>>]

\* ~vector(), and another vector is made.
Renew(x) ==
  LET f == Free(vec[x])
  IN  Update(x, [NewVector EXCEPT !.bad = f.bad \/ \E i \in DOMAIN f.buffer : f.buffer[i] # Raw], <<>>)

Next ==
  \E x \in Names :
    \/ \E e \in Values : DoPushBack(x, e)
    \/ DoPopBack(x) \/ Renew(x)
    \/ \E n \in 0..MaxCount : DoResize(x, n) \/ DoReserve(x, n)
    \/ \E y \in Names : CopyAssign(x, y) \/ MoveAssign(x, y)

Spec == Init /\ [][Next]_vars
-----------------------------------------------------------------------------
\* A vector holds what was put into it, through every move to the heap; its
\* elements are constructed and destructed once each, no cell beyond them holds
\* one, and its capacity is that of its storage (reserve(), resize(), free()).
VectorContents ==
  \A x \in Names :
    LET v == vec[x]
    IN  /\ ~v.bad /\ v.count = Len(content[x]) /\ Held(v) = content[x]
        /\ Len(Elements(v)) = v.capacity
        /\ \A i \in DOMAIN Elements(v) : i > v.count => Elements(v)[i] = Raw
        /\ v.elements = "heap" => \A i \in DOMAIN v.buffer : v.buffer[i] = Raw
=============================================================================
