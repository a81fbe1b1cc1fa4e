------------------------------- MODULE Memory -------------------------------
(* The default allocator behind a TrackedAllocator, used by several threads  *)
(* through create(), make_unique_n(), StlAllocator and requests for stacks.  *)
(* Addresses are numbers.  malloc() and the page mapping calls are external: *)
(* they return any free range.  A word written next to an allocation holds   *)
(* the address malloc() returned.                                            *)
EXTENDS Integers, FiniteSetsExt

CONSTANTS
  Threads,
  MemSize,      \* addresses 0 .. MemSize - 1
  PageSize, PtrSize,
  MallocAlign,  \* alignment of what malloc() returns
  Kinds,        \* [usage, unit, alignment, useGuards]: what is allocated, n units at a time
  MaxUnits,     \* bound on n
  MaxAllocs     \* bound on the allocations there are at a time

VARIABLES
  blocks,  \* what malloc() or the system has handed out: [base, len, guards]
  words,   \* [at, base]: the words written by alignedMalloc()
  allocs,  \* [ptr, kind, n]: the allocations the callers have
  stats,   \* TrackedAllocator::stats_.byUsage
  at, arg, \* where each thread is, and what it is allocating or freeing
  bad      \* something was freed that was not handed out

vars == <<blocks, words, allocs, stats, at, arg, bad>>

Usages == {k.usage : k \in Kinds}
Nothing == [ptr |-> -1, kind |-> CHOOSE k \in Kinds : TRUE, n |-> 0]

Init ==
  /\ blocks = {} /\ words = {} /\ allocs = {} /\ bad = FALSE
  /\ stats = [u \in Usages |-> [count |-> 0, bytes |-> 0]]
  /\ at = [t \in Threads |-> "out"] /\ arg = [t \in Threads |-> Nothing]

AlignUp(val, alignment) == alignment * ((val + alignment - 1) \div alignment)

\* The request of create(), make_unique_n(), StlAllocator::request() ...
Request(a) == [size |-> a.kind.unit * a.n, alignment |-> a.kind.alignment,
               useGuards |-> a.kind.useGuards, usage |-> a.kind.usage]

\* Mutant: the request for one object, whatever n was.
DeleterRequestForOne(a) == [Request(a) EXCEPT !.size = a.kind.unit]

\* ... and the one that destroy(), Deleter and deallocate() make to free it.
DeleterRequest(a) == [Request(a) EXCEPT !.size = a.kind.unit * a.n]

\* TrackedAllocator::allocate(), with the mutex held.
Count(t, k, n) ==
  LET a == [ptr |-> -1, kind |-> k, n |-> n]
  IN  /\ Cardinality(blocks) < MaxAllocs
      /\ at[t] = "out" /\ at' = [at EXCEPT ![t] = "allocate"] /\ arg' = [arg EXCEPT ![t] = a]
      /\ stats' = [stats EXCEPT ![k.usage].count = @ + 1, ![k.usage].bytes = @ + Request(a).size]
      /\ UNCHANGED <<blocks, words, allocs, bad>>

Extent(b) == b.base..b.base + b.len - 1
IsFree(base, len) ==
  base + len <= MemSize /\ \A b \in blocks : Extent(b) \cap base..base + len - 1 = {}

\* numRequestedPages
Pages(r) == (r.size + PageSize - 1) \div PageSize

\* allocSize
AlignedSize(r) == r.size + r.alignment + PtrSize

Hand(t, base, len, guards, ptr, word) ==
  /\ IsFree(base, len)
  /\ blocks' = blocks \cup {[base |-> base, len |-> len, guards |-> guards]}
  /\ words' = words \cup word /\ allocs' = allocs \cup {[arg[t] EXCEPT !.ptr = ptr]}
  /\ at' = [at EXCEPT ![t] = "out"] /\ arg' = [arg EXCEPT ![t] = Nothing]
  /\ UNCHANGED <<stats, bad>>

\* DefaultAllocator::allocate() by pagedMalloc() with both guard pages, ...
PagedMalloc(t, page) ==
  LET r == Request(arg[t])
      base == page * PageSize
      high == base + PageSize + Pages(r) * PageSize
  IN  /\ at[t] = "allocate" /\ r.useGuards
      /\ Hand(t, base, (Pages(r) + 2) * PageSize, {base, high}, base + PageSize, {})

\* ... by alignedMalloc() ...
AlignedMalloc(t, base) ==
  LET r == Request(arg[t])
      aligned == AlignUp(base, r.alignment)
  IN  /\ at[t] = "allocate" /\ ~r.useGuards /\ r.alignment > 1 /\ base % MallocAlign = 0
      /\ Hand(t, base, AlignedSize(r), {}, aligned, {[at |-> aligned + r.size, base |-> base]})

\* ... or by malloc().
Malloc(t, base) ==
  LET r == Request(arg[t])
  IN  /\ at[t] = "allocate" /\ ~r.useGuards /\ r.alignment <= 1 /\ base % MallocAlign = 0
      /\ Hand(t, base, r.size, {}, base, {})

\* TrackedAllocator::free(), with the mutex held.
Uncount(t, a) ==
  /\ at[t] = "out" /\ a \in allocs /\ allocs' = allocs \ {a}
  /\ at' = [at EXCEPT ![t] = "free"] /\ arg' = [arg EXCEPT ![t] = a]
  /\ stats' = [stats EXCEPT ![a.kind.usage].count = @ - 1,
                            ![a.kind.usage].bytes = @ - DeleterRequest(a).size]
  /\ UNCHANGED <<blocks, words, bad>>

\* DefaultAllocator::free(): the range given back to the system, or the address
\* given back to malloc(), found again from the pointer and the request.
Freed(a) ==
  LET r == DeleterRequest(a)
  IN  {b \in blocks :
         IF r.useGuards THEN b.base = a.ptr - PageSize /\ b.len = (Pages(r) + 2) * PageSize
         ELSE IF r.alignment > 1 THEN [at |-> a.ptr + r.size, base |-> b.base] \in words
         ELSE b.base = a.ptr}

Free(t) ==
  LET gone == Freed(arg[t])
  IN  /\ at[t] = "free" /\ blocks' = blocks \ gone /\ bad' = (bad \/ Cardinality(gone) # 1)
      /\ words' = {w \in words : \A b \in gone : w.base # b.base}
      /\ at' = [at EXCEPT ![t] = "out"] /\ arg' = [arg EXCEPT ![t] = Nothing]
      /\ UNCHANGED <<allocs, stats>>

Next ==
  \E t \in Threads :
    \/ \E k \in Kinds, n \in 1..MaxUnits : Count(t, k, n)
    \/ \E a \in 0..MemSize - 1 : PagedMalloc(t, a) \/ AlignedMalloc(t, a) \/ Malloc(t, a)
    \/ \E a \in allocs : Uncount(t, a)
    \/ Free(t)

Spec == Init /\ [][Next]_vars
-----------------------------------------------------------------------------
\* The addresses of an allocation.
Bytes(a) == a.ptr..a.ptr + Request(a).size - 1

\* Every allocation is aligned as requested, lies inside what the system handed out
\* and apart from all others and from the words next to them, guard pages adjoin it
\* where asked for, it can be found again to free it, and the statistics are those of
\* the allocations there are, whichever threads are between the two steps of
\* TrackedAllocator (pagedMalloc(), alignedMalloc(), Deleter, TrackedAllocator).
AllocationsSound ==
  /\ ~bad
  /\ \A a \in allocs :
       LET r == Request(a)
       IN  /\ a.ptr % a.kind.alignment = 0
           /\ \E b \in blocks :
                /\ Bytes(a) \subseteq Extent(b)
                /\ \A g \in b.guards : Bytes(a) \cap g..g + PageSize - 1 = {}
                /\ r.useGuards => b.guards = {a.ptr - PageSize, AlignUp(a.ptr + r.size, PageSize)}
           /\ \A w \in words :
                w.at..w.at + PtrSize - 1 \subseteq UNION {Extent(b) : b \in blocks} \ Bytes(a)
           /\ \A other \in allocs \ {a} : Bytes(a) \cap Bytes(other) = {}
  /\ \A u \in Usages :
       LET counted == {a \in allocs : a.kind.usage = u}
           coming  == {t \in Threads : at[t] = "allocate" /\ arg[t].kind.usage = u}
       IN  /\ stats[u].count = Cardinality(counted) + Cardinality(coming)
           /\ stats[u].bytes = MapThenSumSet(LAMBDA a : Request(a).size, counted)
                               + MapThenSumSet(LAMBDA t : Request(arg[t]).size, coming)
=============================================================================
