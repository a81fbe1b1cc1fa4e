----------------------------- MODULE PoolProofs -----------------------------
(***************************************************************************)
(* ItemsAccounted holds for any number of users, items and calls.          *)
(***************************************************************************)
EXTENDS Pool, FiniteSetTheorems, TLAPS

Places == {"out", "borrow", "wait", "destruct", "push", "notify"}
GoingBack == {"destruct", "push"}

\* Somebody has a Loan of the item; somebody has dropped the last one.
Lent(i) == \E u \in Users : i \in loans[u]
Back(i) == \E u \in Users : at[u] \in GoingBack /\ item[u] = i

TypeInv ==
  /\ kind \in {"Bounded", "Unbounded"}
  /\ policy \in {"Reconstruct", "Preserve"}
  /\ exists \in [pool : BOOLEAN, storage : BOOLEAN]
  /\ items \in 0..MaxItems
  /\ free \in Seq(1..items)
  /\ refcount \in [Items -> Nat]
  /\ loans \in [Users -> SUBSET (1..items)]
  /\ at \in [Users -> Places]
  /\ item \in [Users -> Nat]

\* A user of the storage keeps it there: the pool for borrow(), a Loan for the rest.
Owned ==
  /\ \A u \in Users : at[u] \in {"borrow", "wait"} => exists.pool
  /\ exists.pool => exists.storage
  /\ ~exists.storage => live = {} /\ \A u \in Users : at[u] = "out" /\ loans[u] = {}

\* Item::refcount counts the Loans.
Counted == \A i \in Items : refcount[i] = Cardinality(Holders(i))

\* An item is free, on loan, or on its way back, and no two of these.
Placed ==
  /\ IsInjective(free)
  /\ \A i \in Range(free) : ~Lent(i) /\ ~Back(i)
  /\ \A u \in Users : at[u] \in GoingBack => item[u] \in 1..items /\ ~Lent(item[u])
  /\ \A u, v \in Users : at[u] \in GoingBack /\ at[v] \in GoingBack /\ item[u] = item[v] => u = v
  /\ \A i \in 1..items : i \in Range(free) \/ Lent(i) \/ Back(i)

\* With PoolPolicy::Preserve data is constructed for as long as the storage
\* lives, otherwise from borrow() to return_().
Constructed ==
  /\ live \subseteq 1..items
  /\ policy = "Preserve" /\ exists.storage => live = 1..items
  /\ policy = "Reconstruct" => \A i \in 1..items :
       i \in live <=> Lent(i) \/ \E u \in Users : at[u] = "destruct" /\ item[u] = i

PoolInv == TypeInv /\ Owned /\ Counted /\ Placed /\ Constructed
-----------------------------------------------------------------------------
(* Facts about the chain of free items.                                    *)

\* Taking the first item of a chain.
LEMMA TailOfChain ==
  ASSUME NEW S, NEW s \in Seq(S), s # <<>>, IsInjective(s)
  PROVE  /\ Head(s) \in S /\ Head(s) \in Range(s)
         /\ Tail(s) \in Seq(S)
         /\ IsInjective(Tail(s))
         /\ Range(Tail(s)) = Range(s) \ {Head(s)}
<1>1. Len(s) \in Nat \ {0} /\ DOMAIN s = 1..Len(s) /\ Head(s) = s[1] /\ s[1] \in S
  OBVIOUS
<1>2. /\ Tail(s) \in Seq(S) /\ DOMAIN Tail(s) = 1..(Len(s) - 1)
      /\ \A k \in 1..(Len(s) - 1) : Tail(s)[k] = s[k + 1]
  BY <1>1
<1>3. \A a, b \in 1..Len(s) : s[a] = s[b] => a = b
  BY <1>1 DEF IsInjective
<1>4. Range(Tail(s)) \subseteq Range(s) \ {Head(s)}
  BY <1>1, <1>2, <1>3 DEF Range
<1>5. ASSUME NEW k \in 1..Len(s), s[k] # Head(s) PROVE s[k] \in Range(Tail(s))
  <2>1. k # 1 /\ k - 1 \in 1..(Len(s) - 1) /\ Tail(s)[k - 1] = s[k]
    BY <1>1, <1>2, <1>5
  <2> QED BY Zenon, <1>2, <2>1 DEF Range
<1>6. Range(Tail(s)) = Range(s) \ {Head(s)}
  BY <1>1, <1>4, <1>5 DEF Range
<1>7. IsInjective(Tail(s))
  BY <1>1, <1>2, <1>3 DEF IsInjective
<1> QED BY <1>1, <1>2, <1>6, <1>7 DEF Range

\* Putting an item in front of a chain it is not on.
LEMMA PushOnChain ==
  ASSUME NEW S, NEW s \in Seq(S), NEW x \in S, x \notin Range(s), IsInjective(s),
         NEW t \in Seq(S), Len(t) = Len(s) + 1, t[1] = x,
         \A k \in 1..Len(s) : t[k + 1] = s[k]
  PROVE  IsInjective(t) /\ Range(t) = Range(s) \cup {x}
<1>1. /\ t \in Seq(S) /\ DOMAIN t = 1..(Len(s) + 1) /\ t[1] = x
      /\ \A k \in 1..Len(s) : t[k + 1] = s[k]
      /\ Len(s) \in Nat /\ DOMAIN s = 1..Len(s)
  OBVIOUS
<1>2. \A k \in 1..(Len(s) + 1) : k = 1 \/ (k - 1 \in 1..Len(s) /\ t[k] = s[k - 1])
  BY <1>1
<1>3. Range(t) = Range(s) \cup {x}
  <2>1. Range(t) \subseteq Range(s) \cup {x}
    <3>1. ASSUME NEW k \in 1..(Len(s) + 1) PROVE t[k] \in Range(s) \cup {x}
      BY Zenon, <1>1, <1>2 DEF Range
    <3> QED BY <1>1, <3>1 DEF Range
  <2>2. \A k \in 1..Len(s) : k + 1 \in 1..(Len(s) + 1)
    BY <1>1
  <2>3. Range(s) \subseteq Range(t)
    BY <1>1, <2>2 DEF Range
  <2>4. x \in Range(t)
    BY <1>1 DEF Range
  <2> QED BY <2>1, <2>3, <2>4
<1>4. IsInjective(t)
  <2>1. \A a, b \in 1..Len(s) : s[a] = s[b] => a = b
    BY Zenon, <1>1 DEF IsInjective
  <2>2. \A a \in 1..Len(s) : s[a] # x
    BY <1>1 DEF Range
  <2>3. ASSUME NEW a \in 1..(Len(s) + 1), NEW b \in 1..(Len(s) + 1), t[a] = t[b]
        PROVE  a = b
    BY <1>1, <1>2, <2>1, <2>2, <2>3
  <2> QED BY <1>1, <2>3 DEF IsInjective
<1> QED BY <1>1, <1>3, <1>4

\* A chain of items of S is one of any larger set.
LEMMA SeqMonotone ==
  ASSUME NEW S, NEW T, S \subseteq T, NEW s \in Seq(S)
  PROVE  s \in Seq(T)
OBVIOUS

\* The chain that g new items make on top of a old ones.
LEMMA NewChain ==
  ASSUME NEW a \in Nat, NEW g \in Nat, NEW s, s = [k \in 1..g |-> a + g + 1 - k]
  PROVE  /\ s \in Seq((a + 1)..(a + g))
         /\ IsInjective(s)
         /\ Range(s) = (a + 1)..(a + g)
         /\ g > 0 => s # <<>> /\ Head(s) = a + g
<1>1. DOMAIN s = 1..g /\ \A k \in 1..g : s[k] = a + g + 1 - k
  OBVIOUS
<1>2. s \in Seq((a + 1)..(a + g)) /\ Len(s) = g
  OBVIOUS
<1>3. IsInjective(s)
  BY <1>1 DEF IsInjective
<1>4. Range(s) = (a + 1)..(a + g)
  <2>1. Range(s) \subseteq (a + 1)..(a + g)
    BY <1>1 DEF Range
  <2>2. ASSUME NEW i \in (a + 1)..(a + g) PROVE i \in Range(s)
    <3>1. a + g + 1 - i \in 1..g /\ s[a + g + 1 - i] = i
      BY <1>1
    <3> QED BY <1>1, <3>1 DEF Range
  <2> QED BY Zenon, <2>1, <2>2
<1>5. g > 0 => s # <<>> /\ Head(s) = a + g
  BY <1>1, <1>2
<1> QED BY <1>2, <1>3, <1>4, <1>5
-----------------------------------------------------------------------------
(* The invariant holds initially, and every step keeps it.                 *)

\* The constructor of Storage puts every item on the chain.
LEMMA PoolInit == Init => PoolInv
<1> SUFFICES ASSUME Init PROVE PoolInv
  OBVIOUS
<1> USE PoolAssumption
<1>1. /\ items \in 0..MaxItems /\ kind \in {"Bounded", "Unbounded"}
      /\ policy \in {"Reconstruct", "Preserve"} /\ exists = [pool |-> TRUE, storage |-> TRUE]
  BY DEF Init
<1>2. /\ free \in Seq(1..items) /\ IsInjective(free) /\ Range(free) = 1..items
  <2>1. free = [k \in 1..items |-> 0 + items + 1 - k]
    BY <1>1 DEF Init
  <2> QED BY <1>1, <2>1, NewChain
<1>3. /\ refcount = [i \in Items |-> 0] /\ loans = [u \in Users |-> {}]
      /\ at = [u \in Users |-> "out"] /\ item = [u \in Users |-> 0]
      /\ live = IF policy = "Reconstruct" THEN {} ELSE 1..items
  BY DEF Init, Reconstruct
<1>4. \A i : ~Lent(i) /\ ~Back(i) /\ Holders(i) = {}
  BY <1>3 DEF Lent, Back, Holders, GoingBack
<1>5. TypeInv
  BY <1>1, <1>2, <1>3 DEF TypeInv, Places
<1>6. Owned
  BY <1>1, <1>3 DEF Owned
<1>7. Counted
  BY Zenon, <1>3, <1>4, FS_EmptySet DEF Counted
<1>8. Placed
  BY <1>2, <1>3, <1>4 DEF Placed, GoingBack
<1>9. Constructed
  BY <1>1, <1>3, <1>4 DEF Constructed
<1> QED BY <1>5, <1>6, <1>7, <1>8, <1>9 DEF PoolInv

\* A step that moves a user about, but neither to nor from the way back, and
\* touches no item.
LEMMA MoveKeeps ==
  ASSUME PoolInv, NEW u \in Users, NEW place \in Places \ GoingBack, at[u] \notin GoingBack,
         UNCHANGED <<kind, policy, exists, items, free, refcount, live, loans, item>>,
         at' = [at EXCEPT ![u] = place], exists.storage,
         place \in {"borrow", "wait"} => exists.pool
  PROVE  PoolInv'
<1>1. \A v \in Users : at'[v] = IF v = u THEN place ELSE at[v]
  BY DEF PoolInv, TypeInv
<1>2. \A v \in Users : (at'[v] \in GoingBack <=> at[v] \in GoingBack)
                       /\ (at'[v] = "destruct" <=> at[v] = "destruct")
  BY <1>1 DEF GoingBack
<1>3. \A i : (Lent(i)' <=> Lent(i)) /\ (Back(i)' <=> Back(i)) /\ Holders(i)' = Holders(i)
  BY <1>2 DEF Lent, Back, Holders
<1>4. TypeInv'
  BY DEF PoolInv, TypeInv, Items
<1>5. Owned'
  BY <1>1 DEF PoolInv, Owned
<1>6. Counted'
  BY <1>3 DEF PoolInv, Counted, Items
<1>7. Placed'
  BY <1>2, <1>3 DEF PoolInv, Placed
<1>8. Constructed'
  BY <1>2, <1>3 DEF PoolInv, Constructed
<1> QED BY <1>4, <1>5, <1>6, <1>7, <1>8 DEF PoolInv

\* borrow() takes its item from a chain that holds the free items and the new ones.
LEMMA GrownChain ==
  ASSUME TypeInv, Placed, kind = "Unbounded" \/ free # <<>>, items + Growth <= MaxItems
  PROVE  /\ Growth \in Nat /\ Grown \in Seq(1..(items + Growth)) /\ Grown # <<>>
         /\ IsInjective(Grown)
         /\ Range(Grown) = Range(free) \cup (items + 1)..(items + Growth)
<1> USE PoolAssumption
<1>1. items \in Nat /\ Batch \in Nat \ {0} /\ free \in Seq(1..items) /\ IsInjective(free)
  BY DEF TypeInv, Placed
<1>2. CASE kind = "Unbounded" /\ free = <<>>
  <2>1. Growth \in Nat \ {0}
    BY <1>1, <1>2 DEF Growth
  <2>2. Grown = [k \in 1..Growth |-> items + Growth + 1 - k]
    BY <2>1 DEF Grown
  <2>3. /\ Grown \in Seq((items + 1)..(items + Growth)) /\ IsInjective(Grown)
        /\ Range(Grown) = (items + 1)..(items + Growth) /\ Grown # <<>>
    <3>1. Growth \in Nat /\ Growth > 0
      BY <2>1
    <3> QED BY Zenon, <1>1, <2>2, <3>1, NewChain
  <2>4. Range(free) = {}
    BY <1>2 DEF Range
  <2>5. (items + 1)..(items + Growth) \subseteq 1..(items + Growth)
    BY <1>1, <2>1
  <2>6. Grown \in Seq(1..(items + Growth))
    BY Zenon, <2>3, <2>5, SeqMonotone
  <2> QED BY <2>1, <2>3, <2>4, <2>6
<1>3. CASE ~(kind = "Unbounded" /\ free = <<>>)
  <2>1. Growth = 0 /\ Grown = free /\ free # <<>>
    BY <1>3 DEF Growth, Grown
  <2>2. items + 0 = items /\ (items + 1)..(items + 0) = {}
    BY <1>1
  <2> QED BY <1>1, <2>1, <2>2
<1> QED BY <1>2, <1>3

\* borrow() hands out an item of the chain: it had no Loan, now it has one.
LEMMA TakeItemKeeps ==
  ASSUME PoolInv, NEW u \in Users, TakeItem(u)
  PROVE  PoolInv'
<1> USE PoolAssumption
<1>x. PICK x : x = Head(Grown)
  OBVIOUS
<1>0. TypeInv /\ Owned /\ Counted /\ Placed /\ Constructed
  BY DEF PoolInv
<1>1. /\ at[u] = "borrow" /\ (kind = "Unbounded" \/ free # <<>>) /\ items + Growth <= MaxItems
      /\ items' = items + Growth /\ free' = Tail(Grown)
      /\ live' = live \cup IF policy = "Reconstruct" THEN {x} ELSE (items + 1)..(items + Growth)
      /\ refcount' = [refcount EXCEPT ![x] = @ + 1]
      /\ loans' = [loans EXCEPT ![u] = @ \cup {x}]
      /\ kind' = kind /\ policy' = policy /\ exists' = exists /\ item' = item
      /\ at' = at \/ at' = [at EXCEPT ![u] = "out"]
  BY <1>x DEF TakeItem, fixed, Move, Reconstruct
<1>2. /\ Growth \in Nat /\ Grown \in Seq(1..(items + Growth)) /\ Grown # <<>>
      /\ IsInjective(Grown)
      /\ Range(Grown) = Range(free) \cup (items + 1)..(items + Growth)
  BY <1>0, <1>1, GrownChain
<1>3. /\ x \in 1..(items + Growth) /\ x \in Range(Grown)
      /\ Tail(Grown) \in Seq(1..(items + Growth)) /\ IsInjective(Tail(Grown))
      /\ Range(Tail(Grown)) = Range(Grown) \ {x}
  BY Zenon, <1>x, <1>2, TailOfChain
<1>4. /\ items \in Nat /\ MaxItems \in Nat /\ exists.pool /\ exists.storage
      /\ loans \in [Users -> SUBSET (1..items)] /\ at \in [Users -> Places]
      /\ item \in [Users -> Nat] /\ refcount \in [Items -> Nat]
      /\ exists \in [pool : BOOLEAN, storage : BOOLEAN]
  BY <1>0, <1>1 DEF TypeInv, Owned
<1>5. /\ \A v \in Users : loans'[v] = IF v = u THEN loans[u] \cup {x} ELSE loans[v]
      /\ \A v \in Users : v # u => at'[v] = at[v]
      /\ at[u] = "borrow" /\ at'[u] \in {"borrow", "out"} /\ at' \in [Users -> Places]
  BY ZenonT(60), <1>1, <1>4 DEF Places
<1>6. /\ \A v \in Users : at'[v] \in GoingBack <=> at[v] \in GoingBack
      /\ \A v \in Users : at'[v] = "destruct" <=> at[v] = "destruct"
  BY <1>5 DEF GoingBack
<1>7. /\ \A i : Lent(i)' <=> Lent(i) \/ i = x
      /\ \A i : Back(i)' <=> Back(i)
      /\ \A i : i # x => Holders(i)' = Holders(i)
      /\ Holders(x)' = Holders(x) \cup {u}
  <2>1. \A i : Lent(i)' <=> Lent(i) \/ i = x
    BY <1>5 DEF Lent
  <2>2. \A i : Back(i)' <=> Back(i)
    BY <1>1, <1>6 DEF Back
  <2>3. \A i : i # x => Holders(i)' = Holders(i)
    BY <1>5 DEF Holders
  <2>4. Holders(x)' = Holders(x) \cup {u}
    BY <1>5 DEF Holders
  <2> QED BY <2>1, <2>2, <2>3, <2>4
<1>8. \A i \in Range(Grown) : ~Lent(i) /\ ~Back(i)
  <2>1. \A i \in Range(free) : ~Lent(i) /\ ~Back(i)
    BY <1>0 DEF Placed
  <2>2. \A i : Lent(i) => i \in 1..items
    BY <1>4 DEF Lent
  <2>3. \A i : Back(i) => i \in 1..items
    BY <1>0 DEF Back, Placed
  <2>4. \A i \in (items + 1)..(items + Growth) : i \notin 1..items
    BY <1>2, <1>4
  <2> QED BY <1>2, <2>1, <2>2, <2>3, <2>4
<1>9. 1..items \subseteq 1..(items + Growth) /\ items + Growth \in 0..MaxItems /\ x \in Items
  BY <1>1, <1>2, <1>3, <1>4 DEF Items
<1>10. TypeInv'
  <2>1. loans' \in [Users -> SUBSET (1..(items + Growth))]
    BY Zenon, <1>1, <1>3, <1>4, <1>9
  <2>2. refcount' \in [Items -> Nat]
    BY <1>1, <1>4, <1>9
  <2>3. kind \in {"Bounded", "Unbounded"} /\ policy \in {"Reconstruct", "Preserve"}
    BY <1>0 DEF TypeInv
  <2> QED BY Zenon, <1>1, <1>3, <1>4, <1>5, <1>9, <2>1, <2>2, <2>3 DEF TypeInv, Items
<1>11. Owned'
  BY <1>1, <1>4, <1>5 DEF Owned
<1>12. Counted'
  <2>1. Holders(x) = {} /\ refcount[x] = 0
    <3>1. Holders(x) = {}
      BY <1>3, <1>8 DEF Lent, Holders
    <3> QED BY Zenon, <1>0, <1>9, <3>1, FS_EmptySet DEF Counted
  <2>2. Holders(x)' = {u} /\ refcount'[x] = 1
    BY <1>1, <1>4, <1>7, <1>9, <2>1
  <2>3. refcount'[x] = Cardinality(Holders(x)')
    BY <2>2, FS_Singleton
  <2>4. \A i \in Items : i # x => refcount'[i] = refcount[i] /\ Holders(i)' = Holders(i)
    BY <1>1, <1>4, <1>7
  <2>5. \A i \in Items : refcount[i] = Cardinality(Holders(i))
    BY <1>0 DEF Counted
  <2> QED BY <2>3, <2>4, <2>5 DEF Counted, Items
<1>13. Placed'
  <2>1. /\ \A v \in Users : at[v] \in GoingBack => item[v] \in 1..items /\ ~Lent(item[v])
        /\ \A v, w \in Users :
             at[v] \in GoingBack /\ at[w] \in GoingBack /\ item[v] = item[w] => v = w
        /\ \A i \in 1..items : i \in Range(free) \/ Lent(i) \/ Back(i)
    BY <1>0 DEF Placed
  <2>2. (\A i \in Range(free) : ~Lent(i) /\ ~Back(i))'
    BY <1>1, <1>3, <1>7, <1>8
  <2>3. (\A v \in Users : at[v] \in GoingBack => item[v] \in 1..items /\ ~Lent(item[v]))'
    <3>1. ASSUME NEW v \in Users, at[v] \in GoingBack PROVE item[v] # x
      BY <1>3, <1>8, <3>1 DEF Back
    <3> QED BY <1>1, <1>6, <1>7, <1>9, <2>1, <3>1
  <2>4. \A i \in 1..(items + Growth) : i \in Range(Grown) \/ Lent(i) \/ Back(i)
    BY <1>2, <1>4, <2>1
  <2>5. (\A i \in 1..items : i \in Range(free) \/ Lent(i) \/ Back(i))'
    BY <1>1, <1>3, <1>7, <2>4
  <2> QED BY <1>1, <1>3, <1>6, <2>1, <2>2, <2>3, <2>5 DEF Placed
<1>14. Constructed'
  <2>1. /\ live \subseteq 1..items /\ (policy = "Preserve" => live = 1..items)
        /\ policy = "Reconstruct" => \A i \in 1..items :
             i \in live <=> Lent(i) \/ \E v \in Users : at[v] = "destruct" /\ item[v] = i
    BY <1>0, <1>4 DEF Constructed
  <2>2. (items + 1)..(items + Growth) \subseteq 1..(items + Growth)
    BY <1>2, <1>4
  <2>3. 1..(items + Growth) = 1..items \cup (items + 1)..(items + Growth)
    BY <1>2, <1>4
  <2>4. CASE policy = "Preserve"
    BY <1>1, <2>1, <2>2, <2>3, <2>4 DEF Constructed
  <2>5. CASE policy = "Reconstruct"
    <3>1. live' = live \cup {x} /\ live' \subseteq 1..items'
      BY Zenon, <1>1, <1>3, <1>9, <2>1, <2>5
    <3>2. \A i : (\E v \in Users : at'[v] = "destruct" /\ item'[v] = i)
                 <=> (\E v \in Users : at[v] = "destruct" /\ item[v] = i)
      BY <1>1, <1>6
    <3>3. \A i \in (items + 1)..(items + Growth) :
            i \notin 1..items /\ ~Lent(i) /\ ~\E v \in Users : at[v] = "destruct" /\ item[v] = i
      <4>1. \A i : (\E v \in Users : at[v] = "destruct" /\ item[v] = i) => Back(i)
        BY DEF Back, GoingBack
      <4>2. \A i \in (items + 1)..(items + Growth) : i \notin 1..items
        BY <1>2, <1>4
      <4>3. \A i \in (items + 1)..(items + Growth) : ~Lent(i) /\ ~Back(i)
        BY <1>2, <1>8
      <4> QED BY <4>1, <4>2, <4>3
    <3>4. \A i \in 1..items' :
            i \in live' <=> Lent(i)' \/ \E v \in Users : at'[v] = "destruct" /\ item'[v] = i
      BY Zenon, <1>1, <1>7, <2>1, <2>3, <2>5, <3>1, <3>2, <3>3
    <3> QED BY <1>1, <2>5, <3>1, <3>4 DEF Constructed
  <2> QED BY <1>0, <2>4, <2>5 DEF TypeInv
<1> QED BY <1>10, <1>11, <1>12, <1>13, <1>14 DEF PoolInv
-----------------------------------------------------------------------------
(* Loans.                                                                  *)

\* There are finitely many Loans of an item.
LEMMA HoldersFinite ==
  ASSUME NEW i
  PROVE  IsFiniteSet(Holders(i)) /\ Cardinality(Holders(i)) \in Nat
<1>1. Holders(i) \subseteq Users /\ IsFiniteSet(Users)
  BY PoolAssumption DEF Holders
<1> QED BY <1>1, FS_Subset, FS_CardinalityType

\* A step that only passes Loans around, in which each item stays on loan or off it.
LEMMA PassKeeps ==
  ASSUME PoolInv, exists.storage, Counted',
         UNCHANGED <<kind, policy, exists, items, free, live, at, item>>,
         loans' \in [Users -> SUBSET (1..items)], refcount' \in [Items -> Nat],
         \A i : Lent(i)' <=> Lent(i)
  PROVE  PoolInv'
<1>1. TypeInv /\ Owned /\ Placed /\ Constructed
  BY DEF PoolInv
<1>2. TypeInv'
  BY <1>1 DEF TypeInv, Items
<1>3. Owned'
  BY <1>1 DEF Owned
<1>4. \A i : Back(i)' <=> Back(i)
  BY DEF Back
<1>5. Placed'
  BY <1>1, <1>4 DEF Placed
<1>6. Constructed'
  BY <1>1 DEF Constructed
<1> QED BY <1>2, <1>3, <1>5, <1>6 DEF PoolInv

\* Loan(const Loan&): the item has one more holder and one more reference.
LEMMA CopyLoanKeeps ==
  ASSUME PoolInv, NEW u \in Users, NEW v \in Users, NEW i \in Items, CopyLoan(u, v, i)
  PROVE  PoolInv'
<1>1. /\ i \in loans[u] /\ i \notin loans[v]
      /\ refcount' = [refcount EXCEPT ![i] = @ + 1] /\ loans' = [loans EXCEPT ![v] = @ \cup {i}]
      /\ UNCHANGED <<kind, policy, exists, items, free, live, at, item>>
  BY DEF CopyLoan, fixed
<1>2. /\ loans \in [Users -> SUBSET (1..items)] /\ refcount \in [Items -> Nat]
      /\ \A j \in Items : refcount[j] = Cardinality(Holders(j))
  BY DEF PoolInv, TypeInv, Counted
<1>3. exists.storage
  BY <1>1 DEF PoolInv, Owned
<1>4. \A w \in Users : loans'[w] = IF w = v THEN loans[v] \cup {i} ELSE loans[w]
  BY <1>1, <1>2
<1>5. loans' \in [Users -> SUBSET (1..items)] /\ refcount' \in [Items -> Nat]
  BY <1>1, <1>2
<1>6. \A j : Lent(j)' <=> Lent(j)
  BY <1>1, <1>4 DEF Lent
<1>7. /\ v \notin Holders(i) /\ Holders(i)' = Holders(i) \cup {v}
      /\ \A j : j # i => Holders(j)' = Holders(j)
  BY <1>1, <1>4 DEF Holders
<1>8. Cardinality(Holders(i)') = Cardinality(Holders(i)) + 1
  BY ZenonT(60), <1>7, HoldersFinite, FS_AddElement
<1>9. \A j \in Items : refcount'[j] = Cardinality(Holders(j)')
  BY Zenon, <1>1, <1>2, <1>7, <1>8
<1>10. Counted'
  BY <1>9 DEF Counted, Items
<1> QED BY <1>1, <1>3, <1>5, <1>6, <1>10, PassKeeps

\* Loan(Loan&&): one holder less and one more, the count stays.
LEMMA MoveLoanKeeps ==
  ASSUME PoolInv, NEW u \in Users, NEW v \in Users, NEW i \in Items, MoveLoan(u, v, i)
  PROVE  PoolInv'
<1>1. /\ i \in loans[u] /\ i \notin loans[v] /\ u # v
      /\ loans' = [loans EXCEPT ![u] = @ \ {i}, ![v] = @ \cup {i}]
      /\ UNCHANGED <<kind, policy, exists, items, free, refcount, live, at, item>>
  BY DEF MoveLoan, fixed
<1>2. /\ loans \in [Users -> SUBSET (1..items)] /\ refcount \in [Items -> Nat]
      /\ \A j \in Items : refcount[j] = Cardinality(Holders(j))
  BY DEF PoolInv, TypeInv, Counted
<1>3. exists.storage
  BY <1>1 DEF PoolInv, Owned
<1>4. \A w \in Users : loans'[w] = IF w = v THEN loans[v] \cup {i}
                                   ELSE IF w = u THEN loans[u] \ {i} ELSE loans[w]
  BY Zenon, <1>1, <1>2
<1>5. loans' \in [Users -> SUBSET (1..items)] /\ refcount' \in [Items -> Nat]
  BY <1>1, <1>2
<1>6. \A j : Lent(j)' <=> Lent(j)
  <2>1. Lent(i) /\ Lent(i)'
    <3>1. i \in loans'[v]
      BY <1>4
    <3> QED BY <1>1, <3>1 DEF Lent
  <2>2. \A j : j # i => \A w \in Users : j \in loans'[w] <=> j \in loans[w]
    BY <1>4
  <2> QED BY <2>1, <2>2 DEF Lent
<1>7. /\ u \in Holders(i) /\ v \notin Holders(i) \ {u}
      /\ Holders(i)' = (Holders(i) \ {u}) \cup {v}
      /\ \A j : j # i => Holders(j)' = Holders(j)
  <2>1. \A w \in Users : i \in loans'[w] <=> (i \in loans[w] /\ w # u) \/ w = v
    <3>1. ASSUME NEW w \in Users
          PROVE  i \in loans'[w] <=> (i \in loans[w] /\ w # u) \/ w = v
      <4>1. CASE w = v
        BY <1>4, <4>1
      <4>2. CASE w # v /\ w = u
        BY <1>4, <4>2
      <4>3. CASE w # v /\ w # u
        BY <1>4, <4>3
      <4> QED BY <4>1, <4>2, <4>3
    <3> QED BY <3>1
  <2>2. \A j : j # i => \A w \in Users : j \in loans'[w] <=> j \in loans[w]
    BY <1>4
  <2>3. u \in Holders(i) /\ v \notin Holders(i) \ {u}
    BY <1>1 DEF Holders
  <2>4. Holders(i)' = (Holders(i) \ {u}) \cup {v}
    BY <2>1 DEF Holders
  <2>5. \A j : j # i => Holders(j)' = Holders(j)
    BY <2>2 DEF Holders
  <2> QED BY <2>3, <2>4, <2>5
<1>8. /\ IsFiniteSet(Holders(i) \ {u})
      /\ Cardinality(Holders(i) \ {u}) = Cardinality(Holders(i)) - 1
  <2>1. IsFiniteSet(Holders(i))
    BY HoldersFinite
  <2> QED BY <1>7, <2>1, FS_RemoveElement
<1>9. Cardinality(Holders(i)') = Cardinality(Holders(i) \ {u}) + 1
  BY <1>7, <1>8, FS_AddElement
<1>10. Cardinality(Holders(i)') = Cardinality(Holders(i))
  <2>1. Cardinality(Holders(i)) \in Nat
    BY HoldersFinite
  <2> QED BY <1>8, <1>9, <2>1
<1>11. \A j \in Items : refcount'[j] = Cardinality(Holders(j)')
  BY Zenon, <1>1, <1>2, <1>7, <1>10
<1>12. Counted'
  BY <1>11 DEF Counted, Items
<1> QED BY <1>1, <1>3, <1>5, <1>6, <1>12, PassKeeps

\* reset(): the count that reaches 0 is that of the only holder, which takes the
\* item on its way back.
LEMMA ResetKeeps ==
  ASSUME PoolInv, NEW u \in Users, NEW i \in Items, Reset(u, i)
  PROVE  PoolInv'
<1>1. /\ i \in loans[u] /\ at[u] = "out"
      /\ refcount' = [refcount EXCEPT ![i] = @ - 1] /\ loans' = [loans EXCEPT ![u] = @ \ {i}]
      /\ UNCHANGED <<kind, policy, exists, items, free, live>>
  BY DEF Reset, fixed
<1>2. /\ IsLast(i) => at' = [at EXCEPT ![u] = "destruct"] /\ item' = [item EXCEPT ![u] = i]
      /\ ~IsLast(i) => at' = at /\ item' = item
  BY DEF Reset, Move
<1>3. /\ loans \in [Users -> SUBSET (1..items)] /\ refcount \in [Items -> Nat]
      /\ at \in [Users -> Places] /\ item \in [Users -> Nat] /\ i \in 1..items /\ items \in Nat
      /\ \A j \in Items : refcount[j] = Cardinality(Holders(j))
  BY <1>1 DEF PoolInv, TypeInv, Counted
<1>4. TypeInv /\ Owned /\ Placed /\ Constructed /\ exists.storage
  BY <1>1 DEF PoolInv, Owned
<1>5. \A w \in Users : loans'[w] = IF w = u THEN loans[u] \ {i} ELSE loans[w]
  BY <1>1, <1>3
<1>6. /\ u \in Holders(i) /\ Holders(i)' = Holders(i) \ {u}
      /\ \A j : j # i => Holders(j)' = Holders(j)
  <2>1. \A w \in Users : i \in loans'[w] <=> i \in loans[w] /\ w # u
    BY <1>5
  <2>2. \A j : j # i => \A w \in Users : j \in loans'[w] <=> j \in loans[w]
    BY <1>5
  <2> QED BY <1>1, <2>1, <2>2 DEF Holders
<1>7. /\ IsFiniteSet(Holders(i)')
      /\ Cardinality(Holders(i)') = Cardinality(Holders(i)) - 1
      /\ Cardinality(Holders(i)') \in Nat
  <2>1. IsFiniteSet(Holders(i))
    BY HoldersFinite
  <2>2. /\ IsFiniteSet(Holders(i) \ {u})
        /\ Cardinality(Holders(i) \ {u}) = Cardinality(Holders(i)) - 1
    BY <1>6, <2>1, FS_RemoveElement
  <2> QED BY <1>6, <2>2, FS_CardinalityType
<1>8. IsLast(i) <=> ~Lent(i)'
  <2>1. IsLast(i) <=> Cardinality(Holders(i)') = 0
    BY <1>3, <1>7 DEF IsLast
  <2>2. Cardinality(Holders(i)') = 0 <=> Holders(i)' = {}
    BY Zenon, <1>7, FS_EmptySet
  <2>3. Lent(i)' <=> Holders(i)' # {}
    BY DEF Lent, Holders
  <2> QED BY <2>1, <2>2, <2>3
<1>9. Lent(i) /\ \A j : j # i => (Lent(j)' <=> Lent(j))
  <2>1. \A j : Lent(j) <=> Holders(j) # {}
    BY DEF Lent, Holders
  <2>2. \A j : Lent(j)' <=> Holders(j)' # {}
    BY DEF Lent, Holders
  <2> QED BY <1>6, <2>1, <2>2
<1>10. loans' \in [Users -> SUBSET (1..items)] /\ refcount' \in [Items -> Nat]
  <2>1. refcount[i] - 1 \in Nat
    BY <1>3, <1>7
  <2> QED BY <1>1, <1>3, <2>1
<1>11. Counted'
  <2>1. \A j \in Items : refcount'[j] = Cardinality(Holders(j)')
    BY Zenon, <1>1, <1>3, <1>6, <1>7
  <2> QED BY <2>1 DEF Counted, Items
<1>12. CASE ~IsLast(i)
  <2>1. \A j : Lent(j)' <=> Lent(j)
    BY <1>8, <1>9, <1>12
  <2> QED BY <1>1, <1>2, <1>4, <1>10, <1>11, <1>12, <2>1, PassKeeps
<1>13. CASE IsLast(i)
  <2>1. /\ \A w \in Users : w # u => at'[w] = at[w] /\ item'[w] = item[w]
        /\ at'[u] = "destruct" /\ item'[u] = i
        /\ at' \in [Users -> Places] /\ item' \in [Users -> Nat]
    BY <1>2, <1>3, <1>13 DEF Places
  <2>2. ~Lent(i)' /\ \A j : Lent(j)' => Lent(j)
    BY <1>8, <1>9, <1>13
  <2>3. \A j : Back(j)' <=> Back(j) \/ j = i
    BY <1>1, <2>1 DEF Back, GoingBack
  <2>4. TypeInv'
    BY Zenon, <1>1, <1>4, <1>10, <2>1 DEF TypeInv, Items
  <2>5. Owned'
    BY Zenon, <1>1, <1>4, <2>1 DEF Owned
  <2>6. Placed'
    <3>1. /\ IsInjective(free) /\ \A j \in Range(free) : ~Lent(j) /\ ~Back(j)
          /\ \A w \in Users : at[w] \in GoingBack => item[w] \in 1..items /\ ~Lent(item[w])
          /\ \A w, v \in Users :
               at[w] \in GoingBack /\ at[v] \in GoingBack /\ item[w] = item[v] => w = v
          /\ \A j \in 1..items : j \in Range(free) \/ Lent(j) \/ Back(j)
      BY Zenon, <1>4 DEF Placed
    <3>2. (\A j \in Range(free) : ~Lent(j) /\ ~Back(j))'
      BY Zenon, <1>1, <1>9, <2>2, <2>3, <3>1
    <3>3. (\A w \in Users : at[w] \in GoingBack => item[w] \in 1..items /\ ~Lent(item[w]))'
      BY Zenon, <1>1, <1>3, <2>1, <2>2, <3>1
    <3>4. \A w \in Users : w # u /\ at'[w] \in GoingBack => item'[w] # i
      BY Zenon, <1>9, <2>1, <3>1
    <3>5. (\A w, v \in Users :
             at[w] \in GoingBack /\ at[v] \in GoingBack /\ item[w] = item[v] => w = v)'
      BY Zenon, <2>1, <3>1, <3>4
    <3>6. (\A j \in 1..items : j \in Range(free) \/ Lent(j) \/ Back(j))'
      BY Zenon, <1>1, <1>9, <2>3, <3>1
    <3> QED BY Zenon, <1>1, <3>1, <3>2, <3>3, <3>5, <3>6 DEF Placed
  <2>7. Constructed'
    <3>1. \A j : (\E w \in Users : at'[w] = "destruct" /\ item'[w] = j)
                 <=> (\E w \in Users : at[w] = "destruct" /\ item[w] = j) \/ j = i
      BY <1>1, <2>1
    <3>2. /\ live \subseteq 1..items /\ (policy = "Preserve" /\ exists.storage => live = 1..items)
          /\ policy = "Reconstruct" => \A j \in 1..items :
               j \in live <=> Lent(j) \/ \E w \in Users : at[w] = "destruct" /\ item[w] = j
      BY <1>4 DEF Constructed
    <3>3. policy = "Reconstruct" => \A j \in 1..items :
            j \in live <=> Lent(j)' \/ \E w \in Users : at'[w] = "destruct" /\ item'[w] = j
      BY <1>9, <3>1, <3>2
    <3> QED BY Zenon, <1>1, <3>2, <3>3 DEF Constructed
  <2> QED BY <1>11, <2>4, <2>5, <2>6, <2>7 DEF PoolInv
<1> QED BY <1>12, <1>13
-----------------------------------------------------------------------------
(* The way back, and the destructors.                                      *)

\* return_() destructs the data of an item that no Loan reaches.
LEMMA DestructKeeps ==
  ASSUME PoolInv, NEW u \in Users, Destruct(u)
  PROVE  PoolInv'
<1>1. /\ at[u] = "destruct" /\ at' = [at EXCEPT ![u] = "push"]
      /\ live' = IF policy = "Reconstruct" THEN live \ {item[u]} ELSE live
      /\ UNCHANGED <<kind, policy, exists, items, free, refcount, loans, item>>
  BY DEF Destruct, Move, fixed, Reconstruct
<1>2. TypeInv /\ Owned /\ Counted /\ Placed /\ Constructed /\ at \in [Users -> Places]
  BY DEF PoolInv, TypeInv
<1>3. /\ \A w \in Users : w # u => at'[w] = at[w]
      /\ at'[u] = "push" /\ at' \in [Users -> Places]
  BY <1>1, <1>2 DEF Places
<1>4. \A w \in Users : at'[w] \in GoingBack <=> at[w] \in GoingBack
  BY <1>1, <1>3 DEF GoingBack
<1>5. /\ \A i : Lent(i)' <=> Lent(i)
      /\ \A i : Holders(i)' = Holders(i)
      /\ \A i : Back(i)' <=> Back(i)
  BY <1>1, <1>4 DEF Lent, Holders, Back
<1>6. TypeInv'
  BY <1>1, <1>2, <1>3 DEF TypeInv, Items
<1>7. Owned'
  BY <1>1, <1>2, <1>3 DEF Owned
<1>8. Counted'
  BY <1>1, <1>2, <1>5 DEF Counted, Items
<1>9. /\ \A w \in Users : at[w] \in GoingBack => item[w] \in 1..items /\ ~Lent(item[w])
      /\ \A w, v \in Users :
           at[w] \in GoingBack /\ at[v] \in GoingBack /\ item[w] = item[v] => w = v
  BY <1>2 DEF Placed
<1>10. Placed'
  <2>1. (\A w \in Users : at[w] \in GoingBack => item[w] \in 1..items /\ ~Lent(item[w]))'
    BY <1>1, <1>4, <1>5, <1>9
  <2>2. (\A w, v \in Users :
           at[w] \in GoingBack /\ at[v] \in GoingBack /\ item[w] = item[v] => w = v)'
    BY <1>1, <1>4, <1>9
  <2>3. (\A i \in Range(free) : ~Lent(i) /\ ~Back(i))'
    BY <1>1, <1>2, <1>5 DEF Placed
  <2>4. (\A i \in 1..items : i \in Range(free) \/ Lent(i) \/ Back(i))'
    BY <1>1, <1>2, <1>5 DEF Placed
  <2> QED BY <1>1, <1>2, <2>1, <2>2, <2>3, <2>4 DEF Placed
<1>11. Constructed'
  <2>1. /\ live \subseteq 1..items /\ (policy = "Preserve" /\ exists.storage => live = 1..items)
        /\ policy = "Reconstruct" => \A i \in 1..items :
             i \in live <=> Lent(i) \/ \E w \in Users : at[w] = "destruct" /\ item[w] = i
    BY <1>2 DEF Constructed
  <2>2. CASE policy = "Preserve"
    BY <1>1, <2>1, <2>2 DEF Constructed
  <2>3. CASE policy = "Reconstruct"
    <3>1. ~Lent(item[u]) /\ \A w \in Users : w # u /\ at[w] \in GoingBack => item[w] # item[u]
      BY <1>1, <1>9 DEF GoingBack
    <3>2. \A w \in Users : at[w] = "destruct" => at[w] \in GoingBack
      BY DEF GoingBack
    <3>3. \A i : (\E w \in Users : at'[w] = "destruct" /\ item'[w] = i)
                 <=> (\E w \in Users : at[w] = "destruct" /\ item[w] = i) /\ i # item[u]
      BY <1>1, <1>3, <3>1, <3>2
    <3>4. \A i \in 1..items :
            i \in live' <=> Lent(i)' \/ \E w \in Users : at'[w] = "destruct" /\ item'[w] = i
      BY <1>1, <1>5, <2>1, <2>3, <3>1, <3>3
    <3> QED BY Zenon, <1>1, <2>1, <2>3, <3>4 DEF Constructed
  <2> QED BY <1>2, <2>2, <2>3 DEF TypeInv
<1> QED BY <1>6, <1>7, <1>8, <1>10, <1>11 DEF PoolInv

\* return_() puts back an item that is not on the chain.
LEMMA PushKeeps ==
  ASSUME PoolInv, NEW u \in Users, Push(u)
  PROVE  PoolInv'
<1>1. /\ at[u] = "push" /\ free' = <<item[u]>> \o free
      /\ at' = [at EXCEPT ![u] = IF kind = "Bounded" THEN "notify" ELSE "out"]
      /\ UNCHANGED <<kind, policy, exists, items, refcount, live, loans, item>>
  BY DEF Push, Move, fixed
<1>2. /\ TypeInv /\ Owned /\ Counted /\ Placed /\ Constructed
      /\ at \in [Users -> Places] /\ free \in Seq(1..items)
  BY DEF PoolInv, TypeInv
<1>3. /\ \A w \in Users : w # u => at'[w] = at[w]
      /\ at'[u] \in {"notify", "out"} /\ at' \in [Users -> Places]
  BY <1>1, <1>2 DEF Places
<1>4. \A w \in Users : at'[w] \in GoingBack <=> at[w] \in GoingBack /\ w # u
  BY <1>1, <1>3 DEF GoingBack
<1>5. /\ IsInjective(free) /\ \A i \in Range(free) : ~Lent(i) /\ ~Back(i)
      /\ \A w \in Users : at[w] \in GoingBack => item[w] \in 1..items /\ ~Lent(item[w])
      /\ \A w, v \in Users :
           at[w] \in GoingBack /\ at[v] \in GoingBack /\ item[w] = item[v] => w = v
      /\ \A i \in 1..items : i \in Range(free) \/ Lent(i) \/ Back(i)
  BY <1>2 DEF Placed
<1>6. at[u] \in GoingBack /\ Back(item[u])
  BY <1>1 DEF GoingBack, Back
<1>7. /\ \A i : Lent(i)' <=> Lent(i)
      /\ \A i : Holders(i)' = Holders(i)
  BY <1>1 DEF Lent, Holders
<1>8. \A i : Back(i)' <=> Back(i) /\ i # item[u]
  <2>1. \A i : Back(i)' <=> \E w \in Users : at[w] \in GoingBack /\ w # u /\ item[w] = i
    BY <1>1, <1>4 DEF Back
  <2>2. \A w \in Users : at[w] \in GoingBack => (w # u <=> item[w] # item[u])
    BY <1>5, <1>6
  <2> QED BY <2>1, <2>2 DEF Back
<1>9. /\ free' \in Seq(1..items) /\ IsInjective(free')
      /\ Range(free') = Range(free) \cup {item[u]}
  <2>1. item[u] \in 1..items /\ item[u] \notin Range(free) /\ IsInjective(free)
    BY Zenon, <1>5, <1>6
  <2>2. free \in Seq(1..items)
    BY <1>2
  <2>3. /\ free' \in Seq(1..items) /\ Len(free') = Len(free) + 1 /\ free'[1] = item[u]
        /\ \A k \in 1..Len(free) : free'[k + 1] = free[k]
    BY <1>1, <2>1, <2>2
  <2> QED BY <2>1, <2>2, <2>3, PushOnChain
<1>10. TypeInv'
  BY <1>1, <1>2, <1>3, <1>9 DEF TypeInv, Items
<1>11. Owned'
  BY <1>1, <1>2, <1>3 DEF Owned
<1>12. Counted'
  BY Zenon, <1>1, <1>2, <1>7 DEF Counted, Items
<1>13. Placed'
  <2>1. (\A i \in Range(free) : ~Lent(i) /\ ~Back(i))'
    BY <1>5, <1>6, <1>7, <1>8, <1>9
  <2>2. (\A w \in Users : at[w] \in GoingBack => item[w] \in 1..items /\ ~Lent(item[w]))'
    BY <1>1, <1>4, <1>5, <1>7
  <2>3. (\A w, v \in Users :
           at[w] \in GoingBack /\ at[v] \in GoingBack /\ item[w] = item[v] => w = v)'
    BY <1>1, <1>4, <1>5
  <2>4. (\A i \in 1..items : i \in Range(free) \/ Lent(i) \/ Back(i))'
    BY <1>1, <1>5, <1>7, <1>8, <1>9
  <2> QED BY Zenon, <1>9, <2>1, <2>2, <2>3, <2>4 DEF Placed
<1>14. Constructed'
  <2>1. \A w \in Users : at'[w] = "destruct" <=> at[w] = "destruct"
    BY <1>1, <1>3
  <2> QED BY <1>1, <1>2, <1>7, <2>1 DEF Constructed
<1> QED BY <1>10, <1>11, <1>12, <1>13, <1>14 DEF PoolInv

\* Neither destructor disturbs an item that somebody can still reach.
LEMMA DestroyKeeps ==
  ASSUME PoolInv, DestroyPool \/ DestroyStorage
  PROVE  PoolInv'
<1>1. /\ UNCHANGED <<kind, policy, items, free, refcount, loans, at, item>>
      /\ TypeInv /\ Owned /\ Counted /\ Placed /\ Constructed
  BY DEF DestroyPool, DestroyStorage, PoolInv
<1>2. /\ \A i : Lent(i)' <=> Lent(i)
      /\ \A i : Holders(i)' = Holders(i)
      /\ \A i : Back(i)' <=> Back(i)
  BY <1>1 DEF Lent, Holders, Back
<1>3. Counted' /\ Placed'
  BY Zenon, <1>1, <1>2 DEF Counted, Placed, Items
<1>4. CASE DestroyPool
  <2>1. /\ exists' = [exists EXCEPT !.pool = FALSE] /\ live' = live
        /\ \A u \in Users : at[u] \notin {"borrow", "wait"}
    BY <1>4 DEF DestroyPool
  <2>2. exists' \in [pool : BOOLEAN, storage : BOOLEAN] /\ ~exists'.pool /\ exists'.storage = exists.storage
    BY Zenon, <1>1, <2>1 DEF TypeInv
  <2>3. TypeInv'
    BY <1>1, <2>2 DEF TypeInv, Items
  <2>4. Owned'
    BY <1>1, <2>1, <2>2 DEF Owned
  <2>5. Constructed'
    BY <1>1, <1>2, <2>1, <2>2 DEF Constructed
  <2> QED BY <1>3, <2>3, <2>4, <2>5 DEF PoolInv
<1>5. CASE DestroyStorage
  <2>1. /\ exists' = [exists EXCEPT !.storage = FALSE] /\ exists = [pool |-> FALSE, storage |-> TRUE]
        /\ live' = IF policy = "Reconstruct" THEN live ELSE live \ (1..items)
        /\ \A u \in Users : at[u] = "out" /\ loans[u] = {}
    BY <1>5 DEF DestroyStorage, Reconstruct
  <2>2. exists' \in [pool : BOOLEAN, storage : BOOLEAN] /\ ~exists'.pool /\ ~exists'.storage
    BY Zenon, <2>1
  <2>3. \A i : ~Lent(i) /\ ~\E u \in Users : at[u] = "destruct" /\ item[u] = i
    BY <2>1 DEF Lent
  <2>4. live' = {}
    BY Zenon, <1>1, <2>1, <2>3 DEF Constructed, TypeInv
  <2>5. TypeInv'
    BY <1>1, <2>2 DEF TypeInv, Items
  <2>6. Owned'
    BY <1>1, <2>1, <2>2, <2>4 DEF Owned
  <2>7. Constructed'
    BY <1>1, <1>2, <2>2, <2>3, <2>4 DEF Constructed
  <2> QED BY <1>3, <2>5, <2>6, <2>7 DEF PoolInv
<1> QED BY <1>4, <1>5
-----------------------------------------------------------------------------
(* The theorem.                                                            *)

\* Every step keeps the invariant.
LEMMA PoolNext == PoolInv /\ [Next]_vars => PoolInv'
<1> SUFFICES ASSUME PoolInv, [Next]_vars PROVE PoolInv'
  OBVIOUS
<1>1. ASSUME NEW u \in Users, Borrow(u) PROVE PoolInv'
  <2>1. exists.storage
    BY <1>1 DEF Borrow, PoolInv, Owned
  <2> QED BY Zenon, <1>1, <2>1, MoveKeeps DEF Borrow, Move, fixed, Places, GoingBack
<1>2. ASSUME NEW u \in Users, WaitForReturn(u) PROVE PoolInv'
  <2>1. exists.pool /\ exists.storage
    BY Zenon, <1>2 DEF WaitForReturn, PoolInv, Owned
  <2> QED BY Zenon, <1>2, <2>1, MoveKeeps DEF WaitForReturn, Move, fixed, Places, GoingBack
<1>3. ASSUME UNCHANGED <<kind, policy, exists, items, free, refcount, live, loans, at, item>>
      PROVE  PoolInv'
  BY SMTT(60), <1>3 DEF PoolInv, TypeInv, Owned, Counted, Placed, Constructed, Lent, Back,
     Holders, Items
<1>4. ASSUME NEW u \in Users, Wake(u) PROVE PoolInv'
  <2>1. exists.pool /\ exists.storage
    BY Zenon, <1>4 DEF Wake, PoolInv, Owned
  <2>2. CASE free = <<>>
    BY Zenon, <1>3, <1>4, <2>2 DEF Wake, fixed
  <2>3. CASE free # <<>>
    BY Zenon, <1>4, <2>1, <2>3, MoveKeeps DEF Wake, Move, fixed, Places, GoingBack
  <2> QED BY <2>2, <2>3
<1>5. ASSUME NEW u \in Users, Notify(u) PROVE PoolInv'
  <2>1. exists.storage
    BY Zenon, <1>5 DEF Notify, PoolInv, Owned
  <2> QED BY ZenonT(60), <1>5, <2>1, MoveKeeps DEF Notify, Move, fixed, Places, GoingBack
<1>6. ASSUME NEW u \in Users, Step(u) PROVE PoolInv'
  <2>1. ASSUME NEW i \in Items, NEW v \in Users, CopyLoan(u, v, i) \/ MoveLoan(u, v, i)
        PROVE  PoolInv'
    BY <2>1, CopyLoanKeeps, MoveLoanKeeps
  <2>2. ASSUME NEW i \in Items, Reset(u, i) PROVE PoolInv'
    BY <2>2, ResetKeeps
  <2>3. CASE Destruct(u) \/ Push(u)
    BY <2>3, DestructKeeps, PushKeeps
  <2>4. CASE TakeItem(u)
    BY <2>4, TakeItemKeeps
  <2> QED BY <1>1, <1>2, <1>4, <1>5, <1>6, <2>1, <2>2, <2>3, <2>4 DEF Step
<1>7. CASE UNCHANGED vars
  BY <1>3, <1>7 DEF vars
<1> QED BY <1>6, <1>7, DestroyKeeps DEF Next

\* The invariant says what ItemsAccounted says.
LEMMA PoolInvAccounts == PoolInv => ItemsAccounted
<1> SUFFICES ASSUME PoolInv PROVE ItemsAccounted
  OBVIOUS
<1>1. TypeInv /\ Owned /\ Counted /\ Placed /\ Constructed
  BY DEF PoolInv
<1>2. exists.storage \/ live = {}
  BY <1>1 DEF Owned
<1>3. ASSUME NEW i \in 1..items
      PROVE  LET places == Cardinality(Returning(i)) + (IF i \in Range(free) THEN 1 ELSE 0)
             IN  /\ refcount[i] = Cardinality(Holders(i))
                 /\ places = IF Holders(i) = {} THEN 1 ELSE 0
                 /\ Holders(i) # {} => i \in live /\ exists.storage
                 /\ Reconstruct /\ i \in live => i \notin Range(free)
  <2>1. i \in Items
    BY <1>1, PoolAssumption DEF TypeInv, Items
  <2>2. refcount[i] = Cardinality(Holders(i))
    BY <1>1, <2>1 DEF Counted
  <2>3. (Holders(i) # {} <=> Lent(i)) /\ (Returning(i) # {} <=> Back(i))
    BY DEF Holders, Lent, Returning, Back, GoingBack
  <2>4. Holders(i) # {} => i \in live /\ exists.storage
    <3>1. Lent(i) => exists.storage
      BY <1>1 DEF Owned, Lent
    <3> QED BY <1>1, <2>3, <3>1 DEF Constructed, TypeInv
  <2>5. Reconstruct /\ i \in live => i \notin Range(free)
    <3>1. (\E u \in Users : at[u] = "destruct" /\ item[u] = i) => Back(i)
      BY DEF Back, GoingBack
    <3> QED BY <1>1, <3>1 DEF Constructed, Placed, Reconstruct
  <2>6. Cardinality(Returning(i)) = IF Back(i) THEN 1 ELSE 0
    <3>1. CASE ~Back(i)
      BY <2>3, <3>1, FS_EmptySet
    <3>2. CASE Back(i)
      <4>1. PICK u \in Users : at[u] \in GoingBack /\ item[u] = i
        BY <3>2 DEF Back
      <4>2. \A v \in Users : at[v] \in GoingBack /\ item[v] = i => v = u
        BY <1>1, <4>1 DEF Placed
      <4>3. Returning(i) = {u}
        BY <4>1, <4>2 DEF Returning, GoingBack
      <4> QED BY Zenon, <3>2, <4>3, FS_Singleton
    <3> QED BY <3>1, <3>2
  <2>7. /\ Back(i) => ~Lent(i) /\ i \notin Range(free)
        /\ i \in Range(free) => ~Lent(i)
        /\ i \in Range(free) \/ Lent(i) \/ Back(i)
    BY <1>1 DEF Placed, Back
  <2>8. Cardinality(Returning(i)) + (IF i \in Range(free) THEN 1 ELSE 0)
          = IF Holders(i) = {} THEN 1 ELSE 0
    BY <2>3, <2>6, <2>7
  <2> QED BY <2>2, <2>4, <2>5, <2>8
<1>4. IsInjective(free)
  BY <1>1 DEF Placed
<1> QED BY <1>2, <1>3, <1>4 DEF ItemsAccounted

\* Whatever the number of tasks, items and calls, and however the tasks
\* interleave: Loan, borrow() and return_() keep every item in one place, count
\* its Loans, and keep its data constructed while a Loan can reach it.
THEOREM PoolAccounts == Spec => []ItemsAccounted
<1>1. PoolInv /\ [Next]_vars => PoolInv'
  BY PoolNext
<1> QED BY <1>1, PoolInit, PoolInvAccounts, PTL DEF Spec
=============================================================================
