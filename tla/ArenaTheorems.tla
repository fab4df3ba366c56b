--------------------------- MODULE ArenaTheorems ---------------------------
(***************************************************************************)
(* What the operators of Arena do, for every arena of values of V: seen    *)
(* through Get, an arena is a map from keys to values, insert adds one key *)
(* that did not resolve, and remove and a write through get_mut touch the  *)
(* one key they are given.                                                 *)
(***************************************************************************)
EXTENDS Arena, TLAPS

\* The fields of a slot.
LEMMA SlotFields ==
    ASSUME NEW V, NEW s \in Seq(Slot(V)), NEW i \in DOMAIN s
    PROVE  /\ i \in 1 .. Len(s)
           /\ s[i] = [generation |-> s[i].generation, value |-> s[i].value]
           /\ s[i].generation \in Generation
           /\ s[i].value \in V \cup {NoValue}
<1>1. i \in 1 .. Len(s) /\ s[i] \in Slot(V)
  OBVIOUS
<1> QED BY <1>1 DEF Slot

\* A generation's successor is a generation other than it, unless there is
\* only one.
LEMMA IncrementGeneration ==
    ASSUME NEW g \in Generation
    PROVE  WrappingIncrement(g) \in Generation
BY GenModAssumption DEF Generation, WrappingIncrement

\* insert_from with an empty free list pushes a slot of generation 0.
LEMMA InsertPush ==
    ASSUME NEW V, NEW a, IsArena(a, V), a.free = <<>>, NEW v \in V
    PROVE  /\ Insert(a, v) = [slots |-> Insert(a, v).slots, free |-> <<>>]
           /\ Insert(a, v).slots \in Seq(Slot(V))
           /\ Len(Insert(a, v).slots) = Len(a.slots) + 1
           /\ \A i \in DOMAIN a.slots : Insert(a, v).slots[i] = a.slots[i]
           /\ Insert(a, v).slots[Len(a.slots) + 1] = [generation |-> 0, value |-> v]
           /\ NextKey(a) = [index |-> Len(a.slots) + 1, generation |-> 0]
<1> DEFINE new == [generation |-> 0, value |-> v]
<1>1. Insert(a, v) = [slots |-> Append(a.slots, new), free |-> <<>>]
  BY DEF Insert
<1>2. a.slots \in Seq(Slot(V))
  BY DEF IsArena
<1>3. new \in Slot(V)
  BY GenModAssumption DEF Slot, Generation
<1> HIDE DEF new
<1>4. /\ Append(a.slots, new) \in Seq(Slot(V))
      /\ Len(Append(a.slots, new)) = Len(a.slots) + 1
      /\ \A i \in DOMAIN a.slots : Append(a.slots, new)[i] = a.slots[i]
      /\ Append(a.slots, new)[Len(a.slots) + 1] = new
  BY <1>2, <1>3
<1>5. Insert(a, v).slots = Append(a.slots, new)
  BY <1>1
<1> QED BY <1>1, <1>4, <1>5 DEF new, NextKey

\* insert_from with a free slot fills the one freed last and keeps its generation.
LEMMA InsertReuse ==
    ASSUME NEW V, NEW a, IsArena(a, V), a.free # <<>>, NEW v \in V
    PROVE  LET top == a.free[Len(a.free)] IN
           /\ top \in DOMAIN a.slots /\ a.slots[top].value = NoValue
           /\ Insert(a, v) = [slots |-> Insert(a, v).slots, free |-> Insert(a, v).free]
           /\ Insert(a, v).slots \in Seq(Slot(V))
           /\ Len(Insert(a, v).slots) = Len(a.slots)
           /\ Insert(a, v).slots[top] = [generation |-> a.slots[top].generation, value |-> v]
           /\ \A i \in DOMAIN a.slots : i # top => Insert(a, v).slots[i] = a.slots[i]
           /\ Insert(a, v).free \in Seq(Nat \ {0})
           /\ IsInjective(Insert(a, v).free)
           /\ Range(Insert(a, v).free) = Range(a.free) \ {top}
           /\ NextKey(a) = [index |-> top, generation |-> a.slots[top].generation]
<1> DEFINE n == Len(a.free)
           top == a.free[n]
           new == [generation |-> a.slots[top].generation, value |-> v]
           rest == SubSeq(a.free, 1, n - 1)
<1>1. /\ a.slots \in Seq(Slot(V)) /\ a.free \in Seq(Nat \ {0}) /\ IsInjective(a.free)
      /\ Range(a.free) = {i \in DOMAIN a.slots : a.slots[i].value = NoValue}
  BY DEF IsArena
<1>2. n \in Nat \ {0} /\ DOMAIN a.free = 1 .. n
  BY <1>1
<1>3. top \in DOMAIN a.slots /\ a.slots[top].value = NoValue
  <2>1. top \in Range(a.free)
    BY <1>2 DEF Range
  <2> QED BY <1>1, <2>1
<1>4. /\ Insert(a, v) = [slots |-> [a.slots EXCEPT ![top].value = v], free |-> rest]
      /\ NextKey(a) = [index |-> top, generation |-> a.slots[top].generation]
  BY DEF Insert, NextKey
<1>5. [a.slots EXCEPT ![top].value = v] = [a.slots EXCEPT ![top] = new]
  <2>1. a.slots[top] = [generation |-> a.slots[top].generation, value |-> a.slots[top].value]
    BY <1>1, <1>3, SlotFields
  <2>2. ASSUME NEW g, NEW w PROVE [[generation |-> g, value |-> w] EXCEPT !.value = v] = [generation |-> g, value |-> v]
    OBVIOUS
  <2>3. [a.slots[top] EXCEPT !.value = v] = new
    BY <2>1, <2>2
  <2> QED BY <2>3
<1>6. new \in Slot(V) /\ top \in 1 .. Len(a.slots)
  BY <1>1, <1>3, SlotFields DEF Slot
<1>7. /\ [a.slots EXCEPT ![top] = new] \in Seq(Slot(V))
      /\ Len([a.slots EXCEPT ![top] = new]) = Len(a.slots)
      /\ \A j \in 1 .. Len(a.slots) : [a.slots EXCEPT ![top] = new][j] = IF j = top THEN new ELSE a.slots[j]
  <2> HIDE DEF new, top
  <2> QED BY <1>1, <1>6
<1>8. /\ rest \in Seq(Nat \ {0}) /\ Len(rest) = n - 1
      /\ \A i \in 1 .. n - 1 : rest[i] = a.free[i]
  <2>1. \A i \in 1 .. n - 1 : a.free[i] \in Nat \ {0}
    BY <1>1, <1>2
  <2>2. /\ rest \in Seq(Nat \ {0})
        /\ Len(rest) = IF 1 <= n - 1 THEN n - 1 - 1 + 1 ELSE 0
        /\ \A i \in 1 .. n - 1 - 1 + 1 : rest[i] = a.free[1 + i - 1]
    <3> HIDE DEF n
    <3> QED BY <1>2, <2>1
  <2> QED BY <1>2, <2>2
<1>9. DOMAIN rest = 1 .. n - 1
  BY <1>8
<1>10. IsInjective(rest) /\ Range(rest) = Range(a.free) \ {top}
  <2> HIDE DEF n, rest
  <2>1. \A i \in DOMAIN rest : i \in DOMAIN a.free /\ rest[i] = a.free[i] /\ i # n
    BY <1>2, <1>8, <1>9
  <2>2. IsInjective(rest)
    <3>1. \A i, j \in DOMAIN a.free : a.free[i] = a.free[j] => i = j
      BY <1>1 DEF IsInjective
    <3> QED BY <2>1, <3>1 DEF IsInjective
  <2>3. \A i \in DOMAIN a.free : i # n => i \in DOMAIN rest
    BY <1>2, <1>9
  <2>4. n \in DOMAIN a.free
    BY <1>2
  <2>5. Range(rest) = Range(a.free) \ {top}
    <3>1. ASSUME NEW x \in Range(rest) PROVE x \in Range(a.free) \ {top}
      <4>1. PICK i \in DOMAIN rest : x = rest[i]
        BY DEF Range
      <4> QED BY <1>1, <2>1, <2>4, <4>1 DEF IsInjective, Range
    <3>2. ASSUME NEW x \in Range(a.free), x # top PROVE x \in Range(rest)
      <4>1. PICK i \in DOMAIN a.free : x = a.free[i]
        BY DEF Range
      <4> QED BY <2>1, <2>3, <3>2, <4>1 DEF Range
    <3> QED BY <3>1, <3>2
  <2> QED BY <2>2, <2>5
<1>11. DOMAIN a.slots = 1 .. Len(a.slots)
  BY <1>1
<1>12. Insert(a, v).slots = [a.slots EXCEPT ![top] = new] /\ Insert(a, v).free = rest
  BY <1>4, <1>5
<1> HIDE DEF rest
<1> QED BY <1>3, <1>4, <1>7, <1>8, <1>10, <1>11, <1>12

\* b is a with the slot of k emptied, moved to its next generation and pushed
\* on the free list.
Emptied(a, b, k, V) ==
    /\ k.index \in DOMAIN a.slots
    /\ a.slots[k.index].generation = k.generation
    /\ a.slots[k.index].value # NoValue
    /\ b = [slots |-> b.slots, free |-> b.free]
    /\ b.slots \in Seq(Slot(V))
    /\ Len(b.slots) = Len(a.slots)
    /\ b.slots[k.index] = [generation |-> WrappingIncrement(k.generation), value |-> NoValue]
    /\ \A i \in DOMAIN a.slots : i # k.index => b.slots[i] = a.slots[i]
    /\ b.free \in Seq(Nat \ {0})
    /\ IsInjective(b.free)
    /\ Range(b.free) = Range(a.free) \cup {k.index}

\* remove of a key that resolves empties its slot, moves the slot to its next
\* generation and pushes it on the free list.
LEMMA RemoveLive ==
    ASSUME NEW V, NEW a, IsArena(a, V), NEW k \in Key, Contains(a, k)
    PROVE  Emptied(a, Remove(a, k), k, V)
<1> DEFINE i == k.index
           new == [generation |-> WrappingIncrement(a.slots[i].generation), value |-> NoValue]
           f == Append(a.free, i)
<1>1. /\ a.slots \in Seq(Slot(V)) /\ a.free \in Seq(Nat \ {0}) /\ IsInjective(a.free)
      /\ Range(a.free) = {j \in DOMAIN a.slots : a.slots[j].value = NoValue}
  BY DEF IsArena
<1>2. i \in DOMAIN a.slots /\ a.slots[i].generation = k.generation /\ a.slots[i].value # NoValue
  BY DEF Contains, Get, HasSlot
<1>3. new \in Slot(V) /\ i \in 1 .. Len(a.slots)
  BY <1>1, <1>2, SlotFields, IncrementGeneration DEF Slot
<1>4. Remove(a, k).slots = [a.slots EXCEPT ![i] = new] /\ Remove(a, k).free = f
      /\ Remove(a, k) = [slots |-> [a.slots EXCEPT ![i] = new], free |-> f]
  BY DEF Remove
<1>5. /\ [a.slots EXCEPT ![i] = new] \in Seq(Slot(V))
      /\ Len([a.slots EXCEPT ![i] = new]) = Len(a.slots)
      /\ \A j \in 1 .. Len(a.slots) : [a.slots EXCEPT ![i] = new][j] = IF j = i THEN new ELSE a.slots[j]
  <2> HIDE DEF new, i
  <2> QED BY <1>1, <1>3
<1>6. /\ f \in Seq(Nat \ {0}) /\ Len(f) = Len(a.free) + 1
      /\ \A j \in 1 .. Len(a.free) : f[j] = a.free[j]
      /\ f[Len(a.free) + 1] = i
  BY <1>1, <1>3
<1>7. DOMAIN f = 1 .. Len(a.free) + 1 /\ DOMAIN a.free = 1 .. Len(a.free) /\ Len(a.free) \in Nat
  BY <1>1, <1>6
<1>8. i \notin Range(a.free)
  BY <1>1, <1>2
<1>9. IsInjective(f) /\ Range(f) = Range(a.free) \cup {i}
  <2> HIDE DEF f, i
  <2>1. \A j \in DOMAIN a.free : j \in DOMAIN f /\ f[j] = a.free[j] /\ f[j] # i
    BY <1>6, <1>7, <1>8 DEF Range
  <2>2. \A j \in DOMAIN f : j \in DOMAIN a.free \/ (j = Len(a.free) + 1 /\ f[j] = i)
    BY <1>6, <1>7
  <2>3. Len(a.free) + 1 \in DOMAIN f
    BY <1>7
  <2>4. IsInjective(f)
    BY <1>1, <2>1, <2>2 DEF IsInjective
  <2>5. ASSUME NEW x \in Range(f) PROVE x \in Range(a.free) \cup {i}
    <3>1. PICK j \in DOMAIN f : x = f[j]
      BY DEF Range
    <3> QED BY <2>1, <2>2, <3>1 DEF Range
  <2>6. ASSUME NEW x \in Range(a.free) \cup {i} PROVE x \in Range(f)
    <3>1. CASE x = i
      BY <1>6, <2>3, <3>1 DEF Range
    <3>2. CASE x \in Range(a.free)
      <4>1. PICK j \in DOMAIN a.free : x = a.free[j]
        BY <3>2 DEF Range
      <4> QED BY <2>1, <4>1 DEF Range
    <3> QED BY <3>1, <3>2
  <2> QED BY <2>4, <2>5, <2>6
<1>10. DOMAIN a.slots = 1 .. Len(a.slots)
  BY <1>1
<1> HIDE DEF f
<1> QED BY <1>2, <1>4, <1>5, <1>6, <1>9, <1>10 DEF Emptied

-----------------------------------------------------------------------------
\* The empty arena is an arena and resolves no key.
LEMMA EmptyIsArena ==
    ASSUME NEW V
    PROVE  IsArena(EmptyArena, V) /\ \A k : Get(EmptyArena, k) = NoValue
<1>1. EmptyArena.slots = <<>> /\ EmptyArena.free = <<>>
  BY DEF EmptyArena
<1>2. DOMAIN EmptyArena.slots = {} /\ DOMAIN EmptyArena.free = {}
  BY <1>1
<1>3. IsInjective(EmptyArena.free) /\ Range(EmptyArena.free) = {}
  BY <1>2 DEF IsInjective, Range
<1>4. EmptyArena.slots \in Seq(Slot(V)) /\ EmptyArena.free \in Seq(Nat \ {0})
  BY <1>1
<1>5. EmptyArena = [slots |-> EmptyArena.slots, free |-> EmptyArena.free]
  BY DEF EmptyArena
<1>6. \A k : Get(EmptyArena, k) = NoValue
  BY <1>2 DEF Get, HasSlot
<1>7. {i \in DOMAIN EmptyArena.slots : EmptyArena.slots[i].value = NoValue} = {}
  BY <1>2
<1> QED BY <1>3, <1>4, <1>5, <1>6, <1>7 DEF IsArena

\* insert keeps an arena an arena; its key is a key, did not resolve before,
\* resolves to the value now, and no other key is affected.
THEOREM InsertMap ==
    ASSUME NEW V, NoValue \notin V, NEW a, IsArena(a, V), NEW v \in V
    PROVE  /\ IsArena(Insert(a, v), V)
           /\ NextKey(a) \in Key
           /\ Get(a, NextKey(a)) = NoValue
           /\ Get(Insert(a, v), NextKey(a)) = v
           /\ \A k \in Key : k # NextKey(a) => Get(Insert(a, v), k) = Get(a, k)
<1> DEFINE b == Insert(a, v)
           n == Len(a.slots)
<1>1. /\ a.slots \in Seq(Slot(V)) /\ a.free \in Seq(Nat \ {0})
      /\ n \in Nat /\ DOMAIN a.slots = 1 .. n
      /\ Range(a.free) = {j \in DOMAIN a.slots : a.slots[j].value = NoValue}
  BY DEF IsArena
<1>2. CASE a.free = <<>>
  <2>1. /\ b = [slots |-> b.slots, free |-> <<>>]
        /\ b.slots \in Seq(Slot(V))
        /\ Len(b.slots) = n + 1
        /\ \A i \in DOMAIN a.slots : b.slots[i] = a.slots[i]
        /\ b.slots[n + 1] = [generation |-> 0, value |-> v]
        /\ NextKey(a) = [index |-> n + 1, generation |-> 0]
    BY <1>2, InsertPush
  <2> HIDE DEF b, n
  <2>2. DOMAIN b.slots = 1 .. n + 1 /\ b.free = <<>>
    BY <2>1
  <2>3. Range(a.free) = {} /\ Range(b.free) = {} /\ IsInjective(b.free)
    <3>1. DOMAIN a.free = {} /\ DOMAIN b.free = {}
      BY <1>2, <2>2
    <3> QED BY <3>1 DEF Range, IsInjective
  <2>4. Range(b.free) = {j \in DOMAIN b.slots : b.slots[j].value = NoValue}
    BY <1>1, <2>1, <2>2, <2>3
  <2>5. IsArena(b, V)
    BY <2>1, <2>2, <2>3, <2>4 DEF IsArena
  <2>6. NextKey(a) \in Key
    BY <1>1, <2>1, GenModAssumption DEF Key, Generation
  <2>7. Get(a, NextKey(a)) = NoValue /\ Get(b, NextKey(a)) = v
    BY <1>1, <2>1, <2>2 DEF Get, HasSlot
  <2>8. ASSUME NEW k \in Key, k # NextKey(a) PROVE Get(b, k) = Get(a, k)
    <3>1. CASE k.index = n + 1
      <4>1. k.generation # 0
        BY <2>1, <2>8, <3>1 DEF Key
      <4> QED BY <1>1, <2>1, <2>2, <3>1, <4>1 DEF Get, HasSlot
    <3>2. CASE k.index # n + 1
      BY <1>1, <2>1, <2>2, <3>2 DEF Get, HasSlot, Key
    <3> QED BY <3>1, <3>2
  <2> QED BY <2>5, <2>6, <2>7, <2>8 DEF b
<1>3. CASE a.free # <<>>
  <2> DEFINE top == a.free[Len(a.free)]
  <2>1. /\ top \in DOMAIN a.slots /\ a.slots[top].value = NoValue
        /\ b = [slots |-> b.slots, free |-> b.free]
        /\ b.slots \in Seq(Slot(V))
        /\ Len(b.slots) = n
        /\ b.slots[top] = [generation |-> a.slots[top].generation, value |-> v]
        /\ \A i \in DOMAIN a.slots : i # top => b.slots[i] = a.slots[i]
        /\ b.free \in Seq(Nat \ {0})
        /\ IsInjective(b.free)
        /\ Range(b.free) = Range(a.free) \ {top}
        /\ NextKey(a) = [index |-> top, generation |-> a.slots[top].generation]
    BY <1>3, InsertReuse
  <2> HIDE DEF b, n, top
  <2>2. DOMAIN b.slots = 1 .. n
    BY <2>1
  <2>3. Range(b.free) = {j \in DOMAIN b.slots : b.slots[j].value = NoValue}
    BY <1>1, <2>1, <2>2
  <2>4. IsArena(b, V)
    BY <2>1, <2>3 DEF IsArena
  <2>5. NextKey(a) \in Key
    <3>1. a.slots[top].generation \in Generation
      BY <1>1, <2>1, SlotFields
    <3> QED BY <1>1, <2>1, <3>1 DEF Key
  <2>6. Get(a, NextKey(a)) = NoValue /\ Get(b, NextKey(a)) = v
    BY <1>1, <2>1, <2>2 DEF Get, HasSlot
  <2>7. ASSUME NEW k \in Key, k # NextKey(a) PROVE Get(b, k) = Get(a, k)
    <3>1. CASE k.index = top
      <4>1. k.generation # a.slots[top].generation
        BY <2>1, <2>7, <3>1 DEF Key
      <4> QED BY <1>1, <2>1, <2>2, <3>1, <4>1 DEF Get, HasSlot
    <3>2. CASE k.index # top
      BY <1>1, <2>1, <2>2, <3>2 DEF Get, HasSlot
    <3> QED BY <3>1, <3>2
  <2> QED BY <2>4, <2>5, <2>6, <2>7 DEF b
<1> QED BY <1>2, <1>3

\* remove keeps an arena an arena; its key no longer resolves and no other key
\* is affected, whether or not the key was live.
THEOREM RemoveMap ==
    ASSUME NEW V, NEW a, IsArena(a, V), NEW k \in Key
    PROVE  /\ IsArena(Remove(a, k), V)
           /\ Get(Remove(a, k), k) = NoValue
           /\ \A m \in Key : m # k => Get(Remove(a, k), m) = Get(a, m)
<1> DEFINE b == Remove(a, k)
<1>1. CASE ~Contains(a, k)
  BY <1>1 DEF Contains, Remove
<1>2. CASE Contains(a, k)
  <2>1. Emptied(a, b, k, V)
    BY <1>2, RemoveLive
  <2>2. /\ a.slots \in Seq(Slot(V))
        /\ Range(a.free) = {j \in DOMAIN a.slots : a.slots[j].value = NoValue}
    BY DEF IsArena
  <2> HIDE DEF b
  <2>3. DOMAIN b.slots = DOMAIN a.slots
    BY <2>1, <2>2 DEF Emptied
  <2>4. Range(b.free) = {j \in DOMAIN b.slots : b.slots[j].value = NoValue}
    BY <2>1, <2>2, <2>3 DEF Emptied
  <2>5. IsArena(b, V)
    BY <2>1, <2>4 DEF IsArena, Emptied
  <2>6. Get(b, k) = NoValue
    BY <2>1, <2>3 DEF Get, HasSlot, Emptied
  <2>7. ASSUME NEW m \in Key, m # k PROVE Get(b, m) = Get(a, m)
    <3>1. CASE m.index = k.index
      <4>1. m.generation # k.generation
        BY <2>7, <3>1 DEF Key
      <4> QED BY <2>1, <2>3, <3>1, <4>1 DEF Get, HasSlot, Emptied
    <3>2. CASE m.index # k.index
      BY <2>1, <2>3, <3>2 DEF Get, HasSlot, Emptied
    <3> QED BY <3>1, <3>2
  <2> QED BY <2>5, <2>6, <2>7 DEF b
<1> QED BY <1>1, <1>2

\* A write through get_mut keeps an arena an arena and changes only what its
\* key resolves to, and that only if it resolved.
THEOREM PutMap ==
    ASSUME NEW V, NoValue \notin V, NEW a, IsArena(a, V), NEW k \in Key, NEW v \in V
    PROVE  /\ IsArena(Put(a, k, v), V)
           /\ Get(Put(a, k, v), k) = IF Contains(a, k) THEN v ELSE NoValue
           /\ \A m \in Key : m # k => Get(Put(a, k, v), m) = Get(a, m)
<1> DEFINE b == Put(a, k, v)
<1>1. CASE ~Contains(a, k)
  BY <1>1 DEF Contains, Put
<1>2. CASE Contains(a, k)
  <2> DEFINE i == k.index
             new == [generation |-> a.slots[i].generation, value |-> v]
  <2>1. /\ a = [slots |-> a.slots, free |-> a.free]
        /\ a.slots \in Seq(Slot(V)) /\ a.free \in Seq(Nat \ {0}) /\ IsInjective(a.free)
        /\ Range(a.free) = {j \in DOMAIN a.slots : a.slots[j].value = NoValue}
    BY DEF IsArena
  <2>2. i \in DOMAIN a.slots /\ a.slots[i].generation = k.generation /\ a.slots[i].value # NoValue
    BY <1>2 DEF Contains, Get, HasSlot
  <2>3. new \in Slot(V) /\ i \in 1 .. Len(a.slots)
    BY <2>1, <2>2, SlotFields DEF Slot
  <2>4. [a.slots EXCEPT ![i].value = v] = [a.slots EXCEPT ![i] = new]
    <3>1. a.slots[i] = [generation |-> a.slots[i].generation, value |-> a.slots[i].value]
      BY <2>1, <2>2, SlotFields
    <3>2. ASSUME NEW g, NEW w PROVE [[generation |-> g, value |-> w] EXCEPT !.value = v] = [generation |-> g, value |-> v]
      OBVIOUS
    <3>3. [a.slots[i] EXCEPT !.value = v] = new
      BY <3>1, <3>2
    <3> QED BY <3>3
  <2>5. b = [slots |-> [a.slots EXCEPT ![i] = new], free |-> a.free]
    <3>1. b = [a EXCEPT !.slots = [a.slots EXCEPT ![i].value = v]]
      BY <1>2 DEF Put
    <3>2. ASSUME NEW s, NEW f, NEW t
          PROVE  [[slots |-> s, free |-> f] EXCEPT !.slots = t] = [slots |-> t, free |-> f]
      OBVIOUS
    <3> HIDE DEF b, i, new
    <3> QED BY <2>1, <2>4, <3>1, <3>2
  <2>6. /\ [a.slots EXCEPT ![i] = new] \in Seq(Slot(V))
        /\ Len([a.slots EXCEPT ![i] = new]) = Len(a.slots)
        /\ \A j \in 1 .. Len(a.slots) : [a.slots EXCEPT ![i] = new][j] = IF j = i THEN new ELSE a.slots[j]
    <3> HIDE DEF new, i
    <3> QED BY <2>1, <2>3
  <2>7. /\ b = [slots |-> b.slots, free |-> a.free] /\ b.free = a.free
        /\ b.slots \in Seq(Slot(V)) /\ DOMAIN b.slots = DOMAIN a.slots
        /\ b.slots[i] = new
        /\ \A j \in DOMAIN a.slots : j # i => b.slots[j] = a.slots[j]
    <3>1. b.slots = [a.slots EXCEPT ![i] = new] /\ b.free = a.free
      BY <2>5
    <3>2. DOMAIN a.slots = 1 .. Len(a.slots) /\ DOMAIN b.slots = 1 .. Len(b.slots)
      BY <2>1, <2>6, <3>1
    <3> HIDE DEF b, new, i
    <3> QED BY <2>3, <2>5, <2>6, <3>1, <3>2
  <2> HIDE DEF b
  <2>8. Range(b.free) = {j \in DOMAIN b.slots : b.slots[j].value = NoValue}
    <3>1. new.value # NoValue
      OBVIOUS
    <3> HIDE DEF new
    <3> QED BY <2>1, <2>2, <2>7, <3>1
  <2>9. IsArena(b, V)
    BY <2>1, <2>7, <2>8 DEF IsArena
  <2>10. Get(b, k) = v
    BY <2>2, <2>7 DEF Get, HasSlot
  <2>11. ASSUME NEW m \in Key, m # k PROVE Get(b, m) = Get(a, m)
    <3>1. CASE m.index = i
      <4>1. m.generation # k.generation
        BY <2>11, <3>1 DEF Key
      <4> QED BY <2>2, <2>7, <3>1, <4>1 DEF Get, HasSlot
    <3>2. CASE m.index # i
      BY <2>7, <3>2 DEF Get, HasSlot
    <3> QED BY <3>1, <3>2
  <2> QED BY <1>2, <2>9, <2>10, <2>11 DEF b
<1> QED BY <1>1, <1>2

\* What a key resolves to, and which keys resolve.
LEMMA Resolved ==
    ASSUME NEW V, NEW a, IsArena(a, V)
    PROVE  /\ \A k \in Key : Get(a, k) \in V \cup {NoValue}
           /\ Keys(a) = {k \in Key : Get(a, k) # NoValue}
<1>1. a.slots \in Seq(Slot(V)) /\ DOMAIN a.slots = 1 .. Len(a.slots) /\ Len(a.slots) \in Nat
  BY DEF IsArena
<1>2. \A i \in DOMAIN a.slots :
         /\ i \in Nat \ {0}
         /\ a.slots[i].generation \in Generation /\ a.slots[i].value \in V \cup {NoValue}
  BY <1>1, SlotFields
<1>3. \A k \in Key : Get(a, k) \in V \cup {NoValue}
  BY <1>2 DEF Get, HasSlot
<1>4. ASSUME NEW k \in Keys(a) PROVE k \in Key /\ Get(a, k) # NoValue
  <2>1. PICK i \in DOMAIN a.slots : /\ a.slots[i].value # NoValue
                                    /\ k = [index |-> i, generation |-> a.slots[i].generation]
    BY DEF Keys
  <2> QED BY <1>2, <2>1 DEF Key, Get, HasSlot
<1>5. ASSUME NEW k \in Key, Get(a, k) # NoValue PROVE k \in Keys(a)
  <2>1. /\ k.index \in DOMAIN a.slots /\ a.slots[k.index].generation = k.generation
        /\ a.slots[k.index].value # NoValue
    BY <1>5 DEF Get, HasSlot
  <2>2. k = [index |-> k.index, generation |-> a.slots[k.index].generation]
    BY <2>1 DEF Key
  <2> QED BY <2>1, <2>2 DEF Keys
<1> QED BY <1>3, <1>4, <1>5

-----------------------------------------------------------------------------
\* The keys were given out, at most n of them for one slot: a slot has moved past its keys, and
\* stands at the last one only while that resolves.
Spent(a, keys, n) ==
    /\ \A i \in DOMAIN a.slots :
          /\ a.slots[i].generation <= n
          /\ a.slots[i].value # NoValue => a.slots[i].generation < n
    /\ \A k \in keys :
          /\ k.index \in DOMAIN a.slots
          /\ k.generation <= a.slots[k.index].generation
          /\ k.generation = a.slots[k.index].generation => a.slots[k.index].value # NoValue

\* insert gives out a key that was not given out before.
LEMMA SpentInsert ==
    ASSUME NEW V, NoValue \notin V, NEW a, IsArena(a, V), NEW v \in V,
           NEW keys \in SUBSET Key, NEW n \in Nat, Spent(a, keys, n)
    PROVE  /\ NextKey(a) \notin keys
           /\ Spent(Insert(a, v), keys \cup {NextKey(a)}, n + 1)
<1> DEFINE b == Insert(a, v)
           m == Len(a.slots)
<1>1. a.slots \in Seq(Slot(V)) /\ m \in Nat /\ DOMAIN a.slots = 1 .. m
  BY DEF IsArena
<1>2. \A i \in DOMAIN a.slots : a.slots[i].generation \in Int
  BY <1>1, SlotFields, GenModAssumption DEF Generation
<1>3. \A k \in keys : k.generation \in Int /\ k.index \in DOMAIN a.slots
  BY GenModAssumption DEF Key, Generation, Spent
<1>4. CASE a.free = <<>>
  <2>1. /\ b.slots \in Seq(Slot(V)) /\ Len(b.slots) = m + 1
        /\ \A i \in DOMAIN a.slots : b.slots[i] = a.slots[i]
        /\ b.slots[m + 1] = [generation |-> 0, value |-> v]
        /\ NextKey(a) = [index |-> m + 1, generation |-> 0]
    BY <1>4, InsertPush
  <2> HIDE DEF b, m
  <2>2. DOMAIN b.slots = 1 .. m + 1
    BY <2>1
  <2>3. NextKey(a) \notin keys
    BY <1>1, <1>3, <2>1
  <2>4. ASSUME NEW i \in DOMAIN b.slots
        PROVE  b.slots[i].generation <= n + 1
               /\ (b.slots[i].value # NoValue => b.slots[i].generation < n + 1)
    <3>1. CASE i = m + 1
      BY <2>1, <3>1
    <3>2. CASE i \in DOMAIN a.slots
      BY <1>2, <2>1, <3>2 DEF Spent
    <3> QED BY <1>1, <2>2, <3>1, <3>2
  <2>5. ASSUME NEW k \in keys \cup {NextKey(a)}
        PROVE  /\ k.index \in DOMAIN b.slots
               /\ k.generation <= b.slots[k.index].generation
               /\ k.generation = b.slots[k.index].generation => b.slots[k.index].value # NoValue
    <3>1. CASE k = NextKey(a)
      BY <1>1, <2>1, <2>2, <3>1
    <3>2. CASE k \in keys
      <4>1. k.index \in DOMAIN a.slots /\ k.index \in DOMAIN b.slots
        BY <1>1, <1>3, <2>2, <3>2
      <4>2. b.slots[k.index] = a.slots[k.index]
        BY <2>1, <4>1
      <4> QED BY <3>2, <4>1, <4>2 DEF Spent
    <3> QED BY <3>1, <3>2
  <2> QED BY <2>3, <2>4, <2>5 DEF Spent, b
<1>5. CASE a.free # <<>>
  <2> DEFINE top == a.free[Len(a.free)]
  <2>1. /\ top \in DOMAIN a.slots /\ a.slots[top].value = NoValue
        /\ b.slots \in Seq(Slot(V)) /\ Len(b.slots) = m
        /\ b.slots[top] = [generation |-> a.slots[top].generation, value |-> v]
        /\ \A i \in DOMAIN a.slots : i # top => b.slots[i] = a.slots[i]
        /\ NextKey(a) = [index |-> top, generation |-> a.slots[top].generation]
    BY <1>5, InsertReuse
  <2> HIDE DEF b, m, top
  <2>2. DOMAIN b.slots = DOMAIN a.slots
    BY <1>1, <2>1
  <2>3. NextKey(a) \notin keys
    BY <2>1 DEF Spent
  <2>4. ASSUME NEW i \in DOMAIN b.slots
        PROVE  b.slots[i].generation <= n + 1
               /\ (b.slots[i].value # NoValue => b.slots[i].generation < n + 1)
    BY <1>2, <2>1, <2>2 DEF Spent
  <2>5. ASSUME NEW k \in keys \cup {NextKey(a)}
        PROVE  /\ k.index \in DOMAIN b.slots
               /\ k.generation <= b.slots[k.index].generation
               /\ k.generation = b.slots[k.index].generation => b.slots[k.index].value # NoValue
    <3>1. CASE k = NextKey(a)
      BY <1>2, <2>1, <2>2, <3>1
    <3>2. CASE k \in keys
      BY <1>3, <2>1, <2>2, <3>2 DEF Spent
    <3> QED BY <3>1, <3>2
  <2> QED BY <2>3, <2>4, <2>5 DEF Spent, b
<1> QED BY <1>4, <1>5

\* remove moves a slot to its next generation, which does not wrap.
LEMMA SpentRemove ==
    ASSUME NEW V, NEW a, IsArena(a, V), NEW k \in Key,
           NEW keys \in SUBSET Key, NEW n \in Nat, n < GenMod, Spent(a, keys, n)
    PROVE  Spent(Remove(a, k), keys, n)
<1> DEFINE b == Remove(a, k)
<1>1. CASE ~Contains(a, k)
  BY <1>1 DEF Remove
<1>2. CASE Contains(a, k)
  <2>1. Emptied(a, b, k, V)
    BY <1>2, RemoveLive
  <2>2. a.slots \in Seq(Slot(V))
    BY DEF IsArena
  <2> HIDE DEF b
  <2>3. DOMAIN b.slots = DOMAIN a.slots
    BY <2>1, <2>2 DEF Emptied
  <2>4. \A i \in DOMAIN a.slots : a.slots[i].generation \in Int
    BY <2>2, SlotFields, GenModAssumption DEF Generation
  <2>5. k.generation \in Int /\ k.generation < n /\ GenMod \in Int
    BY <2>1, <2>4, GenModAssumption DEF Emptied, Spent
  <2>6. b.slots[k.index] = [generation |-> k.generation + 1, value |-> NoValue]
    BY <2>1, <2>5 DEF Emptied, WrappingIncrement
  <2>7. ASSUME NEW i \in DOMAIN b.slots
        PROVE  b.slots[i].generation <= n
               /\ (b.slots[i].value # NoValue => b.slots[i].generation < n)
    <3>1. CASE i = k.index
      BY <2>5, <2>6, <3>1
    <3>2. CASE i # k.index
      BY <2>1, <2>3, <3>2 DEF Emptied, Spent
    <3> QED BY <3>1, <3>2
  <2>8. ASSUME NEW m \in keys
        PROVE  /\ m.index \in DOMAIN b.slots
               /\ m.generation <= b.slots[m.index].generation
               /\ m.generation = b.slots[m.index].generation => b.slots[m.index].value # NoValue
    <3>0. m.generation \in Int /\ m.index \in DOMAIN a.slots /\ m.generation <= a.slots[m.index].generation
      BY GenModAssumption DEF Key, Generation, Spent
    <3>1. CASE m.index = k.index
      BY <2>1, <2>3, <2>5, <2>6, <3>0, <3>1 DEF Emptied
    <3>2. CASE m.index # k.index
      BY <2>1, <2>3, <3>0, <3>2 DEF Emptied, Spent
    <3> QED BY <3>1, <3>2
  <2> QED BY <2>7, <2>8 DEF Spent, b
<1> QED BY <1>1, <1>2

\* A write leaves the slots full that were, in their generations.
LEMMA SpentPut ==
    ASSUME NEW V, NoValue \notin V, NEW a, IsArena(a, V), NEW k \in Key, NEW v \in V,
           NEW keys, NEW n, Spent(a, keys, n)
    PROVE  Spent(Put(a, k, v), keys, n)
<1>1. CASE ~Contains(a, k)
  BY <1>1 DEF Put
<1>2. CASE Contains(a, k)
  <2> DEFINE b == Put(a, k, v)
             i == k.index
  <2>1. a.slots \in Seq(Slot(V)) /\ a = [slots |-> a.slots, free |-> a.free]
    BY DEF IsArena
  <2>2. i \in DOMAIN a.slots /\ a.slots[i].value # NoValue
    BY <1>2 DEF Contains, Get, HasSlot
  <2>3. b = [a EXCEPT !.slots = [a.slots EXCEPT ![i].value = v]]
    BY <1>2 DEF Put
  <2>4. b.slots = [a.slots EXCEPT ![i].value = v]
    <3>1. ASSUME NEW s, NEW f, NEW t
          PROVE  [[slots |-> s, free |-> f] EXCEPT !.slots = t].slots = t
      OBVIOUS
    <3> HIDE DEF b, i
    <3> QED BY <2>1, <2>3, <3>1
  <2>5. a.slots[i] = [generation |-> a.slots[i].generation, value |-> a.slots[i].value]
    BY <2>1, <2>2, SlotFields
  <2> HIDE DEF b, i
  <2>6. /\ DOMAIN b.slots = DOMAIN a.slots
        /\ \A j \in DOMAIN a.slots : /\ b.slots[j].generation = a.slots[j].generation
                                     /\ b.slots[j].value # NoValue <=> a.slots[j].value # NoValue
    <3>1. DOMAIN b.slots = DOMAIN a.slots
      BY <2>4
    <3>2. \A j \in DOMAIN a.slots : j # i => b.slots[j] = a.slots[j]
      BY <2>4
    <3>3. b.slots[i].generation = a.slots[i].generation /\ b.slots[i].value = v
      <4>1. ASSUME NEW g, NEW w
            PROVE  [[generation |-> g, value |-> w] EXCEPT !.value = v] = [generation |-> g, value |-> v]
        OBVIOUS
      <4>2. b.slots[i] = [a.slots[i] EXCEPT !.value = v]
        BY <2>2, <2>4
      <4> QED BY <2>5, <4>1, <4>2
    <3> QED BY <2>2, <3>1, <3>2, <3>3
  <2> QED BY <2>6 DEF Spent, b
<1> QED BY <1>1, <1>2

\* Fewer keys and a larger bound.
LEMMA SpentFewer ==
    ASSUME NEW V, NEW a, IsArena(a, V), NEW keys, NEW fewer \in SUBSET keys,
           NEW n \in Nat, NEW m \in Nat, n <= m, Spent(a, keys, n)
    PROVE  Spent(a, fewer, m)
<1>1. \A i \in DOMAIN a.slots : a.slots[i].generation \in Int
  BY SlotFields, GenModAssumption DEF Generation, IsArena
<1> QED BY <1>1 DEF Spent

\* A multiple of m and a rest less than m are told apart by division.
LEMMA DivMod ==
    ASSUME NEW m \in Nat \ {0}, NEW q \in Nat, NEW r \in 0 .. m - 1
    PROVE  (q * m + r) \div m = q /\ (q * m + r) % m = r
<1> DEFINE x == q * m + r
           d == x \div m
           e == x % m
<1>1. x \in Int /\ d \in Int /\ e \in Int /\ 0 <= e /\ e < m /\ x = m * d + e
  OBVIOUS
<1> HIDE DEF d, e
<1>2. m * d + e = m * q + r
  BY <1>1
<1>3. CASE d = q
  BY <1>1, <1>2, <1>3 DEF d, e
<1>4. CASE d >= q + 1
  <2>1. m * d >= m * (q + 1) /\ m * (q + 1) = m * q + m
    BY <1>1, <1>4
  <2> QED BY <1>1, <1>2, <2>1
<1>5. CASE q >= d + 1
  <2>1. m * q >= m * (d + 1) /\ m * (d + 1) = m * d + m
    BY <1>1, <1>5
  <2> QED BY <1>1, <1>2, <2>1
<1> QED BY <1>1, <1>3, <1>4, <1>5

\* The kernel's token gives its key back (Key::to_u64, Key::from_u64).
LEMMA TokenRoundTrip ==
    ASSUME NEW k \in Key
    PROVE  FromU64(ToU64(k)) = k /\ ToU64(k) \in Nat
<1> DEFINE q == k.index - 1
<1>1. /\ q \in Nat /\ k.generation \in 0 .. GenMod - 1 /\ GenMod \in Nat \ {0}
      /\ k = [index |-> q + 1, generation |-> k.generation]
  BY GenModAssumption DEF Key, Generation
<1>2. ToU64(k) = q * GenMod + k.generation
  BY DEF ToU64
<1> HIDE DEF q
<1>3. (q * GenMod + k.generation) \div GenMod = q /\ (q * GenMod + k.generation) % GenMod = k.generation
  BY <1>1, DivMod
<1>4. q * GenMod + k.generation \in Nat
  BY <1>1
<1> QED BY <1>1, <1>2, <1>3, <1>4 DEF FromU64

=============================================================================
