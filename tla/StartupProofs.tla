---------------------------- MODULE StartupProofs ----------------------------
(* Two arguments that do not depend on one another.                             *)
(*                                                                              *)
(* The arena (ArenaUse), for every number of generations and of insertions: the *)
(* generation of a slot is the number of times it was emptied (wrapped when     *)
(* that reaches GenMod), every key carries the count at which it was issued,    *)
(* and only the key with the current count resolves (ArenaIInv).                *)
(*                                                                              *)
(* Startup (Entries, Privileges), for every set of entries, hosts, packets,     *)
(* accounts and processes: the variables read are stored once (Reading), the    *)
(* entries loaded passed the rules and stay within them (Fit), a leg that is    *)
(* built is served (Served), and each call of drop_to finds what the one before *)
(* it left (Dropping).                                                          *)
EXTENDS Entries, ArenaUse, ArenaTheorems

(* -------------------------------- the arena -------------------------------- *)

\* reuses and slots run in parallel, no longer than the insertions made.
SlotCount ==
    /\ Len(reuses) = Len(arena.slots)
    /\ Len(arena.slots) <= inserts

\* A slot's generation is its reuse count, and a full slot's has not wrapped.
SlotGeneration ==
    \A i \in DOMAIN arena.slots :
        /\ reuses[i] <= GenMod
        /\ arena.slots[i].generation = IF reuses[i] = GenMod THEN 0 ELSE reuses[i]
        /\ arena.slots[i].value # NoValue => reuses[i] < GenMod

\* The key was issued at some count of its slot, and at the current count the
\* slot still holds the value it was issued for.
IssuedAt(key, value, held, counts) ==
    /\ key.index \in DOMAIN held
    /\ key.generation <= counts[key.index]
    /\ key.generation = counts[key.index] => held[key.index].value = value

KeyHistory == \A p \in issued : IssuedAt(p[1], p[2], arena.slots, reuses)

ArenaIInv ==
    /\ IsArena(arena, Value)
    /\ issued \subseteq Key \X Value
    /\ reuses \in Seq(Nat)
    /\ inserts \in 0 .. MaxInserts
    /\ SlotCount
    /\ SlotGeneration
    /\ KeyHistory

-----------------------------------------------------------------------------
\* The invariant holds of the empty arena.
LEMMA ArenaInitIInv == ArenaInit => ArenaIInv
<1> SUFFICES ASSUME ArenaInit PROVE ArenaIInv
    OBVIOUS
<1>1. IsArena(arena, Value)
  BY EmptyIsArena DEF ArenaInit
<1>2. arena.slots = <<>> /\ DOMAIN arena.slots = {}
  BY DEF ArenaInit, EmptyArena
<1> QED BY <1>1, <1>2, MaxInsertsAssumption
        DEF ArenaInit, ArenaIInv, SlotCount, SlotGeneration, KeyHistory

\* The invariant is kept by insert (Arena::insert_from).
LEMMA InsertIInv == ArenaIInv /\ insert => ArenaIInv'
<1> SUFFICES ASSUME ArenaIInv, insert PROVE ArenaIInv'
    OBVIOUS
<1> DEFINE key == NextKey(arena)
           value == inserts + 1
           n == Len(arena.slots)
<1>1. /\ value \in Value /\ value \in 0 .. MaxInserts /\ NoValue \notin Value
      /\ arena' = Insert(arena, value) /\ inserts' = value
      /\ issued' = issued \cup {<<key, value>>}
      /\ reuses' = IF arena.free = <<>> THEN Append(reuses, 0) ELSE reuses
      /\ arena.free # <<>> => reuses[key.index] < GenMod
  BY MaxInsertsAssumption, NoValueAssumption DEF ArenaIInv, insert, Value
<1>2. IsArena(arena', Value) /\ key \in Key
  BY <1>1, InsertMap DEF ArenaIInv
<1>3. issued' \subseteq Key \X Value
  BY <1>1, <1>2 DEF ArenaIInv
<1>4. /\ reuses \in Seq(Nat) /\ Len(reuses) = n /\ n \in Nat /\ n <= inserts
      /\ DOMAIN arena.slots = 1 .. n /\ GenMod \in Nat \ {0}
      /\ inserts \in Nat
      /\ arena.slots \in Seq(Slot(Value))
  BY GenModAssumption, MaxInsertsAssumption DEF ArenaIInv, SlotCount, IsArena
<1>5. \A p \in issued : p \in Key \X Value /\ p[1] \in Key /\ p[2] \in Value
                          /\ p[1].generation \in Int /\ IssuedAt(p[1], p[2], arena.slots, reuses)
  BY GenModAssumption DEF ArenaIInv, KeyHistory, Key, Generation
<1>6. CASE arena.free = <<>>
  <2>1. /\ arena'.slots \in Seq(Slot(Value))
        /\ Len(arena'.slots) = n + 1
        /\ \A i \in DOMAIN arena.slots : arena'.slots[i] = arena.slots[i]
        /\ arena'.slots[n + 1] = [generation |-> 0, value |-> value]
        /\ key = [index |-> n + 1, generation |-> 0]
    BY <1>1, <1>6, InsertPush DEF ArenaIInv
  <2>2. /\ reuses' \in Seq(Nat) /\ Len(reuses') = n + 1
        /\ \A i \in 1 .. n : reuses'[i] = reuses[i]
        /\ reuses'[n + 1] = 0
    BY <1>1, <1>4, <1>6
  <2>3. DOMAIN arena'.slots = 1 .. n + 1
    BY <2>1, <1>4
  <2> HIDE DEF n, value, key
  <2>4. SlotCount'
    BY <1>1, <1>4, <2>1, <2>2 DEF SlotCount, value
  <2>5. SlotGeneration'
    <3> SUFFICES ASSUME NEW i \in 1 .. n + 1
                 PROVE  /\ reuses'[i] <= GenMod
                        /\ arena'.slots[i].generation = IF reuses'[i] = GenMod THEN 0 ELSE reuses'[i]
                        /\ arena'.slots[i].value # NoValue => reuses'[i] < GenMod
      BY <2>3 DEF SlotGeneration
    <3>1. CASE i = n + 1
      BY <1>4, <2>1, <2>2, <3>1
    <3>2. CASE i \in 1 .. n
      BY <1>4, <2>1, <2>2, <3>2, ZenonT(30) DEF ArenaIInv, SlotGeneration
    <3> QED BY <3>1, <3>2, <1>4
  <2>6. KeyHistory'
    <3>1. IssuedAt(key, value, arena'.slots, reuses')
      BY <1>4, <2>1, <2>2, <2>3 DEF IssuedAt
    <3>2. ASSUME NEW p \in issued PROVE IssuedAt(p[1], p[2], arena'.slots, reuses')
      <4>1. IssuedAt(p[1], p[2], arena.slots, reuses)
        BY <1>5
      <4> DEFINE i == p[1].index
      <4>2. i \in DOMAIN arena.slots
        BY <4>1 DEF IssuedAt
      <4>3. i \in 1 .. n /\ i \in 1 .. n + 1
        BY <1>4, <4>2
      <4>4. i \in DOMAIN arena'.slots /\ arena'.slots[i] = arena.slots[i] /\ reuses'[i] = reuses[i]
        BY <2>1, <2>2, <2>3, <4>2, <4>3
      <4> QED BY <4>1, <4>4 DEF IssuedAt
    <3>3. \A p \in issued' : IssuedAt(p[1], p[2], arena'.slots, reuses')
      BY <1>1, <3>1, <3>2
    <3> QED BY <3>3 DEF KeyHistory
  <2> QED BY <1>1, <1>2, <1>3, <2>2, <2>4, <2>5, <2>6 DEF ArenaIInv
<1>7. CASE arena.free # <<>>
  <2> DEFINE top == arena.free[Len(arena.free)]
  <2>1. /\ top \in DOMAIN arena.slots /\ arena.slots[top].value = NoValue
        /\ arena'.slots \in Seq(Slot(Value))
        /\ Len(arena'.slots) = n
        /\ arena'.slots[top] = [generation |-> arena.slots[top].generation, value |-> value]
        /\ \A i \in DOMAIN arena.slots : i # top => arena'.slots[i] = arena.slots[i]
        /\ key = [index |-> top, generation |-> arena.slots[top].generation]
    BY <1>1, <1>7, InsertReuse DEF ArenaIInv
  <2>2. reuses' = reuses /\ reuses[top] < GenMod
    BY <1>1, <1>7, <2>1
  <2>3. DOMAIN arena'.slots = 1 .. n
    BY <2>1, <1>4
  <2> HIDE DEF n, value, key, top
  <2>4. SlotCount'
    BY <1>1, <1>4, <2>1, <2>2 DEF SlotCount, value
  <2>5. SlotGeneration'
    BY <1>4, <2>1, <2>2, <2>3 DEF ArenaIInv, SlotGeneration
  <2>6. KeyHistory'
    <3>1. IssuedAt(key, value, arena'.slots, reuses')
      <4>1. arena.slots[top].generation = reuses[top] /\ reuses[top] \in Nat
        BY <1>4, <2>1, <2>2 DEF ArenaIInv, SlotGeneration
      <4> QED BY <1>4, <2>1, <2>2, <2>3, <4>1 DEF IssuedAt
    <3>2. ASSUME NEW p \in issued PROVE IssuedAt(p[1], p[2], arena'.slots, reuses')
      <4>1. p[2] # NoValue
        BY <1>1, <1>5
      <4> QED BY <1>4, <1>5, <2>1, <2>2, <2>3, <4>1, ZenonT(30) DEF IssuedAt
    <3>3. \A p \in issued' : IssuedAt(p[1], p[2], arena'.slots, reuses')
      BY <1>1, <3>1, <3>2
    <3> QED BY <3>3 DEF KeyHistory
  <2> QED BY <1>1, <1>2, <1>3, <1>4, <2>2, <2>4, <2>5, <2>6 DEF ArenaIInv
<1> QED BY <1>6, <1>7

\* The invariant is kept by remove (Arena::remove), through any key.
LEMMA RemoveIInv == ASSUME NEW q \in issued PROVE ArenaIInv /\ remove(q[1]) => ArenaIInv'
<1> SUFFICES ASSUME ArenaIInv, remove(q[1]) PROVE ArenaIInv'
    OBVIOUS
<1> DEFINE key == q[1]
           n == Len(arena.slots)
<1>1. CASE ~Contains(arena, key)
  <2>1. arena' = arena /\ issued' = issued /\ reuses' = reuses /\ inserts' = inserts
    BY <1>1 DEF remove, Remove
  <2> QED BY <2>1 DEF ArenaIInv, SlotCount, SlotGeneration, KeyHistory, IssuedAt
<1>2. CASE Contains(arena, key)
  <2>1. /\ arena' = Remove(arena, key)
        /\ reuses' = [reuses EXCEPT ![key.index] = @ + 1]
        /\ inserts' = inserts /\ issued' = issued
    BY <1>2 DEF remove
  <2>2. key \in Key
    BY DEF ArenaIInv
  <2>3. IsArena(arena', Value)
    BY <2>1, <2>2, RemoveMap DEF ArenaIInv
  <2>4. Emptied(arena, arena', key, Value)
    BY <1>2, <2>1, <2>2, RemoveLive DEF ArenaIInv
  <2>5. /\ reuses \in Seq(Nat) /\ Len(reuses) = n /\ n \in Nat /\ n <= inserts
        /\ DOMAIN arena.slots = 1 .. n /\ GenMod \in Nat \ {0}
        /\ arena.slots \in Seq(Slot(Value))
        /\ DOMAIN arena'.slots = 1 .. n /\ Len(arena'.slots) = n
    BY GenModAssumption, MaxInsertsAssumption, <2>4 DEF ArenaIInv, SlotCount, IsArena, Emptied
  <2>6. \A p \in issued : p \in Key \X Value /\ p[1] \in Key /\ p[2] \in Value
                            /\ p[1].generation \in Nat /\ IssuedAt(p[1], p[2], arena.slots, reuses)
    BY GenModAssumption DEF ArenaIInv, KeyHistory, Key, Generation
  <2> DEFINE i == key.index
  <2>7. /\ i \in 1 .. n
        /\ reuses[i] \in Nat /\ reuses[i] < GenMod
        /\ arena.slots[i].generation = reuses[i]
        /\ key.generation = reuses[i]
        /\ arena'.slots[i] = [generation |-> WrappingIncrement(key.generation), value |-> NoValue]
        /\ \A j \in 1 .. n : j # i => arena'.slots[j] = arena.slots[j]
    <3>1. /\ i \in 1 .. n /\ arena.slots[i].value # NoValue
          /\ arena.slots[i].generation = key.generation
          /\ arena'.slots[i] = [generation |-> WrappingIncrement(key.generation), value |-> NoValue]
          /\ \A j \in 1 .. n : j # i => arena'.slots[j] = arena.slots[j]
      BY <2>4, <2>5 DEF Emptied
    <3>2. reuses[i] \in Nat /\ reuses[i] < GenMod /\ arena.slots[i].generation = reuses[i]
      <4> HIDE DEF i, n
      <4>1. reuses[i] \in Nat /\ i \in DOMAIN arena.slots
        BY <2>5, <3>1
      <4>2. SlotGeneration
        BY DEF ArenaIInv
      <4>3. /\ arena.slots[i].generation = IF reuses[i] = GenMod THEN 0 ELSE reuses[i]
            /\ reuses[i] < GenMod
        BY <3>1, <4>1, <4>2 DEF SlotGeneration
      <4> QED BY <2>5, <4>1, <4>3
    <3> QED BY <3>1, <3>2
  <2> HIDE DEF i, n
  <2>8. /\ reuses' \in Seq(Nat) /\ Len(reuses') = n
        /\ reuses'[i] = reuses[i] + 1
        /\ \A j \in 1 .. n : j # i => reuses'[j] = reuses[j]
    BY <2>1, <2>5, <2>7 DEF i
  <2>9. SlotCount'
    BY <2>1, <2>5, <2>8 DEF SlotCount
  <2>10. SlotGeneration'
    <3> SUFFICES ASSUME NEW j \in 1 .. n
                 PROVE  /\ reuses'[j] <= GenMod
                        /\ arena'.slots[j].generation = IF reuses'[j] = GenMod THEN 0 ELSE reuses'[j]
                        /\ arena'.slots[j].value # NoValue => reuses'[j] < GenMod
      BY <2>5 DEF SlotGeneration
    <3>1. CASE j = i
      <4>1. reuses'[j] = reuses[i] + 1 /\ reuses[i] \in Nat /\ reuses[i] < GenMod
        BY <2>7, <2>8, <3>1
      <4>2. arena'.slots[j].generation = WrappingIncrement(reuses[i]) /\ arena'.slots[j].value = NoValue
        BY <2>7, <3>1
      <4>3. WrappingIncrement(reuses[i]) = IF reuses[i] + 1 = GenMod THEN 0 ELSE reuses[i] + 1
        BY GenModAssumption, <4>1 DEF WrappingIncrement
      <4> QED BY GenModAssumption, <4>1, <4>2, <4>3
    <3>2. CASE j # i
      BY <2>5, <2>7, <2>8, <3>2 DEF ArenaIInv, SlotGeneration
    <3> QED BY <3>1, <3>2
  <2>11. ASSUME NEW p \in issued PROVE IssuedAt(p[1], p[2], arena'.slots, reuses')
    <3>1. /\ p[1].index \in 1 .. n /\ p[1].generation \in Nat
          /\ p[1].generation <= reuses[p[1].index]
          /\ p[1].generation = reuses[p[1].index] => arena.slots[p[1].index].value = p[2]
      BY <2>5, <2>6 DEF IssuedAt
    <3>2. CASE p[1].index = i
      BY <2>5, <2>7, <2>8, <3>1, <3>2 DEF IssuedAt
    <3>3. CASE p[1].index # i
      BY <2>5, <2>7, <2>8, <3>1, <3>3 DEF IssuedAt
    <3> QED BY <3>2, <3>3
  <2>12. KeyHistory'
    BY <2>1, <2>11 DEF KeyHistory
  <2> QED BY <2>1, <2>3, <2>8, <2>9, <2>10, <2>12 DEF ArenaIInv
<1> QED BY <1>1, <1>2

\* Every step keeps the invariant.
LEMMA ArenaNextIInv == ArenaIInv /\ [ArenaNext]_useVars => ArenaIInv'
<1>1. ArenaIInv /\ UNCHANGED useVars => ArenaIInv'
  BY DEF ArenaIInv, SlotCount, SlotGeneration, KeyHistory, IssuedAt, useVars
<1> QED BY <1>1, InsertIInv, RemoveIInv DEF ArenaNext

\* ArenaIInv is an invariant of the arena in use.
LEMMA Invariance == ArenaSpec => []ArenaIInv
BY ArenaInitIInv, ArenaNextIInv, PTL DEF ArenaSpec

\* The arena, the history and the counters keep their types.
THEOREM TypeCorrect == ArenaSpec => []ArenaTypeOK
<1>1. ArenaIInv => ArenaTypeOK
  BY DEF ArenaIInv, IsArena, ArenaTypeOK
<1> QED BY <1>1, Invariance, PTL

\* A key that resolves carries its slot's current count, so it resolves to the
\* value it was issued for.
LEMMA Resolves ==
    ASSUME ArenaIInv, NEW p \in issued
    PROVE  /\ Get(arena, p[1]) \in {p[2], NoValue}
           /\ p[1] \in UsedKey
<1>1. /\ p[1] \in Key /\ p[2] \in Value /\ IssuedAt(p[1], p[2], arena.slots, reuses)
      /\ DOMAIN arena.slots = 1 .. Len(arena.slots) /\ Len(arena.slots) <= MaxInserts
      /\ Len(arena.slots) \in Nat
  BY MaxInsertsAssumption DEF ArenaIInv, KeyHistory, IsArena, SlotCount
<1>2. Get(arena, p[1]) \in {p[2], NoValue}
  <2> DEFINE i == p[1].index
             g == p[1].generation
  <2>1. /\ i \in DOMAIN arena.slots
        /\ g = reuses[i] => arena.slots[i].value = p[2]
    BY <1>1 DEF IssuedAt
  <2>2. arena.slots[i].value # NoValue => arena.slots[i].generation = reuses[i]
    <3> HIDE DEF i
    <3>1. /\ arena.slots[i].value # NoValue => reuses[i] < GenMod
          /\ arena.slots[i].generation = IF reuses[i] = GenMod THEN 0 ELSE reuses[i]
      BY <2>1 DEF ArenaIInv, SlotGeneration
    <3>2. reuses[i] \in Nat /\ GenMod \in Nat
      BY <1>1, <2>1, GenModAssumption DEF ArenaIInv, SlotCount
    <3> QED BY <3>1, <3>2
  <2>3. CASE arena.slots[i].generation = g /\ arena.slots[i].value # NoValue
    BY <2>1, <2>2, <2>3 DEF Get, HasSlot
  <2>4. CASE ~(arena.slots[i].generation = g /\ arena.slots[i].value # NoValue)
    BY <2>4 DEF Get, HasSlot
  <2> QED BY <2>3, <2>4
<1>3. p[1] \in UsedKey
  BY <1>1, MaxInsertsAssumption DEF IssuedAt, Key, UsedKey
<1> QED BY <1>2, <1>3

\* A copy of a key whose value was removed never reaches a later occupant of
\* the slot, whatever the number of generations, up to the wrap.
THEOREM NoAliasingHolds == ArenaSpec => []NoAliasing
<1>1. ArenaIInv => NoAliasing
  BY Resolves DEF NoAliasing
<1> QED BY <1>1, Invariance, PTL

\* The free list is exactly the empty slots, each once.
THEOREM FreeListExactHolds == ArenaSpec => []FreeListExact
<1>1. ArenaIInv => FreeListExact
  BY DEF ArenaIInv, IsArena, FreeListExact
<1> QED BY <1>1, Invariance, PTL

-----------------------------------------------------------------------------
\* A key is never handed out twice (Arena::insert_from).
LEMMA FreshKey == ArenaIInv /\ insert => NextKey(arena) \notin {p[1] : p \in issued}
<1> SUFFICES ASSUME ArenaIInv, insert, NEW p \in issued PROVE NextKey(arena) # p[1]
    OBVIOUS
<1> DEFINE n == Len(arena.slots)
           top == arena.free[Len(arena.free)]
<1>1. /\ IssuedAt(p[1], p[2], arena.slots, reuses) /\ p[2] # NoValue
      /\ DOMAIN arena.slots = 1 .. n /\ n \in Nat /\ inserts + 1 \in Value
      /\ GenMod \in Nat
  BY NoValueAssumption, GenModAssumption, MaxInsertsAssumption
     DEF ArenaIInv, KeyHistory, IsArena, insert, Value
<1>2. CASE arena.free = <<>>
  <2>1. NextKey(arena) = [index |-> n + 1, generation |-> 0]
    BY <1>2 DEF NextKey
  <2>2. p[1].index # n + 1
    BY <1>1 DEF IssuedAt
  <2> QED BY <2>1, <2>2
<1>3. CASE arena.free # <<>>
  <2>1. /\ top \in DOMAIN arena.slots /\ arena.slots[top].value = NoValue
        /\ NextKey(arena) = [index |-> top, generation |-> arena.slots[top].generation]
    BY <1>1, <1>3, InsertReuse, Zenon DEF ArenaIInv
  <2>2. reuses[top] < GenMod
    BY <1>3, <2>1 DEF insert
  <2> HIDE DEF top
  <2>3. arena.slots[top].generation = reuses[top]
    <3>1. reuses[top] \in Nat
      BY <1>1, <2>1 DEF ArenaIInv, SlotCount
    <3> QED BY <1>1, <2>1, <2>2, <3>1 DEF ArenaIInv, SlotGeneration
  <2>4. ~(p[1].index = top /\ p[1].generation = reuses[top])
    BY <1>1, <2>1 DEF IssuedAt
  <2> QED BY <2>1, <2>3, <2>4
<1> QED BY <1>2, <1>3

\* An insertion is an insertion of Handles.
LEMMA InsertRefines ==
    ArenaIInv /\ insert => Promise!Insert(NextKey(arena), inserts + 1)
                      /\ NextKey(arena) \in UsedKey /\ inserts + 1 \in Value
<1> SUFFICES ASSUME ArenaIInv, insert
             PROVE  Promise!Insert(NextKey(arena), inserts + 1)
                    /\ NextKey(arena) \in UsedKey /\ inserts + 1 \in Value
    OBVIOUS
<1> DEFINE key == NextKey(arena)
           value == inserts + 1
<1>1. /\ value \in Value /\ NoValue \notin Value
      /\ arena' = Insert(arena, value)
      /\ issued' = issued \cup {<<key, value>>}
      /\ issued \subseteq Key \X Value
  BY MaxInsertsAssumption, NoValueAssumption DEF ArenaIInv, insert, Value
<1>2. /\ key \in Key
      /\ Get(arena', key) = value
      /\ \A k \in Key : k # key => Get(arena', k) = Get(arena, k)
  BY <1>1, InsertMap DEF ArenaIInv
<1>3. \A p \in issued : p[1] # key /\ p[1] \in Key
  BY <1>1, FreshKey
<1> HIDE DEF key, value
<1>4. {p[1] : p \in issued}' = {p[1] : p \in issued} \cup {key}
  <2>1. <<key, value>>[1] = key
    OBVIOUS
  <2> QED BY <1>1, <2>1
<1>5. LivePairs' = LivePairs \cup {<<key, value>>}
  <2>1. LivePairs' = {<<p[1], Get(arena', p[1])>> : p \in {q \in issued' : Contains(arena', q[1])}}
    BY DEF LivePairs
  <2>2. \A p \in issued : Get(arena', p[1]) = Get(arena, p[1])
    BY <1>2, <1>3
  <2>3. \A q \in issued' : q \in issued \/ q = <<key, value>>
    BY <1>1
  <2>4. Contains(arena', key) /\ \A p \in issued : Contains(arena', p[1]) <=> Contains(arena, p[1])
    BY <1>1, <1>2, <2>2 DEF Contains
  <2>5. ASSUME NEW x \in LivePairs' PROVE x \in LivePairs \cup {<<key, value>>}
    <3>1. PICK p \in issued' : Contains(arena', p[1]) /\ x = <<p[1], Get(arena', p[1])>>
      BY <2>1
    <3> QED BY <1>2, <2>2, <2>3, <2>4, <3>1 DEF LivePairs
  <2>6. ASSUME NEW x \in LivePairs PROVE x \in LivePairs'
    <3>1. PICK p \in issued : Contains(arena, p[1]) /\ x = <<p[1], Get(arena, p[1])>>
      BY DEF LivePairs
    <3> QED BY <1>1, <2>1, <2>2, <2>4, <3>1
  <2>7. <<key, value>> \in LivePairs'
    <3>1. <<key, value>> \in issued'
      BY <1>1
    <3> QED BY <1>2, <2>1, <2>4, <3>1
  <2> QED BY <2>5, <2>6, <2>7
<1>6. key \notin {p[1] : p \in issued}
  BY <1>3
<1>7. key \in UsedKey
  <2>1. /\ key.index \in Nat \ {0} /\ key.index <= Len(arena.slots) + 1
        /\ Len(arena.slots) \in Nat /\ Len(arena.slots) <= inserts /\ inserts < MaxInserts
        /\ inserts \in Nat
    <3>1. /\ Len(arena.slots) \in Nat /\ Len(arena.slots) <= inserts /\ inserts < MaxInserts
          /\ inserts \in Nat /\ DOMAIN arena.slots = 1 .. Len(arena.slots)
      BY MaxInsertsAssumption DEF ArenaIInv, SlotCount, IsArena, insert
    <3>2. CASE arena.free = <<>>
      <4>1. key = [index |-> Len(arena.slots) + 1, generation |-> 0]
        BY <3>2 DEF NextKey, key
      <4> QED BY <3>1, <4>1
    <3>3. CASE arena.free # <<>>
      <4> DEFINE top == arena.free[Len(arena.free)]
      <4>1. /\ key = [index |-> top, generation |-> arena.slots[top].generation]
            /\ top \in DOMAIN arena.slots
        BY <1>1, <3>3, InsertReuse DEF ArenaIInv, key
      <4> QED BY <3>1, <4>1
    <3> QED BY <3>1, <3>2, <3>3
  <2>2. key.index \in 1 .. MaxInserts
    BY <2>1, MaxInsertsAssumption
  <2> QED BY <1>2, <2>2 DEF UsedKey, Key
<1> QED BY <1>1, <1>4, <1>5, <1>6, <1>7 DEF Promise!Insert, key, value

\* A removal is a removal of Handles, or changes nothing.
LEMMA RemoveRefines ==
    ASSUME NEW q \in issued
    PROVE  ArenaIInv /\ remove(q[1]) => Promise!Remove(q[1])
<1> SUFFICES ASSUME ArenaIInv, remove(q[1]) PROVE Promise!Remove(q[1])
    OBVIOUS
<1>1. arena' = Remove(arena, q[1]) /\ issued' = issued /\ issued \subseteq Key \X Value
  BY DEF remove, ArenaIInv
<1>2. /\ Get(arena', q[1]) = NoValue
      /\ \A k \in Key : k # q[1] => Get(arena', k) = Get(arena, k)
  BY <1>1, RemoveMap DEF ArenaIInv
<1>3. {p[1] : p \in issued}' = {p[1] : p \in issued}
  BY <1>1
<1>4. LivePairs' = {x \in LivePairs : x[1] # q[1]}
  <2>1. LivePairs' = {<<p[1], Get(arena', p[1])>> : p \in {r \in issued : Contains(arena', r[1])}}
    BY <1>1 DEF LivePairs
  <2>2. \A p \in issued : p[1] # q[1] => Get(arena', p[1]) = Get(arena, p[1])
    BY <1>1, <1>2
  <2>3. ASSUME NEW x \in LivePairs' PROVE x \in LivePairs /\ x[1] # q[1]
    <3>1. PICK p \in issued : Contains(arena', p[1]) /\ x = <<p[1], Get(arena', p[1])>>
      BY <2>1
    <3>2. p[1] # q[1]
      BY <1>2, <3>1 DEF Contains
    <3> QED BY <2>2, <3>1, <3>2 DEF LivePairs, Contains
  <2>4. ASSUME NEW x \in LivePairs, x[1] # q[1] PROVE x \in LivePairs'
    <3>1. PICK p \in issued : Contains(arena, p[1]) /\ x = <<p[1], Get(arena, p[1])>>
      BY DEF LivePairs
    <3>2. p[1] # q[1]
      BY <2>4, <3>1
    <3> QED BY <2>1, <2>2, <3>1, <3>2 DEF Contains
  <2> QED BY <2>3, <2>4
<1> QED BY <1>3, <1>4 DEF Promise!Remove

\* The arena in use implements Handles: what a handle resolves to is changed
\* only by the insertion that issues it and by a removal through it.
THEOREM ArenaKeepsPromise == ArenaSpec => KeepsPromise
<1>1. ArenaInit => Promise!Init
  BY DEF ArenaInit, Promise!Init, LivePairs
<1>2. ArenaIInv /\ [ArenaNext]_useVars => [Promise!Next]_(Promise!vars)
  <2> SUFFICES ASSUME ArenaIInv, [ArenaNext]_useVars PROVE [Promise!Next]_(Promise!vars)
      OBVIOUS
  <2>1. CASE insert
    <3>1. \E h \in UsedKey, v \in Value : Promise!Insert(h, v)
      BY <2>1, InsertRefines DEF Promise!Insert
    <3> QED BY <3>1 DEF Promise!Next
  <2>2. ASSUME NEW q \in issued, remove(q[1]) PROVE Promise!Next
    BY <2>2, RemoveRefines DEF Promise!Next
  <2>3. CASE UNCHANGED useVars
    <3>1. UNCHANGED Promise!vars
      BY <2>3 DEF useVars, Promise!vars, LivePairs
    <3> QED BY <3>1
  <2> QED BY <2>1, <2>2, <2>3 DEF ArenaNext
<1> QED BY <1>1, <1>2, Invariance, PTL DEF ArenaSpec, KeepsPromise, Promise!Spec

(* --------------------------------- startup --------------------------------- *)

\* A process has all of its fields.
IsProcess(p) ==
    p \in [platform : {p.platform}, uid : {p.uid}, gid : {p.gid}, groups : {p.groups},
           permitted : {p.permitted}, effective : {p.effective}, inheritable : {p.inheritable},
           keep_caps : {p.keep_caps}, no_new_privs : {p.no_new_privs}, ignores : {p.ignores},
           pin_needs_raw : {p.pin_needs_raw}, was_root : {p.was_root},
           started_with : {p.started_with}]

\* What DIAL needs to pin its connections is still there, if it was.
MayPin(p) == (IsLinux(p) /\ Dials /\ CAP_NET_RAW \in p.started_with) => CAP_NET_RAW \in p.permitted

\* Root's supplementary groups are gone.
GroupsLeft(p) == p.was_root => p.groups = {p.gid.effective}

\* The capabilities are settled.
CapsSettled(p) ==
    IsLinux(p) =>
        /\ p.permitted \union p.effective \subseteq (IF Dials THEN {CAP_NET_RAW} ELSE {})
        /\ p.inheritable = {} /\ ~p.keep_caps
        /\ (Dials /\ CAP_NET_RAW \in p.started_with) => CanPin(p)

\* What each call of drop_to finds.
Dropping ==
    /\ drop \notin {"none", "failed"} => IsProcess(process)
    /\ drop = "narrow" => IsLinux(process) /\ MayPin(process)
    /\ drop = "switch" => MayPin(process) /\ (IsLinux(process) => process.keep_caps)
    /\ drop = "settle" => IsLinux(process) /\ MayPin(process) /\ GroupsLeft(process)
    /\ drop \in {"forbid", "check"} => GroupsLeft(process) /\ CapsSettled(process)
    /\ drop = "check" => (process.platform # "macos" => process.no_new_privs)
    /\ drop = "done" => Switched(Dials)

\* The variables read are stored, each parameter once.
Reading ==
    /\ slots \union unread = env
    /\ \A one, other \in slots : one[1] = other[1] => one = other

\* A leg finds the addresses its entry requires where it sends, and MACs where it filters on them.
Served(leg) ==
    /\ requires(leg.family) \subseteq host.addrs[leg.egress]
    /\ leg.filter.src_mac # None => host.ethernet[leg.ingress]

IsEntry(r) == r = [param \in Params |-> r[param]]

\* The groups of an entry are multicast addresses.
Grouped(r) == UNION r.udp_groups \subseteq V4Groups \union V6Groups

\* An entry as Reflector::try_from accepts it, with its ports.
Accepted(r) == ~Refused(r) /\ (r.wol => r.wol_ports # None)

\* The entries passed the rules for one and for two.
Fit(rs) ==
    /\ \A i \in DOMAIN rs : Accepted(rs[i]) /\ Grouped(rs[i])
    /\ \A i, j \in DOMAIN rs : i < j => ~conflicts_with(rs[i], rs[j])

StartupIInv ==
    /\ wanted \in EnvEntries
    /\ stage = "env" => Reading
    /\ \A i \in DOMAIN reflectors : IsEntry(reflectors[i])
    /\ stage \in {"loaded", "fitted"} => Fit(reflectors)
    /\ stage \in {"built", "running"} => \A leg \in legs : Served(leg)
    /\ (stage \in {"resolved", "built", "running"} /\ user # None) => credentials # {}
    /\ drop # "none" => stage \in {"built", "running"}
    /\ (stage = "running" /\ credentials # {}) => drop = "done"
    /\ Dropping

(* -------------------------------- fallback --------------------------------- *)

\* The same flow, as far as it reaches.
Like(f, g) == f.protocol = g.protocol /\ f.way = g.way /\ f.port = g.port /\ f.reach \subseteq g.reach

\* A flow of the one is a flow of the other, as far as it reaches.
Within(r, s) ==
    \A f \in flows(r) : \E g \in flows(s) : Like(f, g)

\* An entry of the default family that falls back keeps everything but its IPv6 groups and peers.
LEMMA FallBackFields ==
    ASSUME NEW r, IsEntry(r), r.address_family = "default"
    PROVE  LET s == FallBack(r)
           IN  /\ s.address_family = "ipv4" /\ IsEntry(s)
               /\ s.udp_groups = ipv4_part(r.udp_groups) \ {{}}
               /\ s.source_peers = ipv4_part(r.source_peers) /\ s.target_peers = ipv4_part(r.target_peers)
               /\ \A param \in Params \ {"address_family", "udp_groups", "source_peers", "target_peers"} :
                     s[param] = r[param]
BY DEF FallBack, IsEntry, Params, Default

\* The parameters of an entry.
LEMMA AllParams ==
  Params = {"source_if", "target_if", "source_peers", "target_peers", "macs", "address_family", "wol", "wol_ports",
   "mdns", "mdns_services", "ssdp", "dial", "wsd", "bidirectional", "udp_ports", "udp_groups", "udp_broadcast"}
BY DEF Params, Default

\* A flow for each way and each target.
LEMMA FlowIs ==
    ASSUME NEW protocol, NEW ways, NEW targets, NEW way \in ways, NEW t \in targets
    PROVE  [protocol |-> protocol, way |-> way, port |-> t[1], reach |-> t[2]] \in FlowsOf(protocol, ways, targets)
BY DEF FlowsOf

\* Targets that reach no further make flows that reach no further.
LEMMA FlowsWithin ==
   ASSUME NEW protocol, NEW ways, NEW targets, NEW more,
          \A t \in targets : \E u \in more : t[1] = u[1] /\ t[2] \subseteq u[2]
   PROVE  \A f \in FlowsOf(protocol, ways, targets) : \E g \in FlowsOf(protocol, ways, more) : Like(f, g)
<1> SUFFICES ASSUME NEW f \in FlowsOf(protocol, ways, targets)
             PROVE \E g \in FlowsOf(protocol, ways, more) : Like(f, g)
  OBVIOUS
<1>1. PICK way \in ways, t \in targets : f = [protocol |-> protocol, way |-> way, port |-> t[1], reach |-> t[2]]
  BY DEF FlowsOf
<1>2. PICK u \in more : t[1] = u[1] /\ t[2] \subseteq u[2]
  BY <1>1
<1> DEFINE g == [protocol |-> protocol, way |-> way, port |-> u[1], reach |-> u[2]]
<1>3. g \in FlowsOf(protocol, ways, more)
  BY <1>1, <1>2, FlowIs
<1>4. Like(f, g)
  BY <1>1, <1>2 DEF Like
<1> HIDE DEF g
<1> QED BY <1>3, <1>4

\* The ways a discovery goes, and the flows of the parts of an entry.
Ways(r) == {<<r.source_if, r.target_if>>, <<r.target_if, r.source_if>>}
Found(r, d) == FlowsOf(d, Ways(r), {PortOf(d)} \X {{g} : g \in group_addrs(d, r.address_family)})
WokenAt(r) == FlowsOf("Wol", directions(r), (UNION r.wol_ports) \X {AnyUsed(r.address_family)})
Relayed(r) == FlowsOf("Udp", directions(r), destinations(r))

\* The flows of an entry are those of its discoveries, its wake-ups and its relay.
LEMMA FlowsAre ==
    ASSUME NEW r
    PROVE  /\ \A f \in flows(r) : (\E d \in Discoveries(r) : f \in Found(r, d)) \/ f \in WokenAt(r) \/ f \in Relayed(r)
           /\ \A d \in Discoveries(r) : Found(r, d) \subseteq flows(r)
           /\ WokenAt(r) \subseteq flows(r) /\ Relayed(r) \subseteq flows(r)
<1>1. flows(r) = (UNION {Found(r, d) : d \in Discoveries(r)}) \union WokenAt(r) \union Relayed(r)
  BY DEF flows, Found, WokenAt, Relayed, Ways
<1> QED BY <1>1

\* An entry that falls back claims no flow it did not (fall_back_to_ipv4).
LEMMA FallBackWithin ==
    ASSUME NEW r, IsEntry(r)
    PROVE  Within(FallBack(r), r)
<1> DEFINE s == FallBack(r)
<1>1. CASE r.address_family # "default"
  BY <1>1 DEF FallBack, Within, Like
<1>2. CASE r.address_family = "default"
  <2>1. /\ s.address_family = "ipv4" /\ s.udp_groups = ipv4_part(r.udp_groups) \ {{}}
        /\ s.source_if = r.source_if /\ s.target_if = r.target_if /\ s.bidirectional = r.bidirectional
        /\ s.mdns = r.mdns /\ s.ssdp = r.ssdp /\ s.wsd = r.wsd /\ s.wol_ports = r.wol_ports
        /\ s.udp_ports = r.udp_ports /\ s.udp_broadcast = r.udp_broadcast
    BY <1>2, FallBackFields, AllParams
  <2> HIDE DEF s
  <2>2. uses(s.address_family) = {"v4"} /\ uses(r.address_family) = {"v4", "v6"}
    BY <1>2, <2>1 DEF uses
  <2>3. Discoveries(s) = Discoveries(r) /\ directions(s) = directions(r)
    BY <2>1 DEF Discoveries, directions
  <2>4. \A d : group_addrs(d, s.address_family) \subseteq group_addrs(d, r.address_family)
    BY <2>2 DEF group_addrs
  <2>5. AnyUsed(s.address_family) \subseteq AnyUsed(r.address_family)
    BY <2>2 DEF AnyUsed
  <2>6. destinations(s) \subseteq destinations(r)
    BY <2>1 DEF destinations, ipv4_part
  <2>8. ASSUME NEW d PROVE \A f \in Found(s, d) : \E g \in Found(r, d) : Like(f, g)
    <3>1. {PortOf(d)} \X {{g} : g \in group_addrs(d, s.address_family)}
             \subseteq {PortOf(d)} \X {{g} : g \in group_addrs(d, r.address_family)}
      BY <2>4
    <3>2. Ways(s) = Ways(r)
      BY <2>1 DEF Ways
    <3> QED BY <3>1, <3>2, FlowsWithin DEF Found
  <2>9. \A f \in WokenAt(s) : \E g \in WokenAt(r) : Like(f, g)
    <3>1. \A t \in (UNION r.wol_ports) \X {AnyUsed(s.address_family)} :
             \E u \in (UNION r.wol_ports) \X {AnyUsed(r.address_family)} : t[1] = u[1] /\ t[2] \subseteq u[2]
      <4> SUFFICES ASSUME NEW port \in UNION r.wol_ports
                   PROVE \E u \in (UNION r.wol_ports) \X {AnyUsed(r.address_family)} :
                            port = u[1] /\ AnyUsed(s.address_family) \subseteq u[2]
        OBVIOUS
      <4>1. <<port, AnyUsed(r.address_family)>> \in (UNION r.wol_ports) \X {AnyUsed(r.address_family)}
        OBVIOUS
      <4> QED BY <2>5, <4>1
    <3> QED BY <2>1, <2>3, <3>1, FlowsWithin DEF WokenAt
  <2>10. \A f \in Relayed(s) : \E g \in Relayed(r) : Like(f, g)
    BY <2>3, <2>6, FlowsWithin DEF Relayed
  <2>11. \A f \in flows(s) : \E g \in flows(r) : Like(f, g)
    BY <2>3, FlowsAre, <2>8, <2>9, <2>10, Zenon
  <2> QED BY <2>11 DEF s, Within
<1> QED BY <1>1, <1>2

\* A relay that overlaps flows still does when both reach further.
LEMMA OverlapGrows ==
    ASSUME NEW r, NEW s, NEW others, NEW more, Within(s, r),
           \A f \in others : \E g \in more : Like(f, g), relay_overlap(s, others)
    PROVE  relay_overlap(r, more)
<1>1. PICK mine \in flows(s), other \in others : mine.protocol = "Udp" /\ Overlaps(mine, other)
  BY DEF relay_overlap
<1>2. PICK f \in flows(r) : Like(mine, f)
  BY <1>1 DEF Within
<1>3. PICK g \in more : Like(other, g)
  BY <1>1
<1>4. PICK dest : dest \in mine.reach /\ dest \in other.reach
  BY <1>1 DEF Overlaps
<1>5. Overlaps(f, g) /\ f.protocol = "Udp"
  BY <1>1, <1>2, <1>3, <1>4 DEF Overlaps, Like
<1> QED BY <1>2, <1>3, <1>5 DEF relay_overlap

\* Two entries that conflict once they fell back did before.
LEMMA FallBackConflicts ==
    ASSUME NEW r, NEW q, IsEntry(r), IsEntry(q), conflicts_with(FallBack(r), FallBack(q))
    PROVE  conflicts_with(r, q)
<1> DEFINE r4 == FallBack(r)
           q4 == FallBack(q)
<1>1. Within(r4, r) /\ Within(q4, q)
  BY FallBackWithin
<1>2. relay_overlap(r4, flows(q4)) => relay_overlap(r, flows(q))
  BY <1>1, OverlapGrows DEF Within
<1>3. relay_overlap(q4, flows(r4)) => relay_overlap(q, flows(r))
  BY <1>1, OverlapGrows DEF Within
<1>4. ASSUME NEW e, IsEntry(e)
      PROVE  /\ directions(FallBack(e)) = directions(e) /\ Discoveries(FallBack(e)) = Discoveries(e)
             /\ FallBack(e).macs = e.macs /\ FallBack(e).wol_ports = e.wol_ports
             /\ uses(FallBack(e).address_family) \subseteq uses(e.address_family)
  <2>1. CASE e.address_family # "default"
    BY <2>1 DEF FallBack
  <2>2. CASE e.address_family = "default"
    BY <1>4, <2>2, FallBackFields, AllParams DEF directions, Discoveries, uses
  <2> QED BY <2>1, <2>2
<1>5. shared_protocol(r4, q4) => shared_protocol(r, q)
  BY <1>4 DEF shared_protocol, families_overlap
<1> QED BY <1>2, <1>3, <1>5 DEF conflicts_with

\* An entry that try_from accepts stays acceptable with its ports filled in.
LEMMA ParsedAccepted ==
    ASSUME NEW raw, IsEntry(raw), ~Refused(raw)
    PROVE  Accepted(Reflector(raw))
<1> DEFINE r == Reflector(raw)
<1>1. CASE ~(raw.wol /\ raw.wol_ports = None)
  BY <1>1 DEF Reflector, Accepted
<1>2. CASE raw.wol /\ raw.wol_ports = None
  <2>1. /\ r.wol_ports = Some({"wake"}) /\ Some({"wake"}) # None
        /\ \A param \in Params \ {"wol_ports"} : r[param] = raw[param]
    BY <1>2 DEF Reflector, IsEntry, Some, None, Params, Default
  <2>2. Reflector(r) = r
    BY <2>1 DEF Reflector
  <2>3. ~BadEntry(raw) /\ ~relay_duplicates(r)
    BY DEF Refused
  <2> HIDE DEF r
  <2>4. /\ r.wol = raw.wol /\ r.source_peers = raw.source_peers /\ r.target_peers = raw.target_peers
        /\ r.address_family = raw.address_family /\ r.source_if = raw.source_if
        /\ r.target_if = raw.target_if /\ r.udp_ports = raw.udp_ports /\ r.udp_groups = raw.udp_groups
        /\ r.udp_broadcast = raw.udp_broadcast /\ r.mdns = raw.mdns /\ r.ssdp = raw.ssdp
        /\ r.wsd = raw.wsd /\ r.mdns_services = raw.mdns_services /\ r.macs = raw.macs /\ r.dial = raw.dial
    BY <2>1, AllParams
  <2>5. ~BadEntry(r)
    BY <1>2, <2>3, <2>4 DEF BadEntry, Peers, IsRelay, Discovers
  <2> QED BY <2>1, <2>2, <2>3, <2>5 DEF Refused, Accepted, r
<1> QED BY <1>1, <1>2

\* What is left of an accepted entry would be accepted, if there is something left.
LEMMA FallBackAccepted ==
    ASSUME NEW r, IsEntry(r), Accepted(r), ~NothingLeft(r), Grouped(r)
    PROVE  Accepted(FallBack(r))
<1> DEFINE s == FallBack(r)
<1>1. CASE r.address_family # "default"
  BY <1>1 DEF FallBack
<1>2. CASE r.address_family = "default"
  <2>1. /\ s.address_family = "ipv4" /\ s.udp_groups = ipv4_part(r.udp_groups) \ {{}}
        /\ s.source_peers = ipv4_part(r.source_peers) /\ s.target_peers = ipv4_part(r.target_peers)
        /\ s.source_if = r.source_if /\ s.target_if = r.target_if
        /\ s.mdns = r.mdns /\ s.ssdp = r.ssdp /\ s.wsd = r.wsd /\ s.wol_ports = r.wol_ports
        /\ s.udp_ports = r.udp_ports /\ s.udp_broadcast = r.udp_broadcast
        /\ s.wol = r.wol /\ s.mdns_services = r.mdns_services /\ s.macs = r.macs /\ s.dial = r.dial
    BY <1>2, FallBackFields, AllParams
  <2>2. Within(s, r)
    BY FallBackWithin
  <2> HIDE DEF s
  <2>3. uses(s.address_family) = {"v4"} /\ uses(r.address_family) = {"v4", "v6"}
    BY <1>2, <2>1 DEF uses
  <2>4. Reflector(s) = s /\ Reflector(r) = r
    BY <2>1 DEF Accepted, Reflector
  <2>5. ~BadEntry(r) /\ ~relay_duplicates(r)
    BY <2>4 DEF Accepted, Refused
  <2>6. ~relay_duplicates(s)
    <3>1. \A f \in {f \in flows(s) : f.protocol # "Udp"} : \E g \in {g \in flows(r) : g.protocol # "Udp"} : Like(f, g)
      BY <2>2 DEF Within, Like
    <3> QED BY <2>2, <2>5, <3>1, OverlapGrows DEF relay_duplicates
  <2>7. IsRelay(s) <=> IsRelay(r)
    BY <2>1, <2>5 DEF IsRelay, BadEntry, ipv4_part, None
  <2>8. Peers(s) \subseteq {"v4"}
    <3>1. Peers(r) \subseteq {"v4", "v6"}
      BY <2>3, <2>5 DEF BadEntry
    <3>2. \A peer \in Peers(s) : peer \in Peers(r) /\ peer \in V4 \union {"v4"}
      BY <2>1 DEF Peers, ipv4_part
    <3> QED BY <3>1, <3>2 DEF V4, V4Groups
  <2>9. IsRelay(s) => s.udp_groups # None \/ s.udp_broadcast
    <3> SUFFICES ASSUME IsRelay(s), ~s.udp_broadcast PROVE s.udp_groups # {}
      BY DEF None
    <3>1. PICK set : set \in r.udp_groups
      BY <2>1, <2>5, <2>7 DEF BadEntry, None
    <3>2. set \intersect (V4 \union {"v4"}) \in ipv4_part(r.udp_groups)
      BY <3>1 DEF ipv4_part
    <3>3. {} \notin ipv4_part(r.udp_groups)
      BY <1>2, <2>1 DEF NothingLeft
    <3> QED BY <2>1, <3>2, <3>3, ZenonT(30)
  <2>10. \A group \in UNION s.udp_groups : Version(group) = "v4"
    <3>1. \A group \in UNION s.udp_groups : group \in UNION r.udp_groups /\ group \in V4 \union {"v4"}
      BY <2>1 DEF ipv4_part
    <3>2. "v4" \notin V4Groups \union V6Groups
      BY DEF V4Groups, V6Groups
    <3> QED BY <3>1, <3>2 DEF Version, Grouped
  <2>11. ~BadEntry(s)
    BY <2>1, <2>3, <2>5, <2>7, <2>8, <2>9, <2>10 DEF BadEntry, Discovers
  <2> QED BY <2>1, <2>4, <2>6, <2>11 DEF Accepted, Refused, s
<1> QED BY <1>1, <1>2

(* ------------------------------ IPv4 packets ------------------------------- *)

\* The groups of the one that an IPv4 packet may be sent to are those of the other.
GroupsKept(r, s) ==
    \A set \in r.udp_groups : set \intersect V4 # {} => \E other \in s.udp_groups : set \intersect V4 = other \intersect V4

\* Two entries that IPv4 packets cannot tell apart.
SameV4(r, s) ==
    /\ r.source_if = s.source_if /\ r.target_if = s.target_if /\ r.macs = s.macs
    /\ r.wol_ports = s.wol_ports /\ r.mdns = s.mdns /\ r.mdns_services = s.mdns_services
    /\ r.ssdp = s.ssdp /\ r.dial = s.dial /\ r.wsd = s.wsd /\ r.bidirectional = s.bidirectional
    /\ r.udp_ports = s.udp_ports /\ r.udp_broadcast = s.udp_broadcast
    /\ "v4" \in uses(r.address_family) /\ "v4" \in uses(s.address_family)
    /\ Admits(r.source_peers, "v4") <=> Admits(s.source_peers, "v4")
    /\ Admits(r.target_peers, "v4") <=> Admits(s.target_peers, "v4")
    /\ GroupsKept(r, s) /\ GroupsKept(s, r)

\* Two filters that IPv4 packets cannot tell apart.
SameFilter(f, g) ==
    /\ f.broadcast = g.broadcast /\ f.src_port = g.src_port /\ f.dst_port = g.dst_port /\ f.src_mac = g.src_mac
    /\ \A dest \in V4 : Admits(f.dst_ip, dest) <=> Admits(g.dst_ip, dest)
    /\ "v4" \in f.dst_own <=> "v4" \in g.dst_own

\* Two legs that IPv4 packets cannot tell apart.
Alike(leg, other) ==
    /\ leg.protocol = other.protocol /\ leg.kind = other.kind /\ leg.egress = other.egress
    /\ leg.macs = other.macs /\ leg.unicast = other.unicast /\ leg.services = other.services
    /\ leg.dial = other.dial /\ leg.search = other.search
    /\ "v4" \in uses(leg.family) /\ "v4" \in uses(other.family)
    /\ Admits(leg.delivery, "v4") <=> Admits(other.delivery, "v4")
    /\ SameFilter(leg.filter, other.filter)

\* Legs that IPv4 packets cannot tell apart reflect the same ones.
LEMMA AlikeReflect ==
    ASSUME NEW leg, NEW other, Alike(leg, other), NEW p \in Reflected(leg, {"v4"}), Version(p.dest) = "v4"
    PROVE  p \in Reflected(other, {"v4"})
<1>1. p.dest \in V4
  BY DEF Version
<1>2. matches(other.filter, p, {"v4"})
  <2> DEFINE f == leg.filter
             g == other.filter
  <2>1. SameFilter(f, g) /\ matches(f, p, {"v4"})
    BY DEF Alike, Reflected
  <2> HIDE DEF f, g
  <2>2. matches(g, p, {"v4"})
    BY <1>1, <2>1 DEF SameFilter, matches
  <2> QED BY <2>2 DEF g
<1>3. classify(leg, p) = classify(other, p)
  BY DEF Alike, classify, WakeVerdict
<1>4. HasDestination(leg.delivery, p.dest) <=> HasDestination(other.delivery, p.dest)
  BY DEF Alike, HasDestination
<1>5. link_destination(leg, p.dest, {"v4"}) = link_destination(other, p.dest, {"v4"})
  BY DEF Alike, link_destination
<1>6. rewrite(leg, p, {"v4"}, {"v4"}) = rewrite(other, p, {"v4"}, {"v4"})
  BY DEF Alike, rewrite, ResponseGate
<1>7. \A rewritten : Checked(leg, rewritten) = Checked(other, rewritten)
  BY DEF Alike, Checked
<1>8. suppress(leg, p) = suppress(other, p) /\ leg.search = other.search
  BY DEF Alike, suppress
<1>9. on_packet(leg, p, {"v4"}, {"v4"}, TRUE) = on_packet(other, p, {"v4"}, {"v4"}, TRUE)
  BY <1>3, <1>4, <1>5, <1>6, <1>7, <1>8 DEF on_packet
<1> QED BY <1>2, <1>9 DEF Reflected

\* IPv4 packets cannot tell an entry from what is left of it.
LEMMA FallBackSame ==
    ASSUME NEW r, IsEntry(r), r.address_family = "default"
    PROVE  SameV4(r, FallBack(r))
<1> DEFINE s == FallBack(r)
<1>1. /\ s.address_family = "ipv4" /\ s.udp_groups = ipv4_part(r.udp_groups) \ {{}}
      /\ s.source_peers = ipv4_part(r.source_peers) /\ s.target_peers = ipv4_part(r.target_peers)
      /\ s.source_if = r.source_if /\ s.target_if = r.target_if /\ s.bidirectional = r.bidirectional
      /\ s.mdns = r.mdns /\ s.ssdp = r.ssdp /\ s.wsd = r.wsd /\ s.wol_ports = r.wol_ports
      /\ s.udp_ports = r.udp_ports /\ s.udp_broadcast = r.udp_broadcast
      /\ s.mdns_services = r.mdns_services /\ s.macs = r.macs /\ s.dial = r.dial
  BY FallBackFields, AllParams
<1> HIDE DEF s
<1>2. "v4" \in uses(s.address_family) /\ "v4" \in uses(r.address_family)
  BY <1>1 DEF uses
<1>3. \A option : Admits(option, "v4") <=> Admits(ipv4_part(option), "v4")
  BY ZenonT(30) DEF Admits, ipv4_part
<1>4. "v4" \notin V4
  BY DEF V4, V4Groups
<1>5. \A set : (set \intersect (V4 \union {"v4"})) \intersect V4 = set \intersect V4
  OBVIOUS
<1>6. GroupsKept(r, s)
  <2> SUFFICES ASSUME NEW set \in r.udp_groups, set \intersect V4 # {}
               PROVE \E other \in s.udp_groups : set \intersect V4 = other \intersect V4
    BY DEF GroupsKept
  <2> DEFINE other == set \intersect (V4 \union {"v4"})
  <2>1. other \in s.udp_groups
    BY <1>1 DEF ipv4_part
  <2> QED BY <1>5, <2>1
<1>7. GroupsKept(s, r)
  <2> SUFFICES ASSUME NEW set \in s.udp_groups
               PROVE \E other \in r.udp_groups : set \intersect V4 = other \intersect V4
    BY DEF GroupsKept
  <2> QED BY <1>1, <1>5 DEF ipv4_part
<1>8. SameV4(r, s)
  BY <1>1, <1>2, <1>3, <1>6, <1>7 DEF SameV4
<1> QED BY <1>8 DEF s

\* Being the same to IPv4 packets is symmetric.
LEMMA SameBack ==
    ASSUME NEW r, NEW s, SameV4(r, s)
    PROVE  SameV4(s, r)
BY DEF SameV4

\* It holds of the reversed entries too.
LEMMA SameReversed ==
    ASSUME NEW r, NEW s, IsEntry(r), IsEntry(s), SameV4(r, s)
    PROVE  SameV4(reversed(r), reversed(s))
<1>1. ASSUME NEW e, IsEntry(e)
      PROVE  /\ reversed(e).source_if = e.target_if /\ reversed(e).target_if = e.source_if
             /\ reversed(e).source_peers = e.target_peers /\ reversed(e).target_peers = e.source_peers
             /\ \A param \in Params \ {"source_if", "target_if", "source_peers", "target_peers"} : reversed(e)[param] = e[param]
  BY <1>1 DEF reversed, IsEntry, Params, Default
<1> DEFINE a == reversed(r)
           b == reversed(s)
<1>2. /\ a.source_if = r.target_if /\ a.target_if = r.source_if
      /\ a.source_peers = r.target_peers /\ a.target_peers = r.source_peers
      /\ a.macs = r.macs /\ a.wol_ports = r.wol_ports /\ a.mdns = r.mdns /\ a.mdns_services = r.mdns_services
      /\ a.ssdp = r.ssdp /\ a.dial = r.dial /\ a.wsd = r.wsd /\ a.bidirectional = r.bidirectional
      /\ a.udp_ports = r.udp_ports /\ a.udp_broadcast = r.udp_broadcast
      /\ a.address_family = r.address_family /\ a.udp_groups = r.udp_groups
  BY <1>1, AllParams
<1>3. /\ b.source_if = s.target_if /\ b.target_if = s.source_if
      /\ b.source_peers = s.target_peers /\ b.target_peers = s.source_peers
      /\ b.macs = s.macs /\ b.wol_ports = s.wol_ports /\ b.mdns = s.mdns /\ b.mdns_services = s.mdns_services
      /\ b.ssdp = s.ssdp /\ b.dial = s.dial /\ b.wsd = s.wsd /\ b.bidirectional = s.bidirectional
      /\ b.udp_ports = s.udp_ports /\ b.udp_broadcast = s.udp_broadcast
      /\ b.address_family = s.address_family /\ b.udp_groups = s.udp_groups
  BY <1>1, AllParams
<1> HIDE DEF a, b
<1>4. GroupsKept(a, b) /\ GroupsKept(b, a)
  BY <1>2, <1>3 DEF SameV4, GroupsKept
<1>5. SameV4(a, b)
  BY <1>2, <1>3, <1>4 DEF SameV4
<1> QED BY <1>5 DEF a, b

\* A filter is the same as itself.
LEMMA ItselfSame == \A f : SameFilter(f, f)
BY DEF SameFilter

\* The groups of a discovery have the same IPv4 destinations.
LEMMA GroupsSame ==
    ASSUME NEW r, NEW s, SameV4(r, s), NEW protocol, NEW dest \in V4
    PROVE  Admits(Some(group_addrs(protocol, r.address_family)), dest)
              <=> Admits(Some(group_addrs(protocol, s.address_family)), dest)
BY DEF SameV4, Admits, Some, group_addrs, Version

\* Each wake-up leg of the one entry has its like among those of the other.
LEMMA WolAlike ==
    ASSUME NEW r, NEW s, SameV4(r, s), NEW leg \in WolLegs(r)
    PROVE  \E other \in WolLegs(s) : Alike(leg, other)
<1>1. PICK ports \in r.wol_ports :
         leg = [Leg("Wol", "wake", Forth(r), FilterOn(ports), r.target_peers, r) EXCEPT !.unicast = "Broadcast"]
  BY DEF WolLegs
<1> DEFINE f == FilterOn(ports)
           other == [Leg("Wol", "wake", Forth(s), f, s.target_peers, s) EXCEPT !.unicast = "Broadcast"]
<1>2. ports \in s.wol_ports
  BY <1>1 DEF SameV4
<1>3. other \in WolLegs(s)
  BY <1>2 DEF WolLegs
<1>4. SameFilter(f, f)
  BY ItselfSame
<1> HIDE DEF f
<1>5. leg = [Leg("Wol", "wake", Forth(r), f, r.target_peers, r) EXCEPT !.unicast = "Broadcast"]
  BY <1>1 DEF f
<1>6. Alike(leg, other)
  BY <1>4, <1>5 DEF SameV4, Alike, Leg, Forth
<1> QED BY <1>3, <1>6

\* So has each relay leg that reflects an IPv4 packet at all: a list of IPv6 groups has no leg left.
LEMMA UdpAlike ==
    ASSUME NEW r, NEW s, SameV4(r, s), NEW leg \in UdpLegs(r),
           NEW p \in Reflected(leg, {"v4"}), Version(p.dest) = "v4"
    PROVE  \E other \in UdpLegs(s) : Alike(leg, other)
<1> DEFINE on == FilterOn(UNION r.udp_ports)
           Filters(e) == {[on EXCEPT !.dst_ip = Some(groups)] : groups \in e.udp_groups}
                            \union (IF e.udp_broadcast THEN {[on EXCEPT !.broadcast = TRUE]} ELSE {})
           Made(e, filter) == [Leg("Udp", "datagram", Forth(e), filter, e.target_peers, e) EXCEPT !.unicast = "Broadcast"]
<1>1. UdpLegs(r) = {Made(r, f) : f \in Filters(r)} /\ UdpLegs(s) = {Made(s, f) : f \in Filters(s)}
  BY DEF UdpLegs, SameV4
<1>2. PICK f \in Filters(r) : leg = Made(r, f)
  BY <1>1
<1>3. ASSUME NEW g, SameFilter(f, g) PROVE Alike(leg, Made(s, g))
  BY <1>2, <1>3 DEF SameV4, Alike, Leg, Forth
<1>4. leg.filter = f
  BY <1>2 DEF Leg
<1>5. p.dest \in V4 /\ matches(f, p, {"v4"})
  BY <1>4 DEF Version, Reflected
<1>6. \E g \in Filters(s) : SameFilter(f, g)
  <2>1. CASE r.udp_broadcast /\ f = [on EXCEPT !.broadcast = TRUE]
    BY <2>1, ItselfSame DEF SameV4
  <2>2. CASE \E groups \in r.udp_groups : f = [on EXCEPT !.dst_ip = Some(groups)]
    <3>1. PICK groups \in r.udp_groups : f = [on EXCEPT !.dst_ip = Some(groups)]
      BY <2>2
    <3>2. f.dst_ip = Some(groups) /\ f.dst_own = {}
      BY <3>1 DEF FilterOn
    <3>3. p.dest \in groups \intersect V4
      BY <1>5, <3>2 DEF matches, Admits, Some
    <3>4. PICK others \in s.udp_groups : groups \intersect V4 = others \intersect V4
      BY <3>1, <3>3 DEF SameV4, GroupsKept
    <3> DEFINE g == [on EXCEPT !.dst_ip = Some(others)]
    <3>5. /\ g.broadcast = f.broadcast /\ g.src_port = f.src_port /\ g.dst_port = f.dst_port
          /\ g.src_mac = f.src_mac /\ g.dst_ip = Some(others) /\ g.dst_own = f.dst_own
      BY <3>1 DEF FilterOn
    <3>6. g \in Filters(s)
      BY <3>4
    <3> HIDE DEF g
    <3>7. SameFilter(f, g)
      BY <3>2, <3>4, <3>5 DEF SameFilter, Admits, Some
    <3> QED BY <3>6, <3>7
  <2> QED BY <1>2, <2>1, <2>2
<1>7. PICK g \in Filters(s) : SameFilter(f, g)
  BY <1>6
<1>8. Made(s, g) \in UdpLegs(s)
  BY <1>1, <1>7, ZenonT(30)
<1>9. Alike(leg, Made(s, g))
  BY <1>3, <1>7
<1> QED BY <1>8, <1>9

\* So has each mDNS leg.
LEMMA MdnsAlike ==
    ASSUME NEW r, NEW s, SameV4(r, s), NEW leg \in MdnsLegs(r)
    PROVE  \E other \in MdnsLegs(s) : Alike(leg, other)
<1> DEFINE to(e) == [FilterOn({MDNS_PORT}) EXCEPT !.dst_ip = Some(group_addrs("Mdns", e.address_family))]
           answers(e) == [to(e) EXCEPT !.src_port = Some(MDNS_PORT), !.src_mac = e.macs,
                                       !.dst_own = uses(e.address_family)]
           Query(e, f) == [Leg("Mdns", "mdns_query", Forth(e), f, e.target_peers, e)
                             EXCEPT !.services = e.mdns_services]
           Response(e, f) == [Leg("Mdns", "mdns_response", Back(e), f, e.source_peers, e)
                                EXCEPT !.services = e.mdns_services, !.unicast = "Group"]
<1>1. ASSUME NEW e PROVE MdnsLegs(e) = {Query(e, to(e)), Response(e, answers(e))}
  BY DEF MdnsLegs
<1>2. SameFilter(to(r), to(s))
  <2> DEFINE f == to(r)
             g == to(s)
  <2>1. /\ f.broadcast = g.broadcast /\ f.src_port = g.src_port /\ f.dst_port = g.dst_port /\ f.src_mac = g.src_mac
        /\ f.dst_ip = Some(group_addrs("Mdns", r.address_family)) /\ g.dst_ip = Some(group_addrs("Mdns", s.address_family))
        /\ f.dst_own = g.dst_own
    BY DEF FilterOn
  <2> HIDE DEF f, g
  <2>2. SameFilter(f, g)
    BY <2>1, GroupsSame DEF SameFilter
  <2> QED BY <2>2 DEF f, g
<1>3. SameFilter(answers(r), answers(s))
  <2> DEFINE f == answers(r)
             g == answers(s)
  <2>1. /\ f.broadcast = FALSE /\ f.src_port = Some(MDNS_PORT) /\ f.dst_port = {MDNS_PORT} /\ f.src_mac = r.macs
        /\ f.dst_ip = Some(group_addrs("Mdns", r.address_family)) /\ f.dst_own = uses(r.address_family)
    BY DEF FilterOn
  <2>2. /\ g.broadcast = FALSE /\ g.src_port = Some(MDNS_PORT) /\ g.dst_port = {MDNS_PORT} /\ g.src_mac = s.macs
        /\ g.dst_ip = Some(group_addrs("Mdns", s.address_family)) /\ g.dst_own = uses(s.address_family)
    BY DEF FilterOn
  <2> HIDE DEF f, g
  <2>3. \A dest \in V4 : Admits(f.dst_ip, dest) <=> Admits(g.dst_ip, dest)
    BY <2>1, <2>2, GroupsSame
  <2>4. r.macs = s.macs /\ "v4" \in uses(r.address_family) /\ "v4" \in uses(s.address_family)
    BY DEF SameV4
  <2>5. SameFilter(f, g)
    BY <2>1, <2>2, <2>3, <2>4 DEF SameFilter
  <2> QED BY <2>5 DEF f, g
<1>4. ASSUME NEW f, NEW g, SameFilter(f, g)
      PROVE  Alike(Query(r, f), Query(s, g)) /\ Alike(Response(r, f), Response(s, g))
  BY <1>4 DEF SameV4, Alike, Leg, Forth, Back
<1> HIDE DEF to, answers, Query, Response
<1>5. CASE leg = Query(r, to(r))
  BY <1>1, <1>2, <1>4, <1>5, Zenon
<1>6. CASE leg = Response(r, answers(r))
  BY <1>1, <1>3, <1>4, <1>6, Zenon
<1> QED BY <1>1, <1>5, <1>6

\* So has each leg of SSDP and WS-Discovery.
LEMMA SearchAlike ==
    ASSUME NEW r, NEW s, SameV4(r, s), NEW protocol, NEW announcement, NEW search,
           NEW leg \in SearchLegs(protocol, announcement, search, r)
    PROVE  \E other \in SearchLegs(protocol, announcement, search, s) : Alike(leg, other)
<1> DEFINE to(e) == [FilterOn({PortOf(protocol)}) EXCEPT !.dst_ip = Some(group_addrs(protocol, e.address_family))]
           marked(e) == [to(e) EXCEPT !.src_mac = e.macs]
           Announce(e, f) == [Leg(protocol, announcement, Back(e), f, e.source_peers, e)
                                EXCEPT !.dial = protocol = "Ssdp" /\ e.dial]
           Ask(e, f) == [Leg(protocol, search, Forth(e), f, e.target_peers, e) EXCEPT !.search = TRUE]
<1>1. ASSUME NEW e PROVE SearchLegs(protocol, announcement, search, e) = {Announce(e, marked(e)), Ask(e, to(e))}
  BY DEF SearchLegs
<1>2. SameFilter(to(r), to(s))
  <2> DEFINE f == to(r)
             g == to(s)
  <2>1. /\ f.broadcast = g.broadcast /\ f.src_port = g.src_port /\ f.dst_port = g.dst_port /\ f.src_mac = g.src_mac
        /\ f.dst_ip = Some(group_addrs(protocol, r.address_family)) /\ g.dst_ip = Some(group_addrs(protocol, s.address_family))
        /\ f.dst_own = g.dst_own
    BY DEF FilterOn
  <2> HIDE DEF f, g
  <2>2. SameFilter(f, g)
    BY <2>1, GroupsSame DEF SameFilter
  <2> QED BY <2>2 DEF f, g
<1>3. SameFilter(marked(r), marked(s))
  <2> DEFINE f == marked(r)
             g == marked(s)
  <2>1. /\ f.broadcast = FALSE /\ f.src_port = None /\ f.dst_port = {PortOf(protocol)} /\ f.src_mac = r.macs
        /\ f.dst_ip = Some(group_addrs(protocol, r.address_family)) /\ f.dst_own = {}
    BY DEF FilterOn
  <2>2. /\ g.broadcast = FALSE /\ g.src_port = None /\ g.dst_port = {PortOf(protocol)} /\ g.src_mac = s.macs
        /\ g.dst_ip = Some(group_addrs(protocol, s.address_family)) /\ g.dst_own = {}
    BY DEF FilterOn
  <2> HIDE DEF f, g
  <2>3. \A dest \in V4 : Admits(f.dst_ip, dest) <=> Admits(g.dst_ip, dest)
    BY <2>1, <2>2, GroupsSame
  <2>4. r.macs = s.macs /\ "v4" \in uses(r.address_family) /\ "v4" \in uses(s.address_family)
    BY DEF SameV4
  <2>5. SameFilter(f, g)
    BY <2>1, <2>2, <2>3, <2>4 DEF SameFilter
  <2> QED BY <2>5 DEF f, g
<1>4. ASSUME NEW f, NEW g, SameFilter(f, g)
      PROVE  Alike(Announce(r, f), Announce(s, g)) /\ Alike(Ask(r, f), Ask(s, g))
  BY <1>4 DEF SameV4, Alike, Leg, Forth, Back
<1> HIDE DEF to, marked, Announce, Ask
<1>5. CASE leg = Announce(r, marked(r))
  BY <1>1, <1>3, <1>4, <1>5, Zenon
<1>6. CASE leg = Ask(r, to(r))
  BY <1>1, <1>2, <1>4, <1>6, Zenon
<1> QED BY <1>1, <1>5, <1>6

\* So has each leg, one way.
LEMMA OneWayAlike ==
    ASSUME NEW r, NEW s, SameV4(r, s), NEW leg \in OneWay(r),
           NEW p \in Reflected(leg, {"v4"}), Version(p.dest) = "v4"
    PROVE  \E other \in OneWay(s) : Alike(leg, other)
<1>1. CASE leg \in WolLegs(r)
  BY <1>1, WolAlike DEF OneWay
<1>2. CASE leg \in UdpLegs(r)
  BY <1>2, UdpAlike DEF OneWay
<1>3. CASE r.mdns /\ leg \in MdnsLegs(r)
  BY <1>3, MdnsAlike DEF OneWay, SameV4
<1>4. CASE r.ssdp /\ leg \in SearchLegs("Ssdp", "ssdp_advertisement", "ssdp_search", r)
  BY <1>4, SearchAlike DEF OneWay, SameV4
<1>5. CASE r.wsd /\ leg \in SearchLegs("Wsd", "wsd_announcement", "wsd_search", r)
  BY <1>5, SearchAlike DEF OneWay, SameV4
<1> QED BY <1>1, <1>2, <1>3, <1>4, <1>5 DEF OneWay

\* An IPv4 packet that the one entry reflects is reflected by the other, both ways.
LEMMA ReflectedKept ==
    ASSUME NEW r, NEW s, IsEntry(r), IsEntry(s), SameV4(r, s)
    PROVE  V4Reflected(r) \subseteq V4Reflected(s)
<1> SUFFICES ASSUME NEW leg \in LegsOf(r), NEW p \in Reflected(leg, {"v4"}), Version(p.dest) = "v4"
             PROVE  <<leg.egress, p>> \in V4Reflected(s)
  BY DEF V4Reflected
<1>1. \E other \in LegsOf(s) : Alike(leg, other)
  <2>1. CASE leg \in OneWay(r)
    BY <2>1, OneWayAlike DEF LegsOf
  <2>2. CASE r.bidirectional /\ leg \in OneWay(reversed(r))
    BY <2>2, OneWayAlike, SameReversed DEF LegsOf, SameV4
  <2> QED BY <2>1, <2>2 DEF LegsOf
<1>2. PICK other \in LegsOf(s) : Alike(leg, other)
  BY <1>1
<1>3. p \in Reflected(other, {"v4"}) /\ leg.egress = other.egress
  BY <1>2, AlikeReflect DEF Alike
<1> QED BY <1>2, <1>3 DEF V4Reflected

\* An entry that falls back reflects the IPv4 packets it did.
LEMMA FallBackReflects ==
    ASSUME NEW r, IsEntry(r)
    PROVE  V4Reflected(FallBack(r)) = V4Reflected(r)
<1>1. CASE r.address_family # "default"
  BY <1>1 DEF FallBack
<1>2. CASE r.address_family = "default"
  <2>1. SameV4(r, FallBack(r)) /\ SameV4(FallBack(r), r) /\ IsEntry(FallBack(r))
    BY <1>2, FallBackSame, SameBack, FallBackFields
  <2> QED BY <2>1, ReflectedKept
<1> QED BY <1>1, <1>2

(* ---------------------------------- steps ---------------------------------- *)

\* Initially nothing was read and nothing dropped.
LEMMA StartupInitIInv == StartupInit => StartupIInv
BY DEF StartupInit, StartupIInv, PrivilegeInit, Reading, Dropping

\* A variable is stored, or startup ends.
LEMMA ReadIInv == ASSUME NEW v \in unread, StartupIInv, ReadVariable(v) PROVE StartupIInv'
<1>1. /\ stage = "env" /\ unread' = unread \ {v} /\ put(v) /\ drop = "none"
      /\ UNCHANGED <<wanted, env, reflectors, host, user, legs, privilegeVars>>
  BY DEF ReadVariable, StartupIInv
<1>2. stage' = "env" => Reading'
  BY <1>1 DEF put, StartupIInv, Reading
<1>3. Dropping' /\ drop' = "none"
  BY <1>1 DEF Dropping, privilegeVars
<1> QED BY <1>1, <1>2, <1>3 DEF put, StartupIInv, IsEntry

\* A program that stops where it is has dropped nothing, if it had not begun to.
LEMMA StopIInv ==
    ASSUME NEW where, where \notin {"env", "loaded", "fitted", "resolved", "built", "running"}, drop = "none", StartupIInv, Stop(where)
    PROVE  StartupIInv'
BY DEF Stop, StartupIInv, Dropping, IsEntry, privilegeVars

\* What is loaded are entries, and they passed the rules.
LEMMA LoadIInv ==
    ASSUME NEW fromFile \in {<<>>} \union {<<raw>> : raw \in FileEntries}, NEW sameKey, NEW envUser, NEW fileUser,
           StartupIInv, LoadConfig(fromFile, sameKey, envUser, fileUser)
    PROVE  StartupIInv'
<1> DEFINE raws == <<into_raw>> \o fromFile
           parsed == [i \in DOMAIN raws |-> Reflector(raws[i])]
<1>1. stage = "env" /\ drop = "none"
  BY DEF LoadConfig, StartupIInv
<1>2. CASE \E where \in {"env refused", "duplicate", "entry refused"} : Stop(where)
  BY <1>1, <1>2, StopIInv
<1>3. CASE /\ reflectors' = parsed
           /\ stage' \in {"conflict", "loaded"}
           /\ \A i \in DOMAIN raws : ~Refused(raws[i])
           /\ stage' = "loaded" => \A i, j \in DOMAIN parsed : i < j => ~conflicts_with(parsed[i], parsed[j])
           /\ UNCHANGED <<wanted, env, unread, slots, host, legs, privilegeVars>>
  <2>1. IsEntry(into_raw) /\ Grouped(into_raw)
    <3>1. into_raw.udp_groups \in {wanted.udp_groups, {}}
      BY DEF into_raw, Other, Default, Params, None
    <3> QED BY <3>1, EntriesAssumption DEF StartupIInv, Grouped, IsEntry, into_raw
  <2>2. \A i \in DOMAIN raws : IsEntry(raws[i]) /\ Grouped(raws[i])
    <3>1. CASE fromFile = <<>>
      BY <2>1, <3>1
    <3>2. CASE fromFile # <<>>
      <4>1. PICK raw \in FileEntries : fromFile = <<raw>>
        BY <3>2
      <4>2. IsEntry(raw) /\ Grouped(raw)
        BY EntriesAssumption DEF IsEntry, Grouped
      <4> QED BY <2>1, <4>1, <4>2
    <3> QED BY <3>1, <3>2
  <2>3. ASSUME NEW r, IsEntry(r) PROVE IsEntry(Reflector(r)) /\ (Grouped(r) => Grouped(Reflector(r)))
    BY <2>3 DEF Reflector, IsEntry, Grouped
  <2>4. DOMAIN parsed = DOMAIN raws /\ \A i \in DOMAIN raws : parsed[i] = Reflector(raws[i])
    OBVIOUS
  <2> HIDE DEF raws, parsed
  <2>5. \A i \in DOMAIN parsed : IsEntry(parsed[i])
    BY <2>2, <2>3, <2>4
  <2>6. \A i \in DOMAIN parsed : Accepted(parsed[i]) /\ Grouped(parsed[i])
    BY <1>3, <2>2, <2>3, <2>4, ParsedAccepted
  <2>7. stage' = "loaded" => Fit(reflectors')
    BY <1>3, <2>6 DEF Fit
  <2> QED BY <1>1, <1>3, <2>5, <2>7 DEF StartupIInv, Dropping, IsEntry, privilegeVars
<1> QED BY <1>2, <1>3 DEF LoadConfig

\* An entry that falls back is an entry, and one the rules accept.
LEMMA FitIInv == ASSUME NEW onHost, StartupIInv, fit_to_host(onHost) PROVE StartupIInv'
<1>1. \A r : IsEntry(r) => IsEntry(FallBack(r))
  BY DEF FallBack, IsEntry
<1>2. /\ stage = "loaded" /\ drop = "none" /\ stage' \in {"fitted", "unfit"}
      /\ reflectors' \in {reflectors, [i \in DOMAIN reflectors |-> FallBack(reflectors[i])]}
      /\ stage' = "fitted" =>
            \/ reflectors' = reflectors
            \/ /\ \A i \in DOMAIN reflectors : ~NothingLeft(reflectors[i])
               /\ reflectors' = [i \in DOMAIN reflectors |-> FallBack(reflectors[i])]
      /\ UNCHANGED <<wanted, env, unread, slots, user, legs, privilegeVars>>
  BY DEF fit_to_host, StartupIInv
<1>3. \A i \in DOMAIN reflectors' : IsEntry(reflectors'[i])
  BY <1>1, <1>2 DEF StartupIInv
<1>4. ASSUME \A i \in DOMAIN reflectors : ~NothingLeft(reflectors[i]),
             reflectors' = [i \in DOMAIN reflectors |-> FallBack(reflectors[i])]
      PROVE  Fit(reflectors')
  <2>1. Fit(reflectors) /\ \A i \in DOMAIN reflectors : IsEntry(reflectors[i])
    BY <1>2 DEF StartupIInv
  <2>2. ASSUME NEW r, Grouped(r), IsEntry(r) PROVE Grouped(FallBack(r))
    <3>1. CASE r.address_family # "default"
      BY <2>2, <3>1 DEF FallBack
    <3>2. CASE r.address_family = "default"
      <4>1. FallBack(r).udp_groups = ipv4_part(r.udp_groups) \ {{}}
        BY <2>2, <3>2, FallBackFields
      <4> QED BY <2>2, <4>1 DEF Grouped, ipv4_part
    <3> QED BY <3>1, <3>2
  <2>3. \A i \in DOMAIN reflectors' : Accepted(reflectors'[i]) /\ Grouped(reflectors'[i])
    BY <1>4, <2>1, <2>2, FallBackAccepted DEF Fit
  <2>4. \A i, j \in DOMAIN reflectors' : i < j => ~conflicts_with(reflectors'[i], reflectors'[j])
    BY <1>4, <2>1, FallBackConflicts DEF Fit
  <2> QED BY <2>3, <2>4 DEF Fit
<1>5. stage' = "fitted" => Fit(reflectors')
  BY <1>2, <1>4 DEF StartupIInv
<1> QED BY <1>2, <1>3, <1>5 DEF StartupIInv, Dropping, IsEntry, privilegeVars

\* With a "user" setting there is an account, or startup ends.
LEMMA ResolveIInv == ASSUME NEW readable, StartupIInv, ResolveUser(readable) PROVE StartupIInv'
<1>1. stage = "fitted" /\ drop = "none"
  BY DEF ResolveUser, StartupIInv
<1> QED BY <1>1 DEF ResolveUser, StartupIInv, Dropping, IsEntry

\* A leg of the entry goes this way, with this filter on MACs.
Bound(leg, ingress, egress, macs, r) ==
    /\ leg.ingress = ingress /\ leg.egress = egress /\ leg.filter.src_mac = macs
    /\ leg.family = r.address_family

\* A filter looks at MACs only where it is told to.
LEMMA FilterMacs ==
    \A ports, x, y, z, macs :
        LET to == [FilterOn(ports) EXCEPT !.dst_ip = x]
        IN  /\ FilterOn(ports).src_mac = None /\ to.src_mac = None
            /\ [FilterOn(ports) EXCEPT !.broadcast = x].src_mac = None
            /\ [to EXCEPT !.src_mac = macs].src_mac = macs
            /\ [to EXCEPT !.src_port = y, !.src_mac = macs, !.dst_own = z].src_mac = macs
BY DEF FilterOn

\* Wake-ups and relayed datagrams go to the target (wol::build, udp::build).
LEMMA ForthBound ==
    ASSUME NEW r
    PROVE  \A leg \in WolLegs(r) \union UdpLegs(r) : Bound(leg, r.source_if, r.target_if, None, r)
<1>1. ASSUME NEW leg \in WolLegs(r) PROVE Bound(leg, r.source_if, r.target_if, None, r)
  <2>1. \E ports : leg.filter = FilterOn(ports)
    BY <1>1, ZenonT(30) DEF WolLegs, Leg
  <2>2. leg.ingress = r.source_if /\ leg.egress = r.target_if /\ leg.family = r.address_family
    BY <1>1 DEF WolLegs, Leg, Forth
  <2> QED BY <2>1, <2>2, FilterMacs DEF Bound
<1>2. ASSUME NEW leg \in UdpLegs(r) PROVE Bound(leg, r.source_if, r.target_if, None, r)
  <2> DEFINE on == FilterOn(UNION r.udp_ports)
             filters == {[on EXCEPT !.dst_ip = Some(groups)] : groups \in r.udp_groups}
                           \union (IF r.udp_broadcast THEN {[on EXCEPT !.broadcast = TRUE]} ELSE {})
  <2>1. UdpLegs(r) = {[Leg("Udp", "datagram", Forth(r), filter, r.target_peers, r)
                         EXCEPT !.unicast = "Broadcast"] : filter \in filters}
    BY DEF UdpLegs
  <2>2. \A filter \in filters : filter.src_mac = None
    <3>1. \A x : [on EXCEPT !.dst_ip = x].src_mac = None /\ [on EXCEPT !.broadcast = x].src_mac = None
      BY FilterMacs
    <3> HIDE DEF on
    <3> QED BY <3>1
  <2> HIDE DEF filters
  <2>3. leg.filter \in filters
    BY <1>2, <2>1 DEF Leg
  <2>4. leg.ingress = r.source_if /\ leg.egress = r.target_if /\ leg.family = r.address_family
    BY <1>2, <2>1 DEF Leg, Forth
  <2> QED BY <2>2, <2>3, <2>4 DEF Bound
<1> QED BY <1>1, <1>2

\* A discovery goes both ways, its answers by the device filter (mdns::build, build_pair).
LEMMA BothBound ==
    ASSUME NEW r, NEW protocol \in {"Ssdp", "Wsd"}, NEW announcement, NEW search,
           NEW leg \in MdnsLegs(r) \union SearchLegs(protocol, announcement, search, r)
    PROVE  \/ Bound(leg, r.source_if, r.target_if, None, r)
           \/ Bound(leg, r.target_if, r.source_if, r.macs, r)
<1>1. CASE leg \in MdnsLegs(r)
  <2> DEFINE to == [FilterOn({MDNS_PORT}) EXCEPT !.dst_ip = Some(group_addrs("Mdns", r.address_family))]
             answers == [to EXCEPT !.src_port = Some(MDNS_PORT), !.src_mac = r.macs,
                                   !.dst_own = uses(r.address_family)]
  <2>1. to.src_mac = None /\ answers.src_mac = r.macs
    BY FilterMacs
  <2>2. leg \in {[Leg("Mdns", "mdns_query", Forth(r), to, r.target_peers, r)
                    EXCEPT !.services = r.mdns_services],
                 [Leg("Mdns", "mdns_response", Back(r), answers, r.source_peers, r)
                    EXCEPT !.services = r.mdns_services, !.unicast = "Group"]}
    BY <1>1 DEF MdnsLegs
  <2> HIDE DEF to, answers
  <2> QED BY <2>1, <2>2, ZenonT(30) DEF Leg, Forth, Back, Bound
<1>2. CASE leg \in SearchLegs(protocol, announcement, search, r)
  <2> DEFINE to == [FilterOn({PortOf(protocol)})
                      EXCEPT !.dst_ip = Some(group_addrs(protocol, r.address_family))]
             marked == [to EXCEPT !.src_mac = r.macs]
  <2>1. to.src_mac = None /\ marked.src_mac = r.macs
    BY FilterMacs
  <2>2. leg \in {[Leg(protocol, announcement, Back(r), marked, r.source_peers, r)
                    EXCEPT !.dial = protocol = "Ssdp" /\ r.dial],
                 [Leg(protocol, search, Forth(r), to, r.target_peers, r) EXCEPT !.search = TRUE]}
    BY <1>2 DEF SearchLegs
  <2> HIDE DEF to, marked
  <2> QED BY <2>1, <2>2 DEF Leg, Forth, Back, Bound
<1> QED BY <1>1, <1>2

\* The legs of an entry that can be built are served, one way (require_egress_family,
\* require_both_sides_family, require_macs_matchable).
LEMMA OneWayServed ==
    ASSUME NEW r, ~BuildFails(r, host)
    PROVE  \A leg \in OneWay(r) : Served(leg)
<1>1. /\ requires(r.address_family) \subseteq host.addrs[r.target_if]
      /\ Discoveries(r) # {} => /\ requires(r.address_family) \subseteq host.addrs[r.source_if]
                                /\ r.macs # None => host.ethernet[r.target_if]
  BY DEF BuildFails
<1>2. (r.mdns \/ r.ssdp \/ r.wsd) => Discoveries(r) # {}
  BY DEF Discoveries
<1>3. SUFFICES ASSUME NEW leg \in OneWay(r) PROVE Served(leg)
  OBVIOUS
<1>4. CASE leg \in WolLegs(r) \union UdpLegs(r)
  BY <1>1, <1>4, ForthBound DEF Bound, Served
<1>5. CASE leg \notin WolLegs(r) \union UdpLegs(r)
  <2>1. /\ Discoveries(r) # {}
        /\ \/ Bound(leg, r.source_if, r.target_if, None, r)
           \/ Bound(leg, r.target_if, r.source_if, r.macs, r)
    BY <1>2, <1>5, BothBound DEF OneWay
  <2> QED BY <1>1, <2>1 DEF Bound, Served
<1> QED BY <1>4, <1>5

\* The legs are built only when each of them is served.
LEMMA BuildIInv == ASSUME NEW joined, StartupIInv, Build(joined) PROVE StartupIInv'
<1>1. /\ stage = "resolved" /\ drop = "none" /\ stage' \in {"not built", "built"}
      /\ UNCHANGED <<wanted, env, unread, slots, reflectors, host, user, privilegeVars>>
  BY DEF Build, StartupIInv
<1>2. ASSUME stage' = "built", NEW leg \in legs' PROVE Served(leg)'
  <2>1. PICK i \in DOMAIN reflectors : leg \in LegsOf(reflectors[i])
    BY <1>1, <1>2 DEF Build
  <2>2. /\ ~BuildFails(reflectors[i], host)
        /\ reflectors[i].bidirectional => ~BuildFails(reversed(reflectors[i]), host)
    BY <1>1, <1>2 DEF Build
  <2>3. Served(leg)
    BY <2>1, <2>2, OneWayServed DEF LegsOf
  <2> QED BY <1>1, <2>3 DEF Served
<1>3. Dropping' /\ drop' = "none"
  BY <1>1 DEF Dropping, privilegeVars
<1> QED BY <1>1, <1>2, <1>3 DEF StartupIInv, IsEntry, privilegeVars

\* The program runs once it has dropped its privileges, if it has an account to.
LEMMA RunIInv == ASSUME StartupIInv, Run PROVE StartupIInv'
<1>1. /\ stage = "built" /\ stage' = "running" /\ (credentials # {} => drop = "done")
      /\ UNCHANGED <<wanted, env, unread, slots, reflectors, host, user, legs, credentials, process, drop>>
  BY DEF Run, Stop, privilegeVars
<1>2. Dropping'
  BY <1>1 DEF StartupIInv, Dropping, IsProcess, MayPin, GroupsLeft, CapsSettled, Switched, Dials
<1> QED BY <1>1, <1>2 DEF StartupIInv, IsEntry, Served

(* -------------------------------- privileges ------------------------------- *)

\* A process that is started has all of its fields.
LEMMA StartedProcess == \A p \in Processes : IsProcess(p)
BY PrivilegesAssumption DEF IsProcess

\* drop_to starts with what the process was started with.
LEMMA StartDropping ==
    ASSUME NEW p \in Processes, Dials' = Dials, StartDrop(p)
    PROVE  Dropping'
<1>1. /\ IsProcess(p) /\ p.started_with = p.permitted /\ (p.was_root <=> p.uid.effective = 0)
      /\ p.platform \in {"linux", "freebsd", "macos"}
  BY StartedProcess, PrivilegesAssumption
<1>2. process' = p /\ drop' \in {"narrow", "switch", "settle", "forbid", "failed"}
  BY DEF StartDrop, Goes, AfterSwitch
<1>3. /\ drop' = "narrow" => IsLinux(p)
      /\ drop' = "switch" => ~IsLinux(p)
      /\ drop' = "settle" => IsLinux(p) /\ ~p.was_root
      /\ drop' = "forbid" => ~IsLinux(p) /\ ~p.was_root
  BY <1>1 DEF StartDrop, Goes, AfterSwitch
<1> QED BY <1>1, <1>2, <1>3 DEF Dropping, MayPin, GroupsLeft, CapsSettled, IsLinux, IsProcess

\* A step that fails leaves nothing to say.
LEMMA FailsDropping == Fails => Dropping'
BY DEF Fails, Dropping

\* What is kept for DIAL is kept through the narrowing, which a sandbox may ignore.
LEMMA NarrowDropping ==
    ASSUME NEW ok, Dropping, Dials' = Dials, narrow_for_switch(Dials, ok)
    PROVE  Dropping'
<1> DEFINE wanting == {CAP_SETUID, CAP_SETGID} \union (IF Dials THEN {CAP_NET_RAW} ELSE {})
           kept == wanting \intersect process.permitted
           narrowed == Capset(process, kept, kept)
<1>1. Fails \/ (process' = [narrowed EXCEPT !.keep_caps = TRUE] /\ drop' = "switch")
  BY DEF narrow_for_switch, Goes
<1>2. IsProcess(process) /\ IsLinux(process) /\ MayPin(process)
  BY DEF narrow_for_switch, Dropping
<1>3. /\ narrowed = [process EXCEPT !.effective = narrowed.effective, !.permitted = narrowed.permitted,
                                     !.inheritable = narrowed.inheritable]
      /\ narrowed.permitted \in {kept, process.permitted}
  BY <1>2 DEF Capset, IsProcess
<1> HIDE DEF kept, narrowed
<1>4. ASSUME process' = [narrowed EXCEPT !.keep_caps = TRUE], drop' = "switch" PROVE Dropping'
  <2>1. /\ IsProcess(process') /\ process'.platform = process.platform
        /\ process'.keep_caps = TRUE /\ process'.permitted = narrowed.permitted
        /\ process'.started_with = process.started_with
    BY <1>2, <1>3, <1>4, ZenonT(30) DEF IsProcess
  <2>2. Dials => (CAP_NET_RAW \in process.permitted => CAP_NET_RAW \in process'.permitted)
    BY <1>3, <2>1 DEF kept
  <2> QED BY <1>2, <1>4, <2>1, <2>2 DEF Dropping, MayPin, IsLinux
<1> QED BY <1>1, <1>4, FailsDropping

\* The switch leaves the account's group alone, and the capabilities to settle.
LEMMA SwitchDropping ==
    ASSUME NEW ok, Dropping, Dials' = Dials, switch_to(ok)
    PROVE  Dropping'
<1>1. /\ IsProcess(process) /\ MayPin(process) /\ drop = "switch"
      /\ IsLinux(process) => process.keep_caps
  BY DEF switch_to, Dropping
<1>2. ASSUME NEW account \in credentials,
             Goes(Setuid([process EXCEPT !.groups = {account.gid}, !.gid = Ids(account.gid)],
                         account.uid), AfterSwitch(process))
      PROVE  Dropping'
  <2> DEFINE grouped == [process EXCEPT !.groups = {account.gid}, !.gid = Ids(account.gid)]
  <2>1. /\ IsProcess(grouped) /\ grouped.groups = {account.gid} /\ grouped.gid = Ids(account.gid)
        /\ grouped.platform = process.platform /\ grouped.keep_caps = process.keep_caps
        /\ grouped.permitted = process.permitted /\ grouped.started_with = process.started_with
    BY <1>1 DEF IsProcess
  <2>2. process' = Setuid(grouped, account.uid) /\ drop' = AfterSwitch(process)
    BY <1>2 DEF Goes
  <2> HIDE DEF grouped
  <2>3. /\ IsProcess(process') /\ process'.groups = {account.gid} /\ process'.gid = Ids(account.gid)
        /\ process'.platform = process.platform /\ process'.started_with = process.started_with
        /\ IsLinux(process) => process'.permitted = process.permitted
    BY <1>1, <2>1, <2>2, ZenonT(30) DEF Setuid, IsProcess
  <2>4. GroupsLeft(process')
    BY <2>3 DEF GroupsLeft, Ids
  <2>5. IsLinux(process') <=> IsLinux(process)
    BY <2>3 DEF IsLinux
  <2>6. (IsLinux(process') /\ Dials /\ CAP_NET_RAW \in process'.started_with) => CAP_NET_RAW \in process'.permitted
    BY <1>1, <2>3, <2>5 DEF MayPin
  <2> QED BY <2>2, <2>3, <2>4, <2>5, <2>6 DEF Dropping, AfterSwitch, CapsSettled, MayPin, GroupsLeft, IsProcess
<1> QED BY <1>2, FailsDropping DEF switch_to

\* What is left in the end is what DIAL needs on this kernel, as the last read of it says.
LEMMA SettleDropping ==
    ASSUME NEW ok, Dropping, Dials' = Dials, settle(Dials, ok)
    PROVE  Dropping'
<1> DEFINE held == process.permitted
           bare == Capset(process, {}, held)
<1>1. /\ IsProcess(process) /\ IsLinux(process) /\ MayPin(process) /\ GroupsLeft(process)
  BY DEF settle, Dropping
<1>2. /\ IsProcess(bare) /\ bare.effective \in {{}, process.effective}
      /\ bare.platform = process.platform /\ bare.groups = process.groups /\ bare.gid = process.gid
      /\ bare.was_root = process.was_root /\ bare.started_with = process.started_with
      /\ bare.pin_needs_raw = process.pin_needs_raw
      /\ "capset" \in bare.ignores <=> "capset" \in process.ignores
      /\ "capset" \notin process.ignores => bare.effective = {}
  BY <1>1, ZenonT(30) DEF Capset, IsProcess
<1> HIDE DEF bare
<1>3. ASSUME NEW pin \in probe(bare), NEW keep, keep = IF Dials THEN decide(pin, held) ELSE {},
             NEW settled, settled = [Capset(bare, keep, keep) EXCEPT !.keep_caps = FALSE],
             settled.effective = keep, settled.permitted = keep, settled.inheritable = {},
             Goes(settled, "forbid")
      PROVE  Dropping'
  <2>1. /\ IsProcess(settled) /\ settled.platform = process.platform /\ settled.groups = process.groups
        /\ settled.gid = process.gid /\ settled.was_root = process.was_root
        /\ settled.started_with = process.started_with /\ settled.keep_caps = FALSE
        /\ settled.pin_needs_raw = process.pin_needs_raw
    BY <1>2, <1>3 DEF Capset, IsProcess
  <2>2. "capset" \in process.ignores => settled.effective = bare.effective
    BY <1>2, <1>3 DEF Capset, IsProcess
  <2>3. keep \subseteq (IF Dials THEN {CAP_NET_RAW} ELSE {})
    BY <1>3 DEF decide
  <2>4. ASSUME Dials, CAP_NET_RAW \in settled.started_with PROVE CanPin(settled)
    <3>1. CAP_NET_RAW \in held
      BY <1>1, <2>1, <2>4 DEF MayPin
    <3>2. CASE pin = "Unprivileged"
      <4>1. CanPin(bare)
        BY <3>2, <1>3 DEF probe
      <4>2. keep = {}
        BY <1>3, <2>4, <3>2 DEF decide
      <4>3. settled.effective = bare.effective
        BY <1>2, <1>3, <2>2, <4>2
      <4> QED BY <1>2, <2>1, <4>1, <4>3 DEF CanPin, Capable, IsLinux
    <3>3. CASE pin # "Unprivileged"
      <4>1. CAP_NET_RAW \in settled.effective
        BY <1>3, <2>4, <3>1, <3>3 DEF decide
      <4> QED BY <4>1 DEF CanPin, Capable
    <3> QED BY <3>2, <3>3
  <2>5. process' = settled /\ drop' = "forbid"
    BY <1>3 DEF Goes
  <2>6. GroupsLeft(settled)
    BY <1>1, <2>1 DEF GroupsLeft
  <2>7. CapsSettled(settled)
    BY <1>3, <2>1, <2>3, <2>4 DEF CapsSettled
  <2> QED BY <2>1, <2>5, <2>6, <2>7 DEF Dropping, GroupsLeft, CapsSettled, IsProcess
<1> QED BY <1>3, FailsDropping DEF settle, bare

\* The flag is set and read back, where there is one.
LEMMA ForbidDropping ==
    ASSUME NEW ok, Dropping, Dials' = Dials, forbid_new_privileges(ok)
    PROVE  Dropping'
<1>1. IsProcess(process) /\ GroupsLeft(process) /\ CapsSettled(process)
  BY DEF forbid_new_privileges, Dropping
<1>2. ASSUME NEW p, Goes(p, "check"), IsProcess(p), GroupsLeft(p), CapsSettled(p),
             p.platform # "macos" => p.no_new_privs
      PROVE  Dropping'
  <2>1. process' = p /\ drop' = "check"
    BY <1>2 DEF Goes
  <2> QED BY <1>2, <2>1 DEF Dropping, GroupsLeft, CapsSettled, IsProcess
<1>3. CASE process.platform = "macos"
  BY <1>1, <1>2, <1>3 DEF forbid_new_privileges
<1>4. CASE process.platform # "macos" /\ ~Fails
  <2> DEFINE p == [process EXCEPT !.no_new_privs = TRUE]
  <2>1. Goes(p, "check")
    BY <1>4 DEF forbid_new_privileges
  <2>2. IsProcess(p) /\ GroupsLeft(p) /\ p.no_new_privs
    BY <1>1, ZenonT(30) DEF IsProcess, GroupsLeft
  <2>3. CapsSettled(p)
    BY <1>1 DEF IsProcess, CapsSettled, IsLinux, CanPin, Capable
  <2> QED BY <1>2, <2>1, <2>2, <2>3
<1> QED BY <1>3, <1>4, FailsDropping

\* The last check passes a process that is the account's, with no way back.
LEMMA CheckDropping == ASSUME Dropping, Dials' = Dials, check PROVE Dropping'
<1>1. /\ IsProcess(process) /\ GroupsLeft(process) /\ CapsSettled(process) /\ drop = "check"
      /\ process.platform # "macos" => process.no_new_privs
  BY DEF check, Dropping
<1>2. CASE ~Fails
  <2>1. /\ ~root_regainable(process) /\ \E account \in credentials : RunsAs(process, account)
        /\ process' = process /\ drop' = "done" /\ credentials' = credentials
    BY <1>2 DEF check, Goes
  <2>2. \A account \in credentials : RunsAs(process, account) => account.gid = process.gid.effective
    BY DEF RunsAs
  <2>3. Switched(Dials)
    BY <1>1, <2>1, <2>2 DEF Switched, GroupsLeft, CapsSettled
  <2> QED BY <1>1, <2>1, <2>3 DEF Dropping, Switched, IsProcess
<1> QED BY <1>2, FailsDropping

\* Each call of drop_to finds what the one before left.
LEMMA DropIInv == ASSUME StartupIInv, DropPrivileges PROVE StartupIInv'
<1>1. /\ stage = "built" /\ credentials # {} /\ drop_to(Dials)
      /\ UNCHANGED <<wanted, env, unread, slots, stage, reflectors, host, user, legs>>
  BY DEF DropPrivileges
<1>2. Dials' = Dials
  BY <1>1 DEF Dials
<1>3. Dropping'
  BY <1>1, <1>2, StartDropping, NarrowDropping, SwitchDropping, SettleDropping, ForbidDropping,
     CheckDropping DEF drop_to, StartupIInv
<1>4. credentials' = credentials
  BY <1>1 DEF drop_to, StartDrop, narrow_for_switch, switch_to, settle, forbid_new_privileges, check,
     Goes, Fails
<1> QED BY <1>1, <1>3, <1>4 DEF StartupIInv, IsEntry, Served

(* --------------------------------- theorems -------------------------------- *)

\* Every step of startup keeps the invariant.
LEMMA StartupNextIInv == StartupIInv /\ [StartupNext]_startupVars => StartupIInv'
<1> SUFFICES ASSUME StartupIInv, [StartupNext]_startupVars PROVE StartupIInv'
  OBVIOUS
<1>1. CASE UNCHANGED startupVars
  <2>1. /\ UNCHANGED <<wanted, env, unread, slots, stage, reflectors, host, user, legs>>
        /\ UNCHANGED <<credentials, process, drop>>
    BY <1>1 DEF startupVars, privilegeVars
  <2>2. Dials' = Dials
    BY <2>1 DEF Dials
  <2>3. Dropping'
    BY <2>1, <2>2, Zenon DEF StartupIInv, Dropping, IsProcess, MayPin, GroupsLeft, CapsSettled, Switched
  <2> QED BY <2>1, <2>3 DEF StartupIInv, Reading, IsEntry, Served
<1> QED BY <1>1, ReadIInv, LoadIInv, FitIInv, ResolveIInv, BuildIInv, DropIInv, RunIInv DEF StartupNext

\* The invariant holds throughout.
LEMMA StartupInvariant == StartupSpec => []StartupIInv
BY StartupInitIInv, StartupNextIInv, PTL DEF StartupSpec

\* The order of the environment's variables picks no winner, for every entry and every parameter
\* spelled twice (PartialReflector::set).
THEOREM VariablesAreRead == StartupSpec => []AsSpelled
<1>1. StartupIInv => AsSpelled
  <2> SUFFICES ASSUME StartupIInv, stage = "env", unread = {} PROVE slots = env /\ Reading
    BY DEF AsSpelled, Reading
  <2> QED BY DEF StartupIInv, Reading
<1> QED BY <1>1, StartupInvariant, PTL

\* What a host without IPv6 leaves of the entries is what the validation would accept, and reflects
\* every IPv4 packet it did, for all entries and packets (fall_back_to_ipv4).
THEOREM FallbackStaysFit == StartupSpec => []FallbackFits
<1>1. StartupIInv => FallbackFits
  <2> SUFFICES ASSUME StartupIInv PROVE FallbackFits
    OBVIOUS
  <2>1. stage = "fitted" =>
          /\ \A i \in DOMAIN reflectors : ~Refused(reflectors[i])
          /\ \A i, j \in DOMAIN reflectors : i < j => ~conflicts_with(reflectors[i], reflectors[j])
    BY DEF StartupIInv, Fit, Accepted
  <2>2. \A i \in DOMAIN reflectors : V4Reflected(FallBack(reflectors[i])) = V4Reflected(reflectors[i])
    BY FallBackReflects DEF StartupIInv
  <2> QED BY <2>1, <2>2 DEF FallbackFits
<1> QED BY <1>1, StartupInvariant, PTL

\* A leg of a running daemon has a source of each family its entry requires, and MACs where it
\* filters on them, for all entries, hosts and packets (require_egress_family,
\* require_both_sides_family, require_macs_matchable).
THEOREM RunningServes == StartupSpec => []RunsWhatItRequires
<1>1. StartupIInv => RunsWhatItRequires
  <2> SUFFICES ASSUME StartupIInv, stage = "running", NEW leg \in legs
               PROVE  /\ \A p \in Packets :
                           Version(p.dest) \in requires(leg.family) =>
                               on_packet(leg, p, host.addrs[leg.egress], host.addrs[leg.ingress], TRUE) # "Stalled"
                      /\ leg.filter.src_mac # None => host.ethernet[leg.ingress]
    BY DEF RunsWhatItRequires
  <2>1. Served(leg)
    BY DEF StartupIInv
  <2>2. \A p, addrs, there :
           egress_sources(addrs, p.dest) => on_packet(leg, p, addrs, there, TRUE) # "Stalled"
    BY DEF on_packet
  <2> QED BY <2>1, <2>2 DEF Served, egress_sources
<1> QED BY <1>1, StartupInvariant, PTL

\* A daemon with a "user" setting runs as that account or not at all, whatever it was started as and
\* whichever call fails or is ignored (drop_to).
THEOREM AccountRuns == StartupSpec => []RunsAsAccount
<1>1. StartupIInv => RunsAsAccount
  BY DEF StartupIInv, RunsAsAccount, Dropping
<1> QED BY <1>1, StartupInvariant, PTL

=============================================================================
