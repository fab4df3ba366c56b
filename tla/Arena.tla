------------------------------- MODULE Arena -------------------------------
(***************************************************************************)
(* The generational-index arena of src/src/reactor/arena.rs, as operators  *)
(* on an arena value [slots, free].  A slot is an optional value with the  *)
(* generation its next key carries; free is the stack of empty slots.      *)
(* The reactor's handlers and registrations, the dispatcher's routing      *)
(* registrations and a DIAL proxy's connections all live in such arenas.   *)
(*                                                                         *)
(* Slots are numbered from 1 here and from 0 in the code.                  *)
(***************************************************************************)
EXTENDS Integers, Sequences, Functions

CONSTANTS GenMod,    \* the number of generations of a slot: 2^32 in the code
          NoValue    \* Option::None

ASSUME GenModAssumption == GenMod \in Nat \ {0}

Generation == 0 .. GenMod - 1

Key == [index : Nat \ {0}, generation : Generation]

\* struct Slot, holding values of V.
Slot(V) == [generation : Generation, value : V \cup {NoValue}]

EmptyArena == [slots |-> <<>>, free |-> <<>>]

\* An arena of values of V: the free list is exactly the empty slots.
IsArena(arena, V) ==
    /\ arena = [slots |-> arena.slots, free |-> arena.free]
    /\ arena.slots \in Seq(Slot(V))
    /\ arena.free \in Seq(Nat \ {0})
    /\ IsInjective(arena.free)
    /\ Range(arena.free) = {i \in DOMAIN arena.slots : arena.slots[i].value = NoValue}

\* u32::wrapping_add(1).
WrappingIncrement(g) == IF g = GenMod - 1 THEN 0 ELSE g + 1

\* Key::to_u64, the token the kernel keeps for a registration.
ToU64(key) == (key.index - 1) * GenMod + key.generation

\* Key::from_u64.
FromU64(token) == [index |-> token \div GenMod + 1, generation |-> token % GenMod]

\* Fault: the generation of a key is not compared.
HasSlotAnyGeneration(arena, key) == key.index \in DOMAIN arena.slots

\* fn slot, fn slot_mut: the slot exists and is of the key's generation.
HasSlot(arena, key) ==
    /\ key.index \in DOMAIN arena.slots
    /\ arena.slots[key.index].generation = key.generation

Get(arena, key) ==
    IF HasSlot(arena, key) THEN arena.slots[key.index].value ELSE NoValue

Contains(arena, key) == Get(arena, key) # NoValue

\* The key the next insert hands out, and what it leaves behind.
NextKey(arena) ==
    IF arena.free = <<>>
    THEN [index |-> Len(arena.slots) + 1, generation |-> 0]
    ELSE LET i == arena.free[Len(arena.free)]
         IN  [index |-> i, generation |-> arena.slots[i].generation]

\* Fault: a reused slot stays on the free list.
InsertKeepsFree(arena, value) ==
    IF arena.free = <<>>
    THEN [arena EXCEPT !.slots = Append(@, [generation |-> 0, value |-> value])]
    ELSE [arena EXCEPT !.slots[arena.free[Len(arena.free)]].value = value]

Insert(arena, value) ==
    IF arena.free = <<>>
    THEN [slots |-> Append(arena.slots, [generation |-> 0, value |-> value]),
          free  |-> arena.free]
    ELSE [slots |-> [arena.slots EXCEPT ![arena.free[Len(arena.free)]].value = value],
          free  |-> SubSeq(arena.free, 1, Len(arena.free) - 1)]

\* A write through get_mut; a stale key writes nothing.
Put(arena, key, value) ==
    IF Contains(arena, key)
    THEN [arena EXCEPT !.slots[key.index].value = value]
    ELSE arena

\* Fault: the slot keeps its generation.
RemoveKeepsGeneration(arena, key) ==
    IF Contains(arena, key)
    THEN [slots |-> [arena.slots EXCEPT ![key.index].value = NoValue],
          free  |-> Append(arena.free, key.index)]
    ELSE arena

\* Fault: an empty slot of the right generation is freed a second time.
RemoveDoubleFrees(arena, key) ==
    IF key.index \in DOMAIN arena.slots
    THEN [slots |-> [arena.slots EXCEPT ![key.index] =
                        [generation |-> WrappingIncrement(@.generation), value |-> NoValue]],
          free  |-> Append(arena.free, key.index)]
    ELSE arena

Remove(arena, key) ==
    IF Contains(arena, key)
    THEN [slots |-> [arena.slots EXCEPT ![key.index] =
                        [generation |-> WrappingIncrement(@.generation), value |-> NoValue]],
          free  |-> Append(arena.free, key.index)]
    ELSE arena

\* iter(): the live keys; it yields them in slot order.
Keys(arena) == {[index |-> i, generation |-> arena.slots[i].generation] :
                   i \in {j \in DOMAIN arena.slots : arena.slots[j].value # NoValue}}

=============================================================================
