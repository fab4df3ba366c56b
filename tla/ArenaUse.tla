------------------------------ MODULE ArenaUse ------------------------------
(***************************************************************************)
(* An arena in use: values are inserted and removed in any order, and the  *)
(* users keep every key they were ever given (Key is Copy), so removals    *)
(* and lookups are made with stale keys as well as live ones.              *)
(*                                                                         *)
(* The generation wraps.  The comment at src/src/reactor/arena.rs:92 says  *)
(* that "a collision needs 2^32 reuses of one slot": the guard of insert   *)
(* lets a slot be reused GenMod - 1 times and no more, so that the         *)
(* properties below hold up to exactly that limit.                         *)
(***************************************************************************)
EXTENDS Arena

CONSTANT MaxInserts    \* bound: how many insertions a behaviour makes

ASSUME MaxInsertsAssumption == MaxInserts \in Nat

VARIABLES arena,       \* the Arena
          issued,      \* history: the pairs <<key, value>> insert has returned
          reuses,      \* history: how often each slot was emptied
          inserts      \* history: how many values were inserted; values are numbered

useVars == <<arena, issued, reuses, inserts>>

\* Values are told apart by the insertion that made them.
Value == 1 .. MaxInserts

ASSUME NoValueAssumption == NoValue \notin Value

\* The arena is a sequence of slots with a free list over them, and the history of insertions has
\* its shape.
ArenaTypeOK ==
    /\ arena \in [slots : Seq(Slot(Value)), free : Seq(Nat \ {0})]
    /\ issued \subseteq Key \X Value
    /\ reuses \in Seq(Nat)
    /\ inserts \in 0 .. MaxInserts

ArenaInit ==
    /\ arena = EmptyArena
    /\ issued = {}
    /\ reuses = <<>>
    /\ inserts = 0

insert ==
    LET key   == NextKey(arena)
        value == inserts + 1
    IN  /\ inserts < MaxInserts
        /\ arena.free # <<>> => reuses[key.index] < GenMod
        /\ arena' = Insert(arena, value)
        /\ issued' = issued \cup {<<key, value>>}
        /\ reuses' = IF arena.free = <<>> THEN Append(reuses, 0) ELSE reuses
        /\ inserts' = value

remove(key) ==
    /\ arena' = Remove(arena, key)
    /\ reuses' = IF Contains(arena, key) THEN [reuses EXCEPT ![key.index] = @ + 1] ELSE reuses
    /\ UNCHANGED <<issued, inserts>>

ArenaNext == insert \/ \E p \in issued : remove(p[1])

ArenaSpec == ArenaInit /\ [][ArenaNext]_useVars

-----------------------------------------------------------------------------
\* A key resolves to the value it was issued for, or to nothing: no copy of a
\* removed value's key ever reaches a later occupant of its slot, so a lookup
\* (Arena::get) or removal (Arena::remove) through a stale key spares it.
NoAliasing == \A p \in issued : Get(arena, p[1]) \in {p[2], NoValue}

\* The free list is exactly the empty slots, each once, so that insert never
\* overwrites a live value and never leaks a slot (Arena::insert_from pops it,
\* Arena::remove pushes to it).
FreeListExact ==
    /\ IsInjective(arena.free)
    /\ Range(arena.free) = {i \in DOMAIN arena.slots : arena.slots[i].value = NoValue}

\* The handles that resolve, for the refinement.
LivePairs == {<<p[1], Get(arena, p[1])>> : p \in {q \in issued : Contains(arena, q[1])}}

\* Every insertion fills at most one new slot.
UsedKey == [index : 1 .. MaxInserts, generation : Generation]

Promise == INSTANCE Handles WITH
              Handle <- UsedKey, Value <- Value,
              issued <- {p[1] : p \in issued}, live <- LivePairs

\* The arena keeps the promise of Handles: handles are never issued twice, and
\* only an insertion or a removal through the handle itself changes what a
\* handle resolves to.
KeepsPromise == Promise!Spec

=============================================================================
