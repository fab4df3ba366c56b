------------------------------ MODULE LinearMap ------------------------------
(* The map of src/src/linear_map.rs: a sequence of entries [key, value], scanned from the front. *)
(* remove is a swap_remove, so the order of iteration is not the order of insertion.             *)
EXTENDS Integers, SequencesExt

keys(map) == {map[i].key : i \in DOMAIN map}

\* The first entry with the key; 0 when there is none.
position(map, key) == SelectInSeq(map, LAMBDA entry : entry.key = key)

get(map, key) == map[position(map, key)].value

insert(map, key, value) ==
    IF key \in keys(map)
    THEN [map EXCEPT ![position(map, key)].value = value]
    ELSE Append(map, [key |-> key, value |-> value])

remove(map, key) ==
    IF key \in keys(map)
    THEN Front([map EXCEPT ![position(map, key)] = Last(map)])
    ELSE map

==============================================================================
