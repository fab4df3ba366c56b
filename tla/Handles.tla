------------------------------ MODULE Handles ------------------------------
(***************************************************************************)
(* What an arena promises its users: every insertion is named by a handle  *)
(* that has never been handed out before, a handle resolves to the value   *)
(* it was issued for until that value is removed, and to nothing ever      *)
(* after, whoever still holds a copy of it.                                *)
(***************************************************************************)
CONSTANTS Handle, Value

VARIABLES issued,   \* every handle ever handed out
          live      \* the pairs <<handle, value>> that resolve

vars == <<issued, live>>

TypeOK == issued \subseteq Handle /\ live \subseteq issued \X Value

Init == issued = {} /\ live = {}

Insert(h, v) ==
    /\ h \notin issued
    /\ issued' = issued \cup {h}
    /\ live' = live \cup {<<h, v>>}

\* Removing through a handle that no longer resolves changes nothing.
Remove(h) ==
    /\ live' = {p \in live : p[1] # h}
    /\ UNCHANGED issued

Next ==
    \/ \E h \in Handle, v \in Value : Insert(h, v)
    \/ \E h \in issued : Remove(h)

Spec == Init /\ [][Next]_vars

=============================================================================
