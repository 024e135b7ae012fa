------------------------------ MODULE UniqueRows ------------------------------
(***************************************************************************)
(* What the rest of the backend takes the tables behind its API for: a     *)
(* slot (a user's email, provider or device) is free or holds one row,     *)
(* and each request that changes it does so in one step.  AddProvider,     *)
(* DeleteProvider and DeviceChange of Polling are these steps.             *)
(***************************************************************************)
CONSTANTS Slots, Ids, Values

VARIABLE content  \* the rows: [slot, id, value]

Init == content = {}

Insert(slot, id, value) ==
    /\ \A c \in content : c.slot # slot
    /\ content' = content \cup {[slot |-> slot, id |-> id, value |-> value]}

Delete(slot) == content' = {c \in content : c.slot # slot}

(* A row that is updated keeps its id. *)
Update(slot, value) ==
    \E row \in content :
        /\ row.slot = slot
        /\ content' = {c \in content : c.slot # slot}
                        \cup {[slot |-> slot, id |-> row.id, value |-> value]}

Next == \E slot \in Slots :
    \/ Delete(slot)
    \/ \E value \in Values :
        Update(slot, value) \/ \E id \in Ids : Insert(slot, id, value)

Spec == Init /\ [][Next]_content
===============================================================================
