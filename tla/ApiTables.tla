------------------------------- MODULE ApiTables -------------------------------
(***************************************************************************)
(* The handlers that change users, api_keys and device_registrations:      *)
(* register, add_provider and delete_provider of app/auth/router.py,       *)
(* register_device and unregister_device of app/api/router.py.  Each reads *)
(* first and writes later, with other requests running in between; only    *)
(* the unique constraints stand between them.  add_provider also asks the  *)
(* provider about the key (validate_key of app/providers).  Requests that  *)
(* are refused before they read a table are left out.                      *)
(***************************************************************************)
EXTENDS Naturals, FiniteSetsExt

CONSTANTS
    Slots,      \* what a unique constraint allows one row of: a user's email,
                \* a user's provider, a user's device
    Keys,       \* API keys
    Platforms,  \* platforms of devices
    Requests,   \* requests under way at a time
    MaxId       \* bound on row ids

Tables == {"users", "api_keys", "device_registrations"}

ASSUME TablesAssumption ==
    /\ \A slot \in Slots : slot.table \in Tables
    /\ MaxId \in Nat

VARIABLES
    rows,    \* the rows of the three tables
    request  \* the handlers

vars == <<rows, request>>

ValuesOf(table) == CASE table = "users" -> {"password"}
                     [] table = "api_keys" -> Keys
                     [] table = "device_registrations" -> Platforms
Values == {"password"} \cup Keys \cup Platforms
Rows == [slot : Slots, id : 1 .. MaxId, value : Values]

Idle == [pc |-> "idle"]

(* "found": the row that the handler has read. *)
Handling(op, slot, value) ==
    [pc |-> "select", op |-> op, slot |-> slot, value |-> value, found |-> {}]

Answer(r) == request' = [request EXCEPT ![r] = Idle]
Goes(r, pc) == request' = [request EXCEPT ![r].pc = pc]

-----------------------------------------------------------------------------
Receive(r, slot) ==
    /\ request[r] = Idle
    /\ \/ \E value \in ValuesOf(slot.table) :
            request' = [request EXCEPT ![r] = Handling("add", slot, value)]
       \/ /\ slot.table # "users"
          /\ request' = [request EXCEPT ![r] = Handling("delete", slot, "password")]
    /\ UNCHANGED rows

(* Mutation: the query does not ask for the user. *)
FoundOfAnyUser(slot) == {row \in rows : row.slot.table = slot.table /\ row.slot.name = slot.name}

Found(slot) == {row \in rows : row.slot = slot}

(* An existing row is a conflict, or for a device the one to update; it is *)
(* the row to delete, or there is nothing to delete.                       *)
Select(r) ==
    /\ request[r].pc = "select"
    /\ LET slot == request[r].slot
       IN  IF Found(slot) = {}
           THEN IF request[r].op = "delete" THEN Answer(r)
                ELSE Goes(r, IF slot.table = "api_keys" THEN "read_probe" ELSE "insert")
           ELSE IF request[r].op = "add" /\ slot.table # "device_registrations" THEN Answer(r)
                ELSE \E row \in Found(slot) :
                        request' = [request EXCEPT ![r].found = {row},
                            ![r].pc = IF request[r].op = "add" THEN "update" ELSE "delete"]
    /\ UNCHANGED rows

(* validate_key: a request that reads.  No answer at all, 401 or 403 end   *)
(* it; any other status passes, of a provider that is down as well.        *)
ReadProbe(r) ==
    /\ request[r].pc = "read_probe"
    /\ Answer(r) \/ Goes(r, "write_probe")
    /\ UNCHANGED rows

(* validate_key: a request that writes, and refuses the key if it          *)
(* succeeds.  No answer, or another one, lets the key pass as read-only.   *)
WriteProbe(r) ==
    /\ request[r].pc = "write_probe"
    /\ Answer(r) \/ Goes(r, "insert")
    /\ UNCHANGED rows

UsedIds(table) == {row.id : row \in {x \in rows : x.slot.table = table}}

(* Mutation: a new row always gets the first id. *)
NewRowUncounted(r) == [slot |-> request[r].slot, value |-> request[r].value, id |-> 1]

(* SQLite gives a new row the largest id of the table plus one: the id of  *)
(* a deleted row comes back.                                               *)
NewRow(r) == [slot |-> request[r].slot, value |-> request[r].value,
              id |-> 1 + Max({0} \cup UsedIds(request[r].slot.table))]

(* Mutation: a table without its unique constraint. *)
InsertAgain(r) ==
    /\ request[r].pc = "insert"
    /\ NewRow(r).id <= MaxId
    /\ rows' = rows \cup {NewRow(r)}
    /\ Answer(r)

(* The commit of the insert; an IntegrityError ends in a 500.  The refresh *)
(* that follows a commit changes nothing, but fails when the row has gone. *)
Insert(r) ==
    /\ request[r].pc = "insert"
    /\ NewRow(r).id <= MaxId
    /\ rows' = IF Found(request[r].slot) = {} THEN rows \cup {NewRow(r)} ELSE rows
    /\ Answer(r)

(* The rows that a statement "WHERE id = ..." reaches. *)
Reached(r) == {row \in rows : \E f \in request[r].found :
                    row.id = f.id /\ row.slot.table = f.slot.table}

(* SQLAlchemy only warns when the DELETE matches no row. *)
Delete(r) ==
    /\ request[r].pc = "delete"
    /\ rows' = rows \ Reached(r)
    /\ Answer(r)

(* The UPDATE is sent if the platform differs from the one that was read;  *)
(* when it matches no row it raises StaleDataError.                        *)
Update(r) ==
    /\ request[r].pc = "update"
    /\ LET changed == {row \in Reached(r) : \A f \in request[r].found : f.value # request[r].value}
       IN  rows' = (rows \ changed) \cup {[row EXCEPT !.value = request[r].value] : row \in changed}
    /\ Answer(r)

(* The database fails, or the server restarts. *)
Fails(r) ==
    /\ request[r] # Idle
    /\ Answer(r)
    /\ UNCHANGED rows

Init ==
    /\ rows = {}
    /\ request = [r \in Requests |-> Idle]

Handle(r) ==
    \/ \E slot \in Slots : Receive(r, slot)
    \/ Select(r) \/ ReadProbe(r) \/ WriteProbe(r) \/ Insert(r)
    \/ Delete(r) \/ Update(r) \/ Fails(r)

Next == \E r \in Requests : Handle(r)

Spec == Init /\ [][Next]_vars

-----------------------------------------------------------------------------
(* Properties *)

Requesting == [pc : {"select", "read_probe", "write_probe", "insert", "update", "delete"},
               op : {"add", "delete"}, slot : Slots, value : Values, found : SUBSET Rows]

(* The tables and the handlers keep their shapes, and a table has no two   *)
(* rows with one id: what the primary keys promise to every handler.       *)
TypeOK ==
    /\ rows \subseteq Rows
    /\ request \in [Requests -> {Idle} \cup Requesting]
    /\ \A x, y \in rows : x.slot.table = y.slot.table /\ x.id = y.id => x = y

(* However requests overlap, the tables change as the polling loops take   *)
(* them to: a slot is filled, emptied or updated in one step, never holds  *)
(* two rows, and an update leaves the row the one that it was.             *)
Table == INSTANCE UniqueRows WITH Ids <- 1 .. MaxId, content <- rows
ImplementsUniqueRows == Table!Spec

(* No request deletes or updates a row of another slot, another user's     *)
(* among them: unless the row that it found has been deleted or updated in *)
(* the meantime, and SQLite may have given its id to the other one.        *)
OnlyItsOwnRow ==
    [][\A row \in rows \ rows' : \E r \in Requests :
            /\ request[r].pc \in {"delete", "update"} /\ request'[r] = Idle
            /\ \/ row.slot = request[r].slot
               \/ request[r].found \cap rows = {}]_vars
===============================================================================
