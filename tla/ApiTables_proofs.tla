--------------------------- MODULE ApiTables_proofs ---------------------------
(***************************************************************************)
(* Proofs about ApiTables: for any users, keys, devices and any number of  *)
(* requests under way, the handlers implement UniqueRows and change no row *)
(* but their own.                                                          *)
(***************************************************************************)
EXTENDS ApiTables, FiniteSetTheorems, TLAPS

Working(r) == request[r] # Idle

(* The unique constraints. *)
SlotsUnique == \A x, y \in rows : x.slot = y.slot => x = y

(* What a handler has read is one row, of its own slot.                    *)
FoundIsOwn ==
    \A r \in Requests : Working(r) =>
        /\ \A f \in request[r].found : f.slot = request[r].slot
        /\ \A f, g \in request[r].found : f = g

IInv == TypeOK /\ SlotsUnique /\ FoundIsOwn

-----------------------------------------------------------------------------
(* Helpers *)

(* Max of FiniteSetsExt is what it says on the ids of a table.             *)
LEMMA MaxOfBounded ==
    ASSUME NEW n \in Nat, NEW S, S \subseteq 0 .. n, S # {}
    PROVE  Max(S) \in S /\ \A y \in S : y <= Max(S)
<1> DEFINE From(x) == x .. n
           T == {From(x) : x \in S}
<1>1. T \subseteq SUBSET (0 .. n) /\ T # {}
  <2>1. ASSUME NEW x \in S PROVE From(x) \subseteq 0 .. n
    <3>1. x \in 0 .. n
      OBVIOUS
    <3> QED
      BY ONLY <3>1, n \in Nat
  <2>2. \E x \in S : From(x) \in T
    OBVIOUS
  <2> HIDE DEF From
  <2> QED
    BY <2>1, <2>2
<1>2. IsWellFoundedOn(StrictSubsetOrdering(0 .. n), SUBSET (0 .. n))
  <2>1. IsFiniteSet(0 .. n)
    BY FS_Interval
  <2>2. FiniteSubsetsOf(0 .. n) = SUBSET (0 .. n)
    BY ONLY <2>1, FS_FiniteSubsetsOfFinite
  <2>3. IsWellFoundedOn(StrictSubsetOrdering(0 .. n), FiniteSubsetsOf(0 .. n))
    BY ONLY FS_StrictSubsetOrderingWellFounded
  <2> QED
    BY ONLY <2>2, <2>3
<1>3. PICK m \in T : \A t \in T : <<t, m>> \notin StrictSubsetOrdering(0 .. n)
  BY <1>1, <1>2, WFMin
<1>4. PICK x \in S : m = From(x)
  BY <1>3
<1>5. ASSUME NEW y \in S PROVE y <= x
  <2>1. ~(From(y) \subseteq From(x) /\ From(y) # From(x))
    BY <1>1, <1>3, <1>4 DEF StrictSubsetOrdering
  <2>2. x \in 0 .. n /\ y \in 0 .. n
    OBVIOUS
  <2>3. x < y => x \in From(x) /\ x \notin From(y) /\ From(y) \subseteq From(x)
    BY <2>2
  <2> QED
    BY <2>1, <2>2, <2>3
<1> QED
  BY <1>5 DEF Max

LEMMA InitIInv == Init => IInv
BY DEF Init, IInv, TypeOK, SlotsUnique, FoundIsOwn, Working, Idle

(* A handler that is not idle has the fields of a request. *)
LEMMA WorkingType ==
    ASSUME IInv, NEW r \in Requests, request[r].pc # "idle"
    PROVE  /\ request[r] \in Requesting
           /\ Working(r)
           /\ request \in [Requests -> {Idle} \cup Requesting]
BY DEF IInv, TypeOK, Idle, Working

(* One handler goes from one state to another, and no table changes.       *)
LEMMA HandlerMovesIInv ==
    ASSUME IInv, NEW r \in Requests, NEW h \in {Idle} \cup Requesting,
           request' = [request EXCEPT ![r] = h], UNCHANGED rows,
           h # Idle => /\ \A f \in h.found : f.slot = h.slot
                       /\ \A f, g \in h.found : f = g
    PROVE  IInv'
<1>1. request \in [Requests -> {Idle} \cup Requesting]
  BY DEF IInv, TypeOK
<1>2. \A s \in Requests : request'[s] = IF s = r THEN h ELSE request[s]
  BY <1>1
<1>3. TypeOK'
  BY <1>1 DEF IInv, TypeOK
<1>4. FoundIsOwn'
  BY <1>2 DEF IInv, FoundIsOwn, Working
<1> QED
  BY <1>3, <1>4 DEF IInv, SlotsUnique

LEMMA AnswerKeepsHandlers ==
    ASSUME IInv, NEW r \in Requests, Answer(r)
    PROVE  /\ request' \in [Requests -> {Idle} \cup Requesting]
           /\ FoundIsOwn'
<1>1. request \in [Requests -> {Idle} \cup Requesting]
  BY DEF IInv, TypeOK
<1>2. \A s \in Requests : request'[s] = IF s = r THEN Idle ELSE request[s]
  BY <1>1 DEF Answer
<1> QED
  BY <1>1, <1>2 DEF Answer, IInv, FoundIsOwn, Working

LEMMA AnswerKeepsIInv ==
    ASSUME IInv, NEW r \in Requests, Answer(r), UNCHANGED rows
    PROVE  IInv'
BY AnswerKeepsHandlers DEF IInv, TypeOK, SlotsUnique

-----------------------------------------------------------------------------
(* The handlers, one lemma per action *)

LEMMA ReceiveKeepsIInv ==
    ASSUME IInv, NEW r \in Requests, NEW slot \in Slots, Receive(r, slot)
    PROVE  IInv'
<1>1. PICK op \in {"add", "delete"}, value \in Values :
        request' = [request EXCEPT ![r] = Handling(op, slot, value)]
  BY TablesAssumption DEF Receive, ValuesOf, Values, Tables
<1>2. Handling(op, slot, value) \in Requesting
  BY DEF Handling, Requesting
<1>3. UNCHANGED rows
  BY DEF Receive, IInv, TypeOK
<1> QED
  BY <1>1, <1>2, <1>3, HandlerMovesIInv DEF Handling

LEMMA SelectKeepsIInv ==
    ASSUME IInv, NEW r \in Requests, Select(r)
    PROVE  IInv'
<1> DEFINE h == request[r]
<1>1. h \in Requesting /\ Working(r) /\ request \in [Requests -> {Idle} \cup Requesting]
  BY WorkingType DEF Select
<1>2. UNCHANGED rows
  BY DEF Select, IInv, TypeOK
<1>3. /\ \A f \in h.found : f.slot = h.slot
      /\ \A f, g \in h.found : f = g
  BY <1>1 DEF IInv, FoundIsOwn
<1>4. CASE Answer(r)
  BY <1>2, <1>4, AnswerKeepsIInv
<1>5. CASE \E pc \in {"read_probe", "insert"} : Goes(r, pc)
  <2>1. PICK pc \in {"read_probe", "insert"} : Goes(r, pc)
    BY <1>5
  <2>2. request' = [request EXCEPT ![r] = [h EXCEPT !.pc = pc]]
    BY <1>1, <2>1 DEF Goes
  <2>3. [h EXCEPT !.pc = pc] \in Requesting
    BY <1>1 DEF Requesting
  <2> QED
    BY <1>1, <1>2, <1>3, <2>2, <2>3, HandlerMovesIInv DEF Requesting
<1>6. CASE \E row \in Found(h.slot), pc \in {"update", "delete"} :
             request' = [request EXCEPT ![r].found = {row}, ![r].pc = pc]
  <2>1. PICK row \in Found(h.slot), pc \in {"update", "delete"} :
             request' = [request EXCEPT ![r].found = {row}, ![r].pc = pc]
    BY <1>6
  <2>2. request' = [request EXCEPT ![r] = [h EXCEPT !.found = {row}, !.pc = pc]]
    BY <1>1, <2>1
  <2>3. row \in Rows /\ row.slot = h.slot
    BY DEF Found, IInv, TypeOK
  <2>4. [h EXCEPT !.found = {row}, !.pc = pc] \in Requesting
    BY <1>1, <2>3 DEF Requesting
  <2> DEFINE n == [h EXCEPT !.found = {row}, !.pc = pc]
  <2>5. n.found = {row} /\ n.slot = h.slot
    BY <1>1 DEF Requesting
  <2>6. n \in Requesting /\ request' = [request EXCEPT ![r] = n]
    BY <2>2, <2>4
  <2>7. /\ \A f \in n.found : f.slot = n.slot
        /\ \A f, g \in n.found : f = g
    BY <1>3, <2>3, <2>5
  <2> HIDE DEF n
  <2> QED
    BY <1>2, <2>6, <2>7, HandlerMovesIInv
<1> QED
  BY <1>4, <1>5, <1>6 DEF Select

LEMMA ProbesKeepIInv ==
    ASSUME IInv, NEW r \in Requests, ReadProbe(r) \/ WriteProbe(r)
    PROVE  IInv'
<1> DEFINE h == request[r]
<1>1. h \in Requesting /\ Working(r) /\ request \in [Requests -> {Idle} \cup Requesting]
  BY WorkingType DEF ReadProbe, WriteProbe
<1>2. UNCHANGED rows
  BY DEF ReadProbe, WriteProbe
<1>3. CASE Answer(r)
  BY <1>2, <1>3, AnswerKeepsIInv
<1>4. CASE \E pc \in {"write_probe", "insert"} : Goes(r, pc)
  <2>1. PICK pc \in {"write_probe", "insert"} : Goes(r, pc)
    BY <1>4
  <2> DEFINE next == [h EXCEPT !.pc = pc]
  <2>2. request' = [request EXCEPT ![r] = next]
    BY <1>1, <2>1 DEF Goes
  <2>3. next \in Requesting
    BY <1>1 DEF Requesting
  <2>4. next.found = h.found /\ next.slot = h.slot
    BY <1>1 DEF Requesting
  <2>5. /\ \A f \in next.found : f.slot = next.slot
        /\ \A f, g \in next.found : f = g
    BY <1>1, <2>4 DEF IInv, FoundIsOwn
  <2> HIDE DEF next
  <2> QED
    BY <1>2, <2>2, <2>3, <2>5, HandlerMovesIInv
<1> QED
  BY <1>3, <1>4 DEF ReadProbe, WriteProbe

(* The id of a new row is none of its table. *)
LEMMA NewRowIsNew ==
    ASSUME IInv, NEW r \in Requests, request[r] \in Requesting, NewRow(r).id <= MaxId
    PROVE  /\ NewRow(r) \in Rows
           /\ \A x \in rows : x.slot.table = request[r].slot.table => x.id # NewRow(r).id
<1> DEFINE S == {0} \cup UsedIds(request[r].slot.table)
<1>1. S \subseteq 0 .. MaxId /\ MaxId \in Nat
  BY TablesAssumption DEF UsedIds, IInv, TypeOK, Rows
<1>2. Max(S) \in S /\ \A y \in S : y <= Max(S)
  <2> HIDE DEF S
  <2>1. S # {}
    BY DEF S
  <2> QED
    BY <1>1, <2>1, MaxOfBounded
<1>3. NewRow(r).id = 1 + Max(S)
  BY DEF NewRow
<1>4. NewRow(r) = [slot |-> request[r].slot, id |-> 1 + Max(S), value |-> request[r].value]
  BY DEF NewRow
<1>5. 1 + Max(S) \in 1 .. MaxId
  BY <1>1, <1>2, <1>3
<1>6. ASSUME NEW x \in rows, x.slot.table = request[r].slot.table
      PROVE  x.id # NewRow(r).id
  <2>1. x.id \in S
    BY <1>6 DEF UsedIds
  <2>2. x.id <= Max(S) /\ x.id \in 0 .. MaxId /\ Max(S) \in 0 .. MaxId
    BY <1>1, <1>2, <2>1
  <2> QED
    BY <1>3, <2>2
<1> HIDE DEF S
<1>7. NewRow(r) \in Rows
  BY <1>4, <1>5 DEF Rows, Requesting
<1> QED
  BY <1>6, <1>7

LEMMA InsertKeepsIInv ==
    ASSUME IInv, NEW r \in Requests, Insert(r)
    PROVE  IInv'
<1>1. request[r] \in Requesting /\ Working(r)
  BY WorkingType DEF Insert
<1>2. request' \in [Requests -> {Idle} \cup Requesting] /\ FoundIsOwn'
  BY AnswerKeepsHandlers DEF Insert
<1>3. CASE Found(request[r].slot) # {}
  BY <1>2, <1>3 DEF Insert, IInv, TypeOK, SlotsUnique
<1>4. CASE Found(request[r].slot) = {}
  <2> DEFINE new == NewRow(r)
  <2>1. new \in Rows /\ \A x \in rows : x.slot.table = request[r].slot.table => x.id # new.id
    BY <1>1, NewRowIsNew DEF Insert
  <2>2. new.slot = request[r].slot
    BY DEF NewRow
  <2>3. rows' = rows \cup {new}
    BY <1>4 DEF Insert
  <2>4. \A x \in rows : x.slot # new.slot
    BY <1>4, <2>2 DEF Found
  <2> HIDE DEF new
  <2>6. TypeOK'
    BY <1>2, <2>1, <2>2, <2>3 DEF IInv, TypeOK
  <2>7. SlotsUnique'
    BY <2>3, <2>4 DEF IInv, SlotsUnique
  <2> QED
    BY <1>2, <2>6, <2>7 DEF IInv
<1> QED
  BY <1>3, <1>4

LEMMA DeleteKeepsIInv ==
    ASSUME IInv, NEW r \in Requests, Delete(r)
    PROVE  IInv'
<1>1. request' \in [Requests -> {Idle} \cup Requesting] /\ FoundIsOwn'
  BY AnswerKeepsHandlers DEF Delete
<1>2. rows' \subseteq rows
  BY DEF Delete
<1> QED
  BY <1>1, <1>2 DEF IInv, TypeOK, SlotsUnique

(* WHERE id = ... reaches one row at most. *)
LEMMA ReachesOneRow ==
    ASSUME IInv, NEW r \in Requests, Working(r)
    PROVE  \A x, y \in Reached(r) : x = y
<1>1. \A f, g \in request[r].found : f = g
  BY DEF IInv, FoundIsOwn
<1> QED
  BY <1>1 DEF Reached, IInv, TypeOK

(* An update changes no row, or the value of one. *)
LEMMA UpdateChangesOneValue ==
    ASSUME IInv, NEW r \in Requests, Update(r)
    PROVE  \/ rows' = rows
           \/ \E x \in Reached(r) :
                rows' = (rows \ {x}) \cup {[x EXCEPT !.value = request[r].value]}
<1>1. Working(r)
  BY WorkingType DEF Update
<1> DEFINE changed == {row \in Reached(r) : \A f \in request[r].found : f.value # request[r].value}
<1>2. rows' = (rows \ changed) \cup {[row EXCEPT !.value = request[r].value] : row \in changed}
  BY DEF Update
<1>3. changed = {} \/ \E x \in Reached(r) : changed = {x}
  BY <1>1, ReachesOneRow
<1> HIDE DEF changed
<1>4. CASE changed = {}
  BY <1>2, <1>4
<1>5. CASE \E x \in Reached(r) : changed = {x}
  BY <1>2, <1>5
<1> QED
  BY <1>3, <1>4, <1>5

LEMMA UpdateKeepsIInv ==
    ASSUME IInv, NEW r \in Requests, Update(r)
    PROVE  IInv'
<1>1. request' \in [Requests -> {Idle} \cup Requesting] /\ FoundIsOwn'
  BY AnswerKeepsHandlers DEF Update
<1>2. request[r] \in Requesting
  BY WorkingType DEF Update
<1>3. CASE rows' = rows
  BY <1>1, <1>2, <1>3 DEF IInv, TypeOK, SlotsUnique
<1>4. CASE \E x \in Reached(r) :
             rows' = (rows \ {x}) \cup {[x EXCEPT !.value = request[r].value]}
  <2>1. PICK x \in Reached(r) :
             rows' = (rows \ {x}) \cup {[x EXCEPT !.value = request[r].value]}
    BY <1>4
  <2> DEFINE new == [x EXCEPT !.value = request[r].value]
  <2>2. x \in rows /\ x \in Rows
    BY DEF Reached, IInv, TypeOK
  <2>3. new = [slot |-> x.slot, id |-> x.id, value |-> request[r].value]
    BY <2>2 DEF Rows
  <2>4. new \in Rows
    BY <1>2, <2>2, <2>3 DEF Rows, Requesting
  <2>5. new.slot = x.slot /\ new.id = x.id
    BY <2>3
  <2> HIDE DEF new
  <2>6. rows' = (rows \ {x}) \cup {new}
    BY <2>1 DEF new
  <2>7. TypeOK'
    BY <1>1, <1>2, <2>2, <2>4, <2>5, <2>6 DEF IInv, TypeOK
  <2>8. SlotsUnique'
    BY <2>2, <2>5, <2>6 DEF IInv, SlotsUnique
  <2> QED
    BY <1>1, <2>7, <2>8 DEF IInv
<1> QED
  BY <1>3, <1>4, UpdateChangesOneValue

LEMMA NextKeepsIInv == IInv /\ [Next]_vars => IInv'
<1> SUFFICES ASSUME IInv, [Next]_vars PROVE IInv'
  OBVIOUS
<1>1. CASE UNCHANGED vars
  BY <1>1 DEF vars, IInv, TypeOK, SlotsUnique, FoundIsOwn, Working
<1>2. ASSUME NEW r \in Requests, Handle(r) PROVE IInv'
  <2>1. ASSUME NEW slot \in Slots, Receive(r, slot) PROVE IInv'
    BY <2>1, ReceiveKeepsIInv
  <2>2. CASE Select(r)
    BY <2>2, SelectKeepsIInv
  <2>3. CASE ReadProbe(r)
    BY <2>3, ProbesKeepIInv
  <2>4. CASE WriteProbe(r)
    BY <2>4, ProbesKeepIInv
  <2>5. CASE Insert(r)
    BY <2>5, InsertKeepsIInv
  <2>6. CASE Delete(r)
    BY <2>6, DeleteKeepsIInv
  <2>7. CASE Update(r)
    BY <2>7, UpdateKeepsIInv
  <2>8. CASE Fails(r)
    BY <2>8, AnswerKeepsIInv DEF Fails
  <2> QED
    BY <1>2, <2>1, <2>2, <2>3, <2>4, <2>5, <2>6, <2>7, <2>8 DEF Handle
<1> QED
  BY <1>1, <1>2 DEF Next

LEMMA SpecIInv == Spec => []IInv
BY InitIInv, NextKeepsIInv, PTL DEF Spec

-----------------------------------------------------------------------------
(* The theorems *)

(* Whatever requests overlap, the tables and the handlers keep their       *)
(* shapes, and no two rows of a table share an id although SQLite hands    *)
(* out the ids of deleted rows again.                                      *)
THEOREM TypeCorrect == Spec => []TypeOK
BY SpecIInv, PTL DEF IInv

(* Handlers that read first and write later implement the tables that the  *)
(* polling loops rely on, in which each change is one step of one slot.    *)
THEOREM Refinement == Spec => ImplementsUniqueRows
<1>1. Init => Table!Init
  BY DEF Init, Table!Init
<1>2. IInv /\ [Next]_vars => [Table!Next]_rows
  <2> SUFFICES ASSUME IInv, [Next]_vars PROVE [Table!Next]_rows
    OBVIOUS
  <2>1. CASE UNCHANGED rows
    BY <2>1
  <2>2. ASSUME NEW r \in Requests, Insert(r) PROVE [Table!Next]_rows
    <3>1. CASE Found(request[r].slot) # {}
      BY <2>2, <3>1, <2>1 DEF Insert
    <3>2. CASE Found(request[r].slot) = {}
      <4> DEFINE new == NewRow(r)
      <4>1. request[r] \in Requesting
        BY <2>2, WorkingType DEF Insert
      <4>2. new \in Rows
        BY <2>2, <4>1, NewRowIsNew DEF Insert
      <4>3. rows' = rows \cup {new}
        BY <2>2, <3>2 DEF Insert
      <4>4. new.slot = request[r].slot
        BY DEF NewRow
      <4>5. \A c \in rows : c.slot # new.slot
        BY <3>2, <4>4 DEF Found
      <4> HIDE DEF new
      <4>6. new = [slot |-> new.slot, id |-> new.id, value |-> new.value]
        BY <4>2 DEF Rows
      <4>7. Table!Insert(new.slot, new.id, new.value)
        BY <4>3, <4>5, <4>6 DEF Table!Insert
      <4> QED
        BY <4>2, <4>7 DEF Table!Next, Rows
    <3> QED
      BY <3>1, <3>2
  <2>3. ASSUME NEW r \in Requests, Delete(r) PROVE [Table!Next]_rows
    <3>1. \A x, y \in Reached(r) : x = y
      BY <2>3, WorkingType, ReachesOneRow DEF Delete
    <3>2. rows' = rows \ Reached(r)
      BY <2>3 DEF Delete
    <3>3. CASE Reached(r) = {}
      BY <3>2, <3>3, <2>1
    <3>4. CASE Reached(r) # {}
      <4>1. PICK x \in rows : rows' = rows \ {x}
        BY <3>1, <3>2, <3>4 DEF Reached
      <4>2. x.slot \in Slots
        BY DEF IInv, TypeOK, Rows
      <4>3. \A row \in rows : row \in rows' <=> row.slot # x.slot
        BY <4>1 DEF IInv, SlotsUnique
      <4>4. rows' = {c \in rows : c.slot # x.slot}
        BY <4>1, <4>3
      <4> QED
        BY <4>2, <4>4 DEF Table!Next, Table!Delete
    <3> QED
      BY <3>3, <3>4
  <2>4. ASSUME NEW r \in Requests, Update(r) PROVE [Table!Next]_rows
    <3>1. CASE rows' = rows
      BY <3>1, <2>1
    <3>2. CASE \E x \in Reached(r) :
                 rows' = (rows \ {x}) \cup {[x EXCEPT !.value = request[r].value]}
      <4>1. PICK x \in Reached(r) :
                 rows' = (rows \ {x}) \cup {[x EXCEPT !.value = request[r].value]}
        BY <3>2
      <4> DEFINE value == request[r].value
                 new == [x EXCEPT !.value = value]
      <4>2. value \in Values
        BY <2>4, WorkingType DEF Update, Requesting
      <4>3. x \in rows /\ x \in Rows
        BY DEF Reached, IInv, TypeOK
      <4>4. new = [slot |-> x.slot, id |-> x.id, value |-> value] /\ x.slot \in Slots
        BY <4>3 DEF Rows
      <4>5. rows' = (rows \ {x}) \cup {new}
        BY <4>1
      <4> HIDE DEF new, value
      <4>6. \A row \in rows : row # x <=> row.slot # x.slot
        BY <4>3 DEF IInv, SlotsUnique
      <4>7. rows' = {c \in rows : c.slot # x.slot} \cup {new}
        BY <4>5, <4>6
      <4>8. Table!Update(x.slot, value)
        BY <4>3, <4>4, <4>7 DEF Table!Update
      <4> QED
        BY <4>2, <4>4, <4>8 DEF Table!Next
    <3> QED
      BY <2>4, <3>1, <3>2, UpdateChangesOneValue
  <2> QED
    BY <2>1, <2>2, <2>3, <2>4
    DEF Next, Handle, Receive, Select, ReadProbe, WriteProbe, Fails, vars
<1> QED
  BY <1>1, <1>2, SpecIInv, PTL DEF Spec, ImplementsUniqueRows, Table!Spec

(* No DELETE or UPDATE by id hits a row of another slot, unless the row    *)
(* that the handler read has been deleted or updated since.                *)
THEOREM OnlyItsOwnRowChanges == Spec => OnlyItsOwnRow
<1> DEFINE A == \A row \in rows \ rows' : \E r \in Requests :
                   /\ request[r].pc \in {"delete", "update"} /\ request'[r] = Idle
                   /\ \/ row.slot = request[r].slot
                      \/ request[r].found \cap rows = {}
<1>1. IInv /\ [Next]_vars => [A]_vars
  <2> SUFFICES ASSUME IInv, Next PROVE A
    OBVIOUS
  <2>1. CASE rows \subseteq rows'
    BY <2>1
  <2>2. ASSUME NEW r \in Requests, Delete(r) \/ Update(r) PROVE A
    <3>1. request[r] \in Requesting /\ Working(r)
          /\ request \in [Requests -> {Idle} \cup Requesting]
      BY <2>2, WorkingType DEF Delete, Update
    <3>2. request[r].pc \in {"delete", "update"} /\ request'[r] = Idle
      BY <2>2, <3>1 DEF Delete, Update, Answer
    <3>3. rows \ rows' \subseteq Reached(r)
      BY <2>2, UpdateChangesOneValue DEF Delete
    <3>4. ASSUME NEW row \in Reached(r), NEW g \in request[r].found \cap rows
          PROVE  row.slot = request[r].slot
      <4>1. PICK f \in request[r].found : row.id = f.id /\ row.slot.table = f.slot.table
        BY DEF Reached
      <4>2. f = g /\ g.slot = request[r].slot
        BY <3>1 DEF IInv, FoundIsOwn
      <4>3. row = g
        BY <4>1, <4>2 DEF Reached, IInv, TypeOK
      <4> QED
        BY <4>2, <4>3
    <3> QED
      BY <3>2, <3>3, <3>4
  <2>3. ASSUME NEW r \in Requests, Insert(r) PROVE A
    BY <2>3, <2>1 DEF Insert
  <2> QED
    BY <2>1, <2>2, <2>3
    DEF Next, Handle, Receive, Select, ReadProbe, WriteProbe, Fails
<1> QED
  BY <1>1, SpecIInv, PTL DEF Spec, OnlyItsOwnRow
===============================================================================
