--------------------------- MODULE LinearSync_proofs ---------------------------
(***************************************************************************)
(* Proofs about LinearSync: for any documents, names and numbers of        *)
(* commands that die, what init and sync leave in Linear and in the file.  *)
(***************************************************************************)
EXTENDS LinearSync, SequenceTheorems, FiniteSetTheorems, TLAPS

-----------------------------------------------------------------------------
(* The inductive invariant *)

TitlesOf(d) == Elements(d.epics) \cup Elements(d.stories) \cup Elements(Sections(d))
Titles ==
    UNION ({Elements(Wanted[kind]) : kind \in DOMAIN Wanted}
           \cup {TitlesOf(d) : d \in Documents})
Lists ==
    {<< >>} \cup {Wanted[kind] : kind \in DOMAIN Wanted}
    \cup (UNION {{d.epics, d.stories, Sections(d)} : d \in Documents})
Objects == [kind : AllKinds, name : Titles, parent : Nat, state : Nat]
EntrySet == [key : AllKinds, name : Titles \cup {"count"}, id : Nat]
Commands == [cmd : {"init", "sync"}, at : Nat, todo : Lists, memory : SUBSET EntrySet]

Shapes ==
    /\ objects \in Seq(Objects)
    /\ relations \subseteq (DOMAIN objects) \X (DOMAIN objects)
    /\ file \subseteq EntrySet
    /\ torn \in BOOLEAN
    /\ document \in Documents
    /\ losses \in 0 .. MaxLosses
    /\ run \in Commands \cup {NoCommand}
    /\ run # NoCommand => run.at \in DOMAIN Kinds(run.cmd)

(* What the state dict of a command, or the file between two, holds. *)
Known == IF run = NoCommand THEN file ELSE run.memory

(* An entry has the id of an object of its kind and name. *)
Linked(objs, map) ==
    \A e \in map : e.key # "relations_created" =>
        /\ e.id \in DOMAIN objs
        /\ objs[e.id].kind = e.key
        /\ objs[e.id].name = e.name

(* The issues of a map hang together, as in TrackedTree. *)
Tree(objs, map) ==
    \A e \in map :
        /\ e.key = "stories" => objs[e.id].parent \in Ids(map, "epics", EpicOf[e.name])
        /\ e.key = "qa_issues" /\ objs[e.id].parent # None =>
              \E s \in map : s.key = "stories" /\ s.id = objs[e.id].parent

Links ==
    /\ Linked(objects, file) /\ Tree(objects, file)
    /\ run # NoCommand => Linked(objects, run.memory) /\ Tree(objects, run.memory)

(* Parents and states are objects. *)
Refers(objs) ==
    \A i \in DOMAIN objs :
        /\ objs[i].parent \in {None} \cup DOMAIN objs
        /\ objs[i].state # None =>
              /\ objs[i].state \in DOMAIN objs
              /\ objs[objs[i].state].kind = "states"

(* A command forgets nothing of the file. *)
FileKept == run # NoCommand => file \subseteq run.memory

(* init creates only after it has taken over what Linear has of the kind.  *)
LinearAsked ==
    run.cmd = "init" /\ run.todo # << >> =>
        \A i \in DOMAIN objects :
            objects[i].kind = Kind => objects[i].name \in Names(run.memory, Kind)

(* What init makes has one of the names it wants. *)
Named ==
    /\ \A i \in DOMAIN objects :
          objects[i].kind \in KindsOf("init") => objects[i].name \in Elements(Wanted[objects[i].kind])
    /\ run.cmd = "init" => Elements(run.todo) \subseteq Elements(Wanted[Kind])

(* sync works on the documents it has read, kind after kind. *)
Worked ==
    run.cmd = "sync" =>
        /\ run.todo = SyncList(Kind)
        /\ run.at >= 2 => Elements(document.epics) \subseteq Names(run.memory, "epics")
        /\ run.at >= 3 => Elements(document.stories) \subseteq Names(run.memory, "stories")
        /\ run.at >= 4 => Elements(Sections(document)) \subseteq Names(run.memory, "qa_issues")

(* An issue that the map does not hold has no more copies than commands    *)
(* have died.                                                              *)
CopiesOf(objs, kind, name) ==
    {j \in DOMAIN objs : objs[j].kind = kind /\ objs[j].name = name}
CopiesCounted ==
    \A kind \in KindsOf("sync"), name \in Titles :
        Cardinality(CopiesOf(objects, kind, name))
            <= losses + (IF name \in Names(Known, kind) THEN 1 ELSE 0)

(* What all the others need. *)
Base ==
    /\ Shapes
    /\ Links
    /\ Refers(objects)
    /\ FileKept
    /\ Worked

IInv ==
    /\ Base
    /\ Named
    /\ LinearAsked
    /\ InitIsIdempotent
    /\ CopiesCounted

-----------------------------------------------------------------------------
(* Kinds, entries and objects *)

LEMMA KindFacts ==
    /\ DOMAIN Kinds("init") = 1 .. 5
    /\ DOMAIN Kinds("sync") = 1 .. 4
    /\ KindsOf("init") = {"team", "states", "labels", "project", "cycles"}
    /\ KindsOf("sync") = {"epics", "stories", "qa_issues", "relations_created"}
    /\ \A at \in 1 .. 5 : Kinds("init")[at] \in KindsOf("init")
    /\ Kinds("sync")[1] = "epics"
    /\ Kinds("sync")[2] = "stories"
    /\ Kinds("sync")[3] = "qa_issues"
    /\ Kinds("sync")[4] = "relations_created"
    /\ AllKinds = KindsOf("init") \cup KindsOf("sync")
    /\ DOMAIN Wanted = KindsOf("init")
<1>1. /\ Kinds("init") = <<"team", "states", "labels", "project", "cycles">>
      /\ Kinds("sync") = <<"epics", "stories", "qa_issues", "relations_created">>
      /\ InitKinds = Kinds("init")
  BY DEF Kinds, InitKinds, SyncKinds
<1>2. DOMAIN Kinds("init") = 1 .. 5 /\ DOMAIN Kinds("sync") = 1 .. 4
  BY <1>1
<1>3. \A at \in 1 .. 5 : at = 1 \/ at = 2 \/ at = 3 \/ at = 4 \/ at = 5
  OBVIOUS
<1>4. \A at \in 1 .. 4 : at = 1 \/ at = 2 \/ at = 3 \/ at = 4
  OBVIOUS
<1>5. 1 \in 1 .. 5 /\ 2 \in 1 .. 5 /\ 3 \in 1 .. 5 /\ 4 \in 1 .. 5 /\ 5 \in 1 .. 5
  OBVIOUS
<1>6. 1 \in 1 .. 4 /\ 2 \in 1 .. 4 /\ 3 \in 1 .. 4 /\ 4 \in 1 .. 4
  OBVIOUS
<1>7. KindsOf("init") = {"team", "states", "labels", "project", "cycles"}
  BY <1>1, <1>2, <1>3, <1>5 DEF KindsOf
<1>8. KindsOf("sync") = {"epics", "stories", "qa_issues", "relations_created"}
  BY <1>1, <1>2, <1>4, <1>6 DEF KindsOf
<1>9. \A at \in 1 .. 5 : Kinds("init")[at] \in KindsOf("init")
  BY <1>2 DEF KindsOf
<1>10. DOMAIN Wanted = KindsOf("init")
  BY <1>1, SyncAssumption DEF SyncAssumption, KindsOf
<1> QED
  BY <1>1, <1>2, <1>7, <1>8, <1>9, <1>10 DEF AllKinds

LEMMA RunFacts ==
    ASSUME Shapes
    PROVE  /\ run.cmd = "none" <=> run = NoCommand
           /\ run # NoCommand =>
                /\ run \in Commands
                /\ run.cmd \in {"init", "sync"}
                /\ Kind \in KindsOf(run.cmd) /\ Kind \in AllKinds
                /\ run.memory \subseteq EntrySet
                /\ run.cmd = "init" => run.at \in 1 .. 5
                /\ run.cmd = "sync" => run.at \in 1 .. 4
<1>1. NoCommand.cmd = "none"
  BY DEF NoCommand
<1>2. CASE run = NoCommand
  BY <1>1, <1>2
<1>3. CASE run # NoCommand
  <2>1. run \in Commands /\ run.at \in DOMAIN Kinds(run.cmd)
    BY <1>3 DEF Shapes
  <2>2. run.cmd \in {"init", "sync"} /\ run.memory \subseteq EntrySet
    BY <2>1 DEF Commands
  <2>3. Kind \in KindsOf(run.cmd)
    BY <2>1 DEF Kind, KindsOf
  <2>4. Kind \in AllKinds
    BY <2>2, <2>3, KindFacts
  <2> QED
    BY <1>1, <2>1, <2>2, <2>3, <2>4, KindFacts
<1> QED
  BY <1>2, <1>3

LEMMA Appended ==
    ASSUME NEW S, NEW objs \in Seq(S), NEW o \in S, NEW new, new = Append(objs, o)
    PROVE  /\ new \in Seq(S)
           /\ Len(objs) + 1 \in Nat \ {0}
           /\ Len(objs) + 1 \notin DOMAIN objs
           /\ DOMAIN new = DOMAIN objs \cup {Len(objs) + 1}
           /\ new[Len(objs) + 1] = o
           /\ \A i \in DOMAIN objs : new[i] = objs[i]
<1>1. /\ Len(objs) \in Nat /\ DOMAIN objs = 1 .. Len(objs)
      /\ new \in Seq(S) /\ Len(new) = Len(objs) + 1
      /\ \A i \in 1 .. Len(objs) : new[i] = objs[i]
      /\ new[Len(objs) + 1] = o
  BY LenProperties, AppendProperties
<1>2. DOMAIN new = 1 .. Len(new)
  BY <1>1, LenProperties
<1> QED
  BY <1>1, <1>2

(* Objects keep their ids, kinds, names and parents. *)
Kept(objs, new) ==
    \A i \in DOMAIN objs :
        /\ i \in DOMAIN new
        /\ new[i].kind = objs[i].kind
        /\ new[i].name = objs[i].name
        /\ new[i].parent = objs[i].parent

LEMMA LinksSurvive ==
    ASSUME NEW objs, NEW new, NEW map, Kept(objs, new), Linked(objs, map), Tree(objs, map)
    PROVE  Linked(new, map) /\ Tree(new, map)
<1>1. Linked(new, map)
  BY DEF Kept, Linked
<1>2. \A e \in map : e.key \in {"stories", "qa_issues"} =>
            new[e.id].parent = objs[e.id].parent
  BY DEF Kept, Linked
<1>3. Tree(new, map)
  BY <1>2 DEF Tree
<1> QED
  BY <1>1, <1>3

LEMMA IdsGrow ==
    \A map, more, key, name :
        map \subseteq more => /\ Ids(map, key, name) \subseteq Ids(more, key, name)
                              /\ Names(map, key) \subseteq Names(more, key)
BY DEF Ids, Names

(* A map stays linked when linked entries come to it. *)
LEMMA LinksGrow ==
    ASSUME NEW objs, NEW map, NEW found,
           Linked(objs, map), Tree(objs, map), Linked(objs, found),
           \A e \in found :
               /\ e.key = "stories" =>
                     objs[e.id].parent \in Ids(map, "epics", EpicOf[e.name])
               /\ e.key = "qa_issues" /\ objs[e.id].parent # None =>
                     \E s \in map : s.key = "stories" /\ s.id = objs[e.id].parent
    PROVE  Linked(objs, map \cup found) /\ Tree(objs, map \cup found)
<1>1. Linked(objs, map \cup found)
  BY DEF Linked
<1>2. map \subseteq map \cup found
  OBVIOUS
<1>3. \A key, name : Ids(map, key, name) \subseteq Ids(map \cup found, key, name)
  BY <1>2, IdsGrow
<1>4. Tree(objs, map \cup found)
  BY <1>3 DEF Tree
<1> QED
  BY <1>1, <1>4

(* Only with an id that is linked can Ids point at something. *)
LEMMA IdsLinked ==
    ASSUME NEW objs, NEW map, Linked(objs, map), NEW key, key # "relations_created",
           NEW name, NEW id \in Ids(map, key, name)
    PROVE  id \in DOMAIN objs /\ objs[id].kind = key /\ objs[id].name = name
BY DEF Ids, Linked

-----------------------------------------------------------------------------
(* What the steps of the commands do *)

LEMMA ListElements ==
    ASSUME document \in Documents
    PROVE  /\ Elements(<< >>) = {}
           /\ \A list \in Lists : Elements(list) \subseteq Titles
           /\ << >> \in Lists
           /\ \A kind : SyncList(kind) \in Lists
           /\ \A kind \in DOMAIN Wanted : Wanted[kind] \in Lists
<1>1. Elements(<< >>) = {}
  BY DEF Elements
<1>2. ASSUME NEW list \in Lists PROVE Elements(list) \subseteq Titles
  <2>1. CASE list = << >>
    BY <1>1, <2>1
  <2>2. CASE \E kind \in DOMAIN Wanted : list = Wanted[kind]
    BY <2>2 DEF Titles
  <2>3. ASSUME NEW d \in Documents, list \in {d.epics, d.stories, Sections(d)}
        PROVE  Elements(list) \subseteq Titles
    <3>1. Elements(list) \subseteq TitlesOf(d)
      BY <2>3 DEF TitlesOf
    <3>2. TitlesOf(d) \subseteq Titles
      BY DEF Titles
    <3> QED
      BY <3>1, <3>2
  <2> QED
    BY <1>2, <2>1, <2>2, <2>3 DEF Lists
<1>3. /\ << >> \in Lists
      /\ document.epics \in Lists
      /\ document.stories \in Lists
      /\ Sections(document) \in Lists
      /\ \A kind \in DOMAIN Wanted : Wanted[kind] \in Lists
  BY DEF Lists
<1>4. ASSUME NEW kind PROVE SyncList(kind) \in Lists
  BY <1>3 DEF SyncList
<1> QED
  BY <1>1, <1>2, <1>3, <1>4

LEMMA ExistingFacts ==
    ASSUME objects \in Seq(Objects), NEW kind \in KindsOf("init")
    PROVE  /\ Existing(kind) \subseteq EntrySet
           /\ \A e \in Existing(kind) : e.key = kind
           /\ Linked(objects, Existing(kind))
           /\ \A i \in DOMAIN objects :
                objects[i].kind = kind => objects[i].name \in Names(Existing(kind), kind)
<1>1. /\ DOMAIN objects \subseteq Nat
      /\ \A i \in DOMAIN objects : objects[i] \in Objects
  BY LenProperties, ElementOfSeq
<1>2. \A i \in DOMAIN objects : objects[i].name \in Titles
  BY <1>1 DEF Objects
<1>3. kind \in AllKinds
  BY KindFacts
<1>4. ASSUME NEW e \in Existing(kind)
      PROVE  e \in EntrySet /\ e.key = kind
  <2>1. PICK i \in DOMAIN objects : e = Entry(kind, objects[i].name, i)
    BY DEF Existing
  <2> QED
    BY <1>1, <1>2, <1>3, <2>1 DEF Entry, EntrySet
<1>5. Linked(objects, Existing(kind))
  BY DEF Existing, Entry, Linked
<1>6. ASSUME NEW i \in DOMAIN objects, objects[i].kind = kind
      PROVE  objects[i].name \in Names(Existing(kind), kind)
  <2>1. Entry(kind, objects[i].name, i) \in Existing(kind)
    BY <1>6 DEF Existing
  <2> QED
    BY <2>1 DEF Names, Entry
<1> QED
  BY <1>4, <1>5, <1>6

(* What init made once for each name it wants is on the one page.          *)
LEMMA PageIsWhole ==
    ASSUME objects \in Seq(Objects), Named, InitIsIdempotent, NEW kind \in KindsOf("init")
    PROVE  Pages(kind) = {Existing(kind)}
<1> DEFINE list   == Wanted[kind]
           places == {i \in DOMAIN objects : objects[i].kind = kind}
           place  == [e \in Existing(kind) |-> CHOOSE n \in 1 .. Len(list) : list[n] = e.name]
<1>1. kind \in DOMAIN Wanted /\ PageSize \in Nat /\ Len(list) <= PageSize /\ Len(list) \in Nat
           /\ DOMAIN list = 1 .. Len(list)
  BY KindFacts, SyncAssumption DEF SyncAssumption
<1>2. ASSUME NEW e \in Existing(kind)
      PROVE  \E n \in 1 .. Len(list) : list[n] = e.name
  <2>1. PICK i \in places : e = Entry(kind, objects[i].name, i)
    BY DEF Existing
  <2>2. e.name = objects[i].name
    BY <2>1 DEF Entry
  <2>3. objects[i].name \in Elements(list)
    BY <2>1 DEF Named
  <2> QED
    BY <1>1, <2>2, <2>3 DEF Elements
<1>3. ASSUME NEW e \in Existing(kind)
      PROVE  place[e] \in 1 .. Len(list) /\ list[place[e]] = e.name
  BY <1>2
<1>4. ASSUME NEW e \in Existing(kind), NEW f \in Existing(kind), e.name = f.name
      PROVE  e = f
  <2>1. PICK i \in places : e = Entry(kind, objects[i].name, i)
    BY DEF Existing
  <2>2. PICK j \in places : f = Entry(kind, objects[j].name, j)
    BY DEF Existing
  <2>3. objects[i].name = objects[j].name
    BY <1>4, <2>1, <2>2 DEF Entry
  <2>4. i = j
    BY <2>1, <2>2, <2>3 DEF InitIsIdempotent
  <2> QED
    BY <2>1, <2>2, <2>4
<1>5. place \in Injection(Existing(kind), 1 .. Len(list))
  <2>1. place \in [Existing(kind) -> 1 .. Len(list)]
    BY <1>3
  <2>2. ASSUME NEW e \in Existing(kind), NEW f \in Existing(kind), place[e] = place[f]
        PROVE  e = f
    <3>1. e.name = f.name
      BY <1>3, <2>2
    <3> QED
      BY <1>4, <3>1
  <2> HIDE DEF place
  <2> QED
    BY <2>1, <2>2 DEF Injection, IsInjective
<1>6. IsFiniteSet(1 .. Len(list)) /\ Cardinality(1 .. Len(list)) = Len(list)
  <2> DEFINE length == Len(list)
  <2>1. length \in Nat /\ 1 \in Int /\ length \in Int
    BY <1>1
  <2> HIDE DEF length
  <2>2. /\ IsFiniteSet(1 .. length)
        /\ Cardinality(1 .. length) = IF 1 > length THEN 0 ELSE length - 1 + 1
    BY <2>1, FS_Interval
  <2>3. Cardinality(1 .. length) = length
    BY <2>1, <2>2
  <2> QED
    BY <2>2, <2>3 DEF length
<1> HIDE DEF place, list
<1>7. IsFiniteSet(Existing(kind)) /\ Cardinality(Existing(kind)) <= Len(list)
  BY <1>5, <1>6, FS_Injection
<1>8. Cardinality(Existing(kind)) \in Nat
  BY <1>7, FS_CardinalityType
<1>9. Cardinality(Existing(kind)) <= PageSize
  BY <1>1, <1>7, <1>8
<1> QED
  BY <1>9 DEF Pages

(* A command comes to a kind. *)
LEMMA EnterEffect ==
    ASSUME Shapes, NEW cmd \in {"init", "sync"}, NEW at \in DOMAIN Kinds(cmd),
           NEW memory \in SUBSET EntrySet, Linked(objects, memory), Tree(objects, memory),
           Enter(cmd, at, memory)
    PROVE  /\ run' \in Commands /\ run' # NoCommand
           /\ run'.cmd = cmd /\ run'.at = at
           /\ memory \subseteq run'.memory
           /\ Linked(objects, run'.memory) /\ Tree(objects, run'.memory)
           /\ \A kind \in KindsOf("sync") : Names(run'.memory, kind) = Names(memory, kind)
           /\ cmd = "sync" => run'.todo = SyncList(Kinds(cmd)[at]) /\ run'.memory = memory
           /\ cmd = "init" => run'.todo \in {<< >>, Wanted[Kinds(cmd)[at]]}
           /\ cmd = "init" /\ run'.todo # << >> /\ Named /\ InitIsIdempotent =>
                \A i \in DOMAIN objects : objects[i].kind = Kinds(cmd)[at] =>
                    objects[i].name \in Names(run'.memory, Kinds(cmd)[at])
<1> DEFINE kind  == Kinds(cmd)[at]
           list  == IF cmd = "sync" THEN SyncList(kind)
                    ELSE IF Has(memory, kind) THEN << >> ELSE Wanted[kind]
<1>1. objects \in Seq(Objects) /\ document \in Documents
  BY DEF Shapes
<1>2. /\ at \in Nat
      /\ cmd = "init" => kind \in KindsOf("init") /\ kind \in DOMAIN Wanted
  BY KindFacts
<1>3. PICK found \in IF cmd = "init" /\ ~Has(memory, kind) THEN Pages(kind) ELSE {{}} :
         run' = [cmd |-> cmd, at |-> at, memory |-> memory \cup found, todo |-> list]
  BY DEF Enter
<1>4. list \in Lists
  <2>1. CASE cmd = "sync"
    BY <1>1, <2>1, ListElements
  <2>2. CASE cmd = "init"
    BY <1>1, <1>2, <2>2, ListElements
  <2> QED
    BY <2>1, <2>2
<1>5. /\ found \subseteq EntrySet
      /\ \A e \in found : e.key \in KindsOf("init")
      /\ Linked(objects, found)
  <2>1. CASE found = {}
    BY <2>1 DEF Linked
  <2>2. CASE cmd = "init" /\ found \subseteq Existing(kind)
    BY <1>1, <1>2, <2>2, ExistingFacts DEF Linked
  <2> QED
    BY <1>3, <2>1, <2>2 DEF Pages
<1>6. ASSUME cmd = "sync" PROVE list = SyncList(kind) /\ found = {}
  <2>1. list = SyncList(kind)
    BY <1>6
  <2>2. found = {}
    BY <1>3, <1>6
  <2> QED
    BY <2>1, <2>2
<1>7. cmd = "init" /\ list # << >> /\ Named /\ InitIsIdempotent =>
          \A i \in DOMAIN objects : objects[i].kind = kind =>
              objects[i].name \in Names(found, kind)
  <2> SUFFICES ASSUME cmd = "init", list # << >>, Named, InitIsIdempotent
               PROVE  \A i \in DOMAIN objects : objects[i].kind = kind =>
                          objects[i].name \in Names(found, kind)
    OBVIOUS
  <2>1. found = Existing(kind)
    BY <1>1, <1>2, <1>3, PageIsWhole
  <2> QED
    BY <1>1, <1>2, <2>1, ExistingFacts
<1>13. cmd = "init" => list \in {<< >>, Wanted[kind]}
  OBVIOUS
<1> HIDE DEF list
<1>8. /\ run' \in Commands
      /\ run'.cmd = cmd /\ run'.at = at /\ run'.todo = list
      /\ run'.memory = memory \cup found
  BY <1>2, <1>3, <1>4, <1>5 DEF Commands
<1>9. run' # NoCommand
  BY <1>8 DEF NoCommand
<1>10. Linked(objects, run'.memory) /\ Tree(objects, run'.memory)
  BY <1>5, <1>8, KindFacts, LinksGrow
<1>11. \A k \in KindsOf("sync") : Names(run'.memory, k) = Names(memory, k)
  BY <1>5, <1>8, KindFacts DEF Names
<1>12. Names(found, kind) \subseteq Names(run'.memory, kind)
  BY <1>8 DEF Names
<1> QED
  BY <1>6, <1>7, <1>8, <1>9, <1>10, <1>11, <1>12, <1>13

(* What a create request adds, for the map of the command that sends it.   *)
Fits(o, objs, map, kind, name) ==
    /\ o \in Objects
    /\ o.kind = kind
    /\ o.name = name
    /\ o.parent \in {None} \cup DOMAIN objs
    /\ o.state # None => o.state \in DOMAIN objs /\ objs[o.state].kind = "states"
    /\ kind = "stories" => o.parent \in Ids(map, "epics", EpicOf[name])
    /\ kind = "qa_issues" /\ o.parent # None =>
          \E s \in map : s.key = "stories" /\ s.id = o.parent

(* sync comes to the kinds in their order. *)
LEMMA SyncAt ==
    ASSUME Shapes, run.cmd = "sync"
    PROVE  /\ run.at = 1 <=> Kind = "epics"
           /\ run.at = 2 <=> Kind = "stories"
           /\ run.at = 3 <=> Kind = "qa_issues"
           /\ run.at = 4 <=> Kind = "relations_created"
<1>1. run # NoCommand
  BY RunFacts
<1>2. run.at \in 1 .. 4
  BY <1>1, RunFacts
<1>3. run.at = 1 \/ run.at = 2 \/ run.at = 3 \/ run.at = 4
  BY <1>2
<1>4. Kind = Kinds("sync")[run.at]
  BY DEF Kind
<1> QED
  BY <1>3, <1>4, KindFacts

(* The epic of a story has an issue when the stories are created. *)
LEMMA EpicIsThere ==
    ASSUME Base, Kind = "stories", run # NoCommand, NEW name \in Elements(run.todo)
    PROVE  Ids(run.memory, "epics", EpicOf[name]) # {}
<1>1. Shapes /\ Worked
  BY DEF Base
<1>2. run.cmd = "sync"
  BY <1>1, RunFacts, KindFacts
<1>3. run.at = 2
  BY <1>1, <1>2, SyncAt
<1>4. /\ run.todo = SyncList(Kind)
      /\ Elements(document.epics) \subseteq Names(run.memory, "epics")
  BY <1>1, <1>2, <1>3 DEF Worked
<1>5. run.todo = document.stories
  BY <1>4 DEF SyncList
<1>6. PICK n \in DOMAIN document.stories : name = document.stories[n]
  BY <1>5 DEF Elements
<1>7. document \in Documents
  BY <1>1 DEF Shapes
<1>8. PICK m \in DOMAIN document.epics : EpicOf[name] = document.epics[m]
  BY <1>6, <1>7, SyncAssumption DEF SyncAssumption
<1>9. EpicOf[name] \in Names(run.memory, "epics")
  BY <1>4, <1>8 DEF Elements
<1> QED
  BY <1>9 DEF Names, Ids

LEMMA CreateEffect ==
    ASSUME Base, run # NoCommand, NEW name \in Elements(run.todo),
           Requested(name), Create(Kind, name)
    PROVE  /\ name \in Titles
           /\ name \notin Names(run.memory, Kind)
           /\ \E o : /\ Fits(o, objects, run.memory, Kind, name)
                     /\ objects' = Append(objects, o)
<1>1. Shapes /\ Links
  BY DEF Base
<1>2. /\ run \in Commands /\ Kind \in AllKinds /\ document \in Documents
      /\ objects \in Seq(Objects) /\ Linked(objects, run.memory)
  BY <1>1, RunFacts DEF Shapes, Links
<1>3. run.todo \in Lists
  BY <1>2 DEF Commands
<1>4. name \in Titles
  BY <1>2, <1>3, ListElements
<1>5. name \notin Names(run.memory, Kind)
  BY DEF Requested, Missing
<1>6. PICK parent, state :
         /\ parent \in IF Parents(Kind, name) = {} THEN {None} ELSE Parents(Kind, name)
         /\ state \in IF Ids(run.memory, "states", "Backlog") = {} \/ run.cmd = "init"
                      THEN {None} ELSE Ids(run.memory, "states", "Backlog")
         /\ objects' = Append(objects, Object(Kind, name, parent, state))
  BY DEF Create
<1>7. DOMAIN objects \subseteq Nat
  BY <1>2, LenProperties
<1>8. state # None => state \in DOMAIN objects /\ objects[state].kind = "states"
  <2>1. state # None => state \in Ids(run.memory, "states", "Backlog")
    BY <1>6
  <2> QED
    BY <1>2, <2>1, IdsLinked
<1>9. Kind = "stories" => parent \in Ids(run.memory, "epics", EpicOf[name])
  BY <1>6, EpicIsThere DEF Parents
<1>10. Kind = "qa_issues" /\ parent # None =>
          \E s \in run.memory : s.key = "stories" /\ s.id = parent
  <2> SUFFICES ASSUME Kind = "qa_issues", parent # None
               PROVE  \E s \in run.memory : s.key = "stories" /\ s.id = parent
    OBVIOUS
  <2>1. parent \in Parents(Kind, name)
    BY <1>6
  <2>2. PICK t : parent \in Ids(run.memory, "stories", t)
    BY <2>1 DEF Parents
  <2> QED
    BY <2>2 DEF Ids
<1>11. parent \in {None} \cup DOMAIN objects
  <2>1. CASE Kind = "stories"
    BY <1>2, <1>9, <2>1, IdsLinked
  <2>2. CASE Kind = "qa_issues"
    BY <1>2, <1>10, <2>2 DEF Linked
  <2>3. CASE Kind # "stories" /\ Kind # "qa_issues"
    BY <1>6, <2>3 DEF Parents
  <2> QED
    BY <2>1, <2>2, <2>3
<1>12. parent \in Nat /\ state \in Nat
  BY <1>7, <1>8, <1>11 DEF None
<1>13. Fits(Object(Kind, name, parent, state), objects, run.memory, Kind, name)
  BY <1>2, <1>4, <1>8, <1>9, <1>10, <1>11, <1>12 DEF Fits, Object, Objects
<1> QED
  BY <1>4, <1>5, <1>6, <1>13

LEMMA AddedEffect ==
    ASSUME NEW objs \in Seq(Objects), Refers(objs), NEW map, NEW kind, NEW name,
           NEW o, Fits(o, objs, map, kind, name), NEW new, new = Append(objs, o)
    PROVE  /\ new \in Seq(Objects)
           /\ DOMAIN objs \subseteq DOMAIN new
           /\ Kept(objs, new)
           /\ Refers(new)
           /\ Len(objs) + 1 \in Nat \ {0}
           /\ Len(objs) + 1 \notin DOMAIN objs
           /\ DOMAIN new = DOMAIN objs \cup {Len(objs) + 1}
           /\ Linked(new, {Entry(kind, name, Len(objs) + 1)})
           /\ new[Len(objs) + 1] = o
<1> DEFINE id == Len(objs) + 1
<1>1. o \in Objects
  BY DEF Fits
<1>2. /\ new \in Seq(Objects)
      /\ id \in Nat \ {0} /\ id \notin DOMAIN objs
      /\ DOMAIN new = DOMAIN objs \cup {id}
      /\ new[id] = o
      /\ \A i \in DOMAIN objs : new[i] = objs[i]
  BY <1>1, Appended
<1> HIDE DEF id
<1>3. Kept(objs, new)
  BY <1>2 DEF Kept
<1>4. Refers(new)
  <2>1. ASSUME NEW i \in DOMAIN objs
        PROVE  /\ new[i].parent \in {None} \cup DOMAIN new
               /\ new[i].state # None =>
                     new[i].state \in DOMAIN new /\ new[new[i].state].kind = "states"
    BY <1>2 DEF Refers
  <2>2. /\ o.parent \in {None} \cup DOMAIN new
        /\ o.state # None => o.state \in DOMAIN new /\ new[o.state].kind = "states"
    BY <1>2 DEF Fits
  <2> QED
    BY <1>2, <2>1, <2>2 DEF Refers
<1>5. Linked(new, {Entry(kind, name, id)})
  BY <1>2 DEF Fits, Linked, Entry
<1> QED
  BY <1>2, <1>3, <1>4, <1>5 DEF id

-----------------------------------------------------------------------------
(* The base is kept: a command starts *)

LEMMA EnterKeepsBase ==
    ASSUME Base, NEW cmd \in {"init", "sync"}, NEW at \in DOMAIN Kinds(cmd),
           NEW memory \in SUBSET EntrySet, Linked(objects, memory), Tree(objects, memory),
           file' = file \/ file' = memory, file \subseteq memory,
           cmd = "sync" =>
               /\ at >= 2 => Elements(document.epics) \subseteq Names(memory, "epics")
               /\ at >= 3 => Elements(document.stories) \subseteq Names(memory, "stories")
               /\ at >= 4 => Elements(Sections(document)) \subseteq Names(memory, "qa_issues"),
           Enter(cmd, at, memory),
           UNCHANGED <<objects, relations, torn, document, losses>>
    PROVE  Base'
<1>1. Shapes /\ Links /\ Refers(objects)
  BY DEF Base
<1>2. /\ run' \in Commands /\ run' # NoCommand
      /\ run'.cmd = cmd /\ run'.at = at
      /\ memory \subseteq run'.memory
      /\ Linked(objects, run'.memory) /\ Tree(objects, run'.memory)
      /\ cmd = "sync" => run'.todo = SyncList(Kinds(cmd)[at]) /\ run'.memory = memory
  BY <1>1, EnterEffect
<1>3. /\ objects' = objects /\ relations' = relations /\ torn' = torn
      /\ document' = document /\ losses' = losses
  OBVIOUS
<1>4. Shapes'
  BY <1>1, <1>2, <1>3 DEF Shapes
<1>5. Linked(objects, file') /\ Tree(objects, file')
  BY <1>1 DEF Links
<1>6. Links'
  BY <1>2, <1>3, <1>5 DEF Links
<1>7. Refers(objects)'
  BY <1>1, <1>3
<1>8. FileKept'
  BY <1>2 DEF FileKept
<1>9. Worked'
  <2> SUFFICES ASSUME cmd = "sync" PROVE Worked'
    BY <1>2 DEF Worked
  <2>1. run'.todo = SyncList(Kinds(cmd)[at])'
    BY <1>2, <1>3 DEF SyncList
  <2>2. Kind' = Kinds(cmd)[at]
    BY <1>2 DEF Kind
  <2>3. run'.todo = SyncList(Kind)'
    BY <1>2, <1>3, <2>2 DEF SyncList
  <2>4. /\ Elements(document.epics)' = Elements(document.epics)
        /\ Elements(document.stories)' = Elements(document.stories)
        /\ Elements(Sections(document))' = Elements(Sections(document))
    BY <1>3
  <2> QED
    BY <1>2, <2>3, <2>4 DEF Worked
<1> QED
  BY <1>4, <1>6, <1>7, <1>8, <1>9 DEF Base

LEMMA StartsKeepBase ==
    ASSUME Base, StartInit \/ StartSync
    PROVE  Base'
<1>1. /\ run = NoCommand
      /\ UNCHANGED <<objects, relations, file, torn, document, losses>>
  BY DEF StartInit, StartSync, Idle
<1>2. /\ file \in SUBSET EntrySet
      /\ Linked(objects, file) /\ Tree(objects, file)
  BY DEF Base, Shapes, Links
<1>3. 1 \in DOMAIN Kinds("init") /\ 1 \in DOMAIN Kinds("sync")
  BY KindFacts
<1>4. CASE Enter("init", 1, file)
  BY <1>1, <1>2, <1>3, <1>4, EnterKeepsBase
<1>5. CASE Enter("sync", 1, file)
  BY <1>1, <1>2, <1>3, <1>5, EnterKeepsBase
<1> QED
  BY <1>4, <1>5 DEF StartInit, StartSync

(* What is not missing is in the map. *)
LEMMA ReadyFacts ==
    ASSUME Base, Ready
    PROVE  /\ run # NoCommand
           /\ run.memory \in SUBSET EntrySet
           /\ Linked(objects, run.memory) /\ Tree(objects, run.memory)
           /\ file \subseteq run.memory
           /\ run.cmd = "sync" => Elements(SyncList(Kind)) \subseteq Names(run.memory, Kind)
<1>1. Shapes /\ Links /\ FileKept /\ Worked
  BY DEF Base
<1>2. run # NoCommand
  BY DEF Ready, NoCommand
<1>3. Elements(run.todo) \subseteq Names(run.memory, Kind)
  BY DEF Ready, Missing, Elements
<1> QED
  BY <1>1, <1>2, <1>3, RunFacts DEF Links, FileKept, Worked

LEMMA KindDoneKeepsBase ==
    ASSUME Base, KindDone
    PROVE  Base'
<1>1. Ready /\ ~Last /\ Shapes /\ Worked
  BY DEF KindDone, Base
<1>2. /\ run # NoCommand /\ run.cmd \in {"init", "sync"}
      /\ run.memory \in SUBSET EntrySet
      /\ Linked(objects, run.memory) /\ Tree(objects, run.memory)
      /\ file \subseteq run.memory
  BY <1>1, ReadyFacts, RunFacts
<1>3. run.at + 1 \in DOMAIN Kinds(run.cmd)
  <2>1. run.at \in DOMAIN Kinds(run.cmd)
    BY <1>1, <1>2 DEF Shapes
  <2>2. run.at # Len(Kinds(run.cmd))
    BY <1>1 DEF Last
  <2>3. Len(Kinds("init")) = 5 /\ Len(Kinds("sync")) = 4
    BY DEF Kinds, InitKinds, SyncKinds
  <2>4. DOMAIN Kinds("init") = 1 .. 5 /\ DOMAIN Kinds("sync") = 1 .. 4
    BY KindFacts
  <2>5. CASE run.cmd = "init"
    <3>1. run.at \in 1 .. 5 /\ run.at # 5
      BY <2>1, <2>2, <2>3, <2>4, <2>5
    <3>2. run.at + 1 \in 1 .. 5
      BY <3>1
    <3> QED
      BY <2>4, <2>5, <3>2
  <2>6. CASE run.cmd = "sync"
    <3>1. run.at \in 1 .. 4 /\ run.at # 4
      BY <2>1, <2>2, <2>3, <2>4, <2>6
    <3>2. run.at + 1 \in 1 .. 4
      BY <3>1
    <3> QED
      BY <2>4, <2>6, <3>2
  <2> QED
    BY <1>2, <2>5, <2>6
<1>4. ASSUME run.cmd = "sync"
      PROVE  /\ run.at + 1 >= 2 => Elements(document.epics) \subseteq Names(run.memory, "epics")
             /\ run.at + 1 >= 3 =>
                    Elements(document.stories) \subseteq Names(run.memory, "stories")
             /\ run.at + 1 >= 4 =>
                    Elements(Sections(document)) \subseteq Names(run.memory, "qa_issues")
  <2>1. Elements(SyncList(Kind)) \subseteq Names(run.memory, Kind)
    BY <1>1, <1>4, ReadyFacts
  <2>2. /\ run.at = 1 => Elements(document.epics) \subseteq Names(run.memory, "epics")
        /\ run.at = 2 => Elements(document.stories) \subseteq Names(run.memory, "stories")
        /\ run.at = 3 => Elements(Sections(document)) \subseteq Names(run.memory, "qa_issues")
    BY <1>1, <1>4, <2>1, SyncAt DEF SyncList
  <2>3. run.at \in 1 .. 4
    BY <1>1, <1>2, <1>4, RunFacts
  <2>4. /\ run.at >= 2 => Elements(document.epics) \subseteq Names(run.memory, "epics")
        /\ run.at >= 3 => Elements(document.stories) \subseteq Names(run.memory, "stories")
        /\ run.at >= 4 => Elements(Sections(document)) \subseteq Names(run.memory, "qa_issues")
    BY <1>1, <1>4 DEF Worked
  <2> QED
    BY <2>2, <2>3, <2>4
<1>5. /\ Enter(run.cmd, run.at + 1, run.memory)
      /\ UNCHANGED <<objects, relations, torn, document, losses>>
      /\ file' = file \/ file' = run.memory
  BY DEF KindDone
<1> QED
  BY <1>2, <1>3, <1>4, <1>5, EnterKeepsBase

-----------------------------------------------------------------------------
(* A command works *)

LEMMA CreatedKeepsBase ==
    ASSUME Base, Created
    PROVE  Base'
<1>1. Shapes /\ Links /\ Refers(objects) /\ FileKept /\ Worked
  BY DEF Base
<1>2. PICK name \in Elements(run.todo) :
         /\ Requested(name)
         /\ Create(Kind, name)
         /\ run' = [run EXCEPT !.memory = @ \cup {Entry(Kind, name, Len(objects) + 1)}]
  BY DEF Created
<1>3. run # NoCommand
  BY <1>2 DEF NoCommand, Elements
<1>4. /\ run \in Commands /\ Kind \in AllKinds /\ objects \in Seq(Objects)
      /\ run.at \in DOMAIN Kinds(run.cmd)
      /\ Linked(objects, run.memory) /\ Tree(objects, run.memory)
      /\ Linked(objects, file) /\ Tree(objects, file)
      /\ relations \subseteq (DOMAIN objects) \X (DOMAIN objects)
      /\ file \subseteq run.memory
  BY <1>1, <1>3, RunFacts DEF Shapes, Links, FileKept
<1>5. /\ name \in Titles
      /\ \E o : /\ Fits(o, objects, run.memory, Kind, name)
                /\ objects' = Append(objects, o)
  BY <1>2, <1>3, CreateEffect
<1>6. PICK o : /\ Fits(o, objects, run.memory, Kind, name)
               /\ objects' = Append(objects, o)
  BY <1>5
<1> DEFINE id    == Len(objects) + 1
           entry == Entry(Kind, name, id)
<1>7. /\ objects' \in Seq(Objects)
      /\ DOMAIN objects \subseteq DOMAIN objects'
      /\ Kept(objects, objects')
      /\ Refers(objects')
      /\ id \in Nat \ {0}
      /\ Linked(objects', {entry})
      /\ objects'[id] = o
  <2>1. objects \in Seq(Objects) /\ Refers(objects)
    BY <1>1, <1>4
  <2>2. Fits(o, objects, run.memory, Kind, name) /\ objects' = Append(objects, o)
    BY <1>6
  <2> HIDE DEF id, entry
  <2>3. /\ objects' \in Seq(Objects)
        /\ DOMAIN objects \subseteq DOMAIN objects'
        /\ Kept(objects, objects')
        /\ Refers(objects')
    BY <2>1, <2>2, AddedEffect
  <2>4. /\ Len(objects) + 1 \in Nat \ {0}
        /\ objects'[Len(objects) + 1] = o
    BY <2>1, <2>2, AddedEffect
  <2>5. Linked(objects', {Entry(Kind, name, Len(objects) + 1)})
    BY <2>1, <2>2, AddedEffect
  <2> QED
    BY <2>3, <2>4, <2>5 DEF id, entry
<1>8. /\ entry \in EntrySet
      /\ entry.key = Kind /\ entry.name = name /\ entry.id = id
  BY <1>4, <1>5, <1>7 DEF Entry, EntrySet
<1> HIDE DEF entry, id
<1>9. /\ run' \in Commands /\ run' # NoCommand
      /\ run'.cmd = run.cmd /\ run'.at = run.at /\ run'.todo = run.todo
      /\ run'.memory = run.memory \cup {entry}
  <2>1. run' = [run EXCEPT !.memory = @ \cup {entry}]
    BY <1>2 DEF entry, id
  <2>2. run'.memory \subseteq EntrySet /\ run'.cmd = run.cmd
    BY <1>4, <1>8, <2>1 DEF Commands
  <2> QED
    BY <1>4, <2>1, <2>2 DEF Commands, NoCommand
<1>10. UNCHANGED <<relations, file, torn, document, losses>>
  BY DEF Created
<1>11. Linked(objects', run.memory) /\ Tree(objects', run.memory)
  BY <1>4, <1>7, LinksSurvive
<1>12. Linked(objects', file) /\ Tree(objects', file)
  BY <1>4, <1>7, LinksSurvive
<1>13. Linked(objects', run'.memory) /\ Tree(objects', run'.memory)
  <2>1. /\ entry.key = "stories" =>
              objects'[entry.id].parent \in Ids(run.memory, "epics", EpicOf[entry.name])
        /\ entry.key = "qa_issues" /\ objects'[entry.id].parent # None =>
              \E s \in run.memory : s.key = "stories" /\ s.id = objects'[entry.id].parent
    BY <1>6, <1>7, <1>8 DEF Fits
  <2>2. \A e \in {entry} : e = entry
    OBVIOUS
  <2>3. /\ Linked(objects', run.memory \cup {entry})
        /\ Tree(objects', run.memory \cup {entry})
    BY <1>7, <1>11, <2>1, <2>2, LinksGrow
  <2> QED
    BY <1>9, <2>3
<1>14. Shapes'
  <2>1. relations' \subseteq (DOMAIN objects') \X (DOMAIN objects')
    BY <1>4, <1>7, <1>10
  <2> QED
    BY <1>1, <1>4, <1>7, <1>9, <1>10, <2>1 DEF Shapes
<1>15. Links'
  BY <1>9, <1>10, <1>12, <1>13 DEF Links
<1>16. Refers(objects)' /\ FileKept'
  BY <1>4, <1>7, <1>9, <1>10 DEF FileKept
<1>17. Worked'
  <2>1. SyncList(Kind)' = SyncList(Kind)
    BY <1>9, <1>10 DEF SyncList, Kind
  <2>2. \A kind : Names(run.memory, kind) \subseteq Names(run'.memory, kind)
    BY <1>9 DEF Names
  <2>3. /\ Elements(document.epics)' = Elements(document.epics)
        /\ Elements(document.stories)' = Elements(document.stories)
        /\ Elements(Sections(document))' = Elements(Sections(document))
    BY <1>10
  <2> QED
    BY <1>1, <1>9, <2>1, <2>2, <2>3 DEF Worked
<1> QED
  BY <1>14, <1>15, <1>16, <1>17 DEF Base

(* Dependencies are between issues. *)
LEMMA DependenciesAreIssues ==
    ASSUME NEW memory, Linked(objects, memory)
    PROVE  Dependencies(memory) \subseteq (DOMAIN objects) \X (DOMAIN objects)
<1>1. \A name : Ids(memory, "stories", name) \subseteq DOMAIN objects
  BY DEF Ids, Linked
<1>2. ASSUME NEW pair \in Dependencies(memory)
      PROVE  pair \in (DOMAIN objects) \X (DOMAIN objects)
  <2>1. PICK s : pair \in UNION {Ids(memory, "stories", d) \X Ids(memory, "stories", s) :
                                     d \in DependsOn[s]}
    BY DEF Dependencies
  <2>2. PICK d : pair \in Ids(memory, "stories", d) \X Ids(memory, "stories", s)
    BY <2>1
  <2> QED
    BY <1>1, <2>2
<1> QED
  BY <1>2

LEMMA RelationsCreatedKeepsBase ==
    ASSUME Base, RelationsCreated
    PROVE  Base'
<1>1. Shapes /\ Links /\ Refers(objects) /\ FileKept /\ Worked
  BY DEF Base
<1>2. /\ run.cmd = "sync" /\ Kind = "relations_created" /\ run # NoCommand
      /\ UNCHANGED <<objects, file, torn, document, losses>>
  BY DEF RelationsCreated, NoCommand
<1>3. /\ run \in Commands /\ Kind \in AllKinds
      /\ Linked(objects, run.memory) /\ Tree(objects, run.memory)
      /\ file \subseteq run.memory
      /\ relations \subseteq (DOMAIN objects) \X (DOMAIN objects)
  BY <1>1, <1>2, RunFacts DEF Links, FileKept, Shapes
<1> DEFINE entry == Entry(Kind, "count", None)
<1>4. entry \in EntrySet /\ entry.key = "relations_created"
  BY <1>2, <1>3 DEF Entry, EntrySet, None
<1>5. run' = [run EXCEPT !.memory = @ \cup {entry}]
  BY DEF RelationsCreated
<1> HIDE DEF entry
<1>6. /\ run' \in Commands /\ run' # NoCommand
      /\ run'.cmd = run.cmd /\ run'.at = run.at /\ run'.todo = run.todo
      /\ run'.memory = run.memory \cup {entry}
  <2>1. run'.memory \subseteq EntrySet /\ run'.cmd = run.cmd
    BY <1>3, <1>4, <1>5 DEF Commands
  <2> QED
    BY <1>3, <1>5, <2>1 DEF Commands, NoCommand
<1>7. Linked(objects, run'.memory) /\ Tree(objects, run'.memory)
  <2>1. Linked(objects, {entry})
    BY <1>4 DEF Linked
  <2> QED
    BY <1>3, <1>4, <1>6, <2>1, LinksGrow
<1>8. relations' \subseteq (DOMAIN objects) \X (DOMAIN objects)
  <2>1. PICK accepted \in SUBSET Dependencies(run.memory) : relations' = relations \cup accepted
    BY DEF RelationsCreated
  <2> QED
    BY <1>3, <2>1, DependenciesAreIssues
<1>9. Shapes'
  BY <1>1, <1>2, <1>6, <1>8 DEF Shapes
<1>10. Links'
  BY <1>1, <1>2, <1>6, <1>7 DEF Links
<1>11. Refers(objects)' /\ FileKept'
  BY <1>1, <1>2, <1>3, <1>6 DEF FileKept
<1>12. Worked'
  <2>1. SyncList(Kind)' = SyncList(Kind)
    BY <1>2, <1>6 DEF SyncList, Kind
  <2>2. \A kind : Names(run.memory, kind) \subseteq Names(run'.memory, kind)
    BY <1>6 DEF Names
  <2>3. /\ Elements(document.epics)' = Elements(document.epics)
        /\ Elements(document.stories)' = Elements(document.stories)
        /\ Elements(Sections(document))' = Elements(Sections(document))
    BY <1>2
  <2> QED
    BY <1>1, <1>6, <2>1, <2>2, <2>3 DEF Worked
<1> QED
  BY <1>9, <1>10, <1>11, <1>12 DEF Base

-----------------------------------------------------------------------------
(* A command ends, or dies *)

(* Whether its answer comes or not, a request that is applied has added    *)
(* one object of the name that the map did not hold.                       *)
LEMMA CreateGrows ==
    ASSUME Base, run # NoCommand, NEW name \in Elements(run.todo),
           Requested(name), Create(Kind, name)
    PROVE  /\ name \in Titles
           /\ name \notin Names(run.memory, Kind)
           /\ objects' \in Seq(Objects)
           /\ DOMAIN objects \subseteq DOMAIN objects'
           /\ Kept(objects, objects')
           /\ Refers(objects')
           /\ Len(objects) + 1 \notin DOMAIN objects
           /\ DOMAIN objects' = DOMAIN objects \cup {Len(objects) + 1}
           /\ objects'[Len(objects) + 1].kind = Kind
           /\ objects'[Len(objects) + 1].name = name
<1>1. /\ name \in Titles /\ name \notin Names(run.memory, Kind)
      /\ \E o : /\ Fits(o, objects, run.memory, Kind, name)
                /\ objects' = Append(objects, o)
  BY CreateEffect
<1>2. PICK o : /\ Fits(o, objects, run.memory, Kind, name)
               /\ objects' = Append(objects, o)
  BY <1>1
<1>3. objects \in Seq(Objects) /\ Refers(objects)
  BY DEF Base, Shapes
<1>4. /\ objects' \in Seq(Objects)
      /\ DOMAIN objects \subseteq DOMAIN objects'
      /\ Kept(objects, objects')
      /\ Refers(objects')
  BY <1>2, <1>3, AddedEffect
<1>5. /\ Len(objects) + 1 \notin DOMAIN objects
      /\ DOMAIN objects' = DOMAIN objects \cup {Len(objects) + 1}
      /\ objects'[Len(objects) + 1] = o
  BY <1>2, <1>3, AddedEffect
<1>6. o.kind = Kind /\ o.name = name
  BY <1>2 DEF Fits
<1> QED
  BY <1>1, <1>4, <1>5, <1>6

LEMMA CommandDoneKeepsBase ==
    ASSUME Base, CommandDone
    PROVE  Base'
<1>1. Shapes /\ Refers(objects)
  BY DEF Base
<1>2. /\ file' = run.memory /\ run' = NoCommand
      /\ UNCHANGED <<objects, relations, torn, document, losses>>
  BY DEF CommandDone
<1>3. /\ run.memory \in SUBSET EntrySet
      /\ Linked(objects, run.memory) /\ Tree(objects, run.memory)
  BY ReadyFacts DEF CommandDone
<1>4. Shapes'
  BY <1>1, <1>2, <1>3 DEF Shapes
<1>5. Links'
  BY <1>2, <1>3 DEF Links
<1>6. Refers(objects)' /\ FileKept'
  BY <1>1, <1>2 DEF FileKept
<1>7. Worked'
  BY <1>2 DEF Worked, NoCommand
<1> QED
  BY <1>4, <1>5, <1>6, <1>7 DEF Base

LEMMA DiesKeepsBase ==
    ASSUME Base, Dies
    PROVE  Base'
<1>1. /\ Shapes /\ Refers(objects)
      /\ Linked(objects, file) /\ Tree(objects, file)
      /\ objects \in Seq(Objects)
      /\ relations \subseteq (DOMAIN objects) \X (DOMAIN objects)
  BY DEF Base, Shapes, Links
<1>2. /\ run # NoCommand /\ losses < MaxLosses
      /\ run' = NoCommand /\ losses' = losses + 1
      /\ UNCHANGED <<file, torn, document>>
  BY DEF Dies, NoCommand
<1>3. losses' \in 0 .. MaxLosses
  BY <1>1, <1>2, SyncAssumption DEF Shapes, SyncAssumption
<1>4. /\ objects' \in Seq(Objects)
      /\ Kept(objects, objects')
      /\ Refers(objects')
      /\ relations' \subseteq (DOMAIN objects') \X (DOMAIN objects')
  <2>1. CASE UNCHANGED <<objects, relations>>
    BY <1>1, <2>1 DEF Kept
  <2>2. CASE /\ \E name \in Elements(run.todo) : Requested(name) /\ Create(Kind, name)
             /\ UNCHANGED relations
    <3>1. PICK name \in Elements(run.todo) : Requested(name) /\ Create(Kind, name)
      BY <2>2
    <3>2. /\ objects' \in Seq(Objects) /\ DOMAIN objects \subseteq DOMAIN objects'
          /\ Kept(objects, objects') /\ Refers(objects')
      BY <1>2, <3>1, CreateGrows
    <3> QED
      BY <1>1, <2>2, <3>2
  <2>3. CASE /\ \E applied \in SUBSET Dependencies(run.memory) :
                    relations' = relations \cup applied
             /\ UNCHANGED objects
    <3>1. Linked(objects, run.memory)
      BY <1>2 DEF Base, Links
    <3>2. Dependencies(run.memory) \subseteq (DOMAIN objects) \X (DOMAIN objects)
      BY <3>1, DependenciesAreIssues
    <3>3. Kept(objects, objects')
      BY <2>3 DEF Kept
    <3> QED
      BY <1>1, <2>3, <3>2, <3>3
  <2> QED
    BY <2>1, <2>2, <2>3 DEF Dies
<1>5. Shapes'
  BY <1>1, <1>2, <1>3, <1>4 DEF Shapes
<1>6. Linked(objects', file) /\ Tree(objects', file)
  BY <1>1, <1>4, LinksSurvive
<1>7. Links'
  BY <1>2, <1>6 DEF Links
<1>8. FileKept' /\ Worked'
  BY <1>2 DEF FileKept, Worked, NoCommand
<1> QED
  BY <1>4, <1>5, <1>7, <1>8 DEF Base

LEMMA DiesInSaveKeepsBase ==
    ASSUME Base, DiesInSave
    PROVE  Base'
<1>1. Shapes /\ Refers(objects)
  BY DEF Base
<1>2. /\ torn' = TRUE /\ file' = {} /\ run' = NoCommand
      /\ losses < MaxLosses /\ losses' = losses + 1
      /\ UNCHANGED <<objects, relations, document>>
  BY DEF DiesInSave
<1>3. losses' \in 0 .. MaxLosses
  BY <1>1, <1>2, SyncAssumption DEF Shapes, SyncAssumption
<1>4. Shapes'
  BY <1>1, <1>2, <1>3 DEF Shapes
<1>5. Links'
  BY <1>2 DEF Links, Linked, Tree
<1>6. Refers(objects)' /\ FileKept' /\ Worked'
  BY <1>1, <1>2 DEF FileKept, Worked, NoCommand
<1> QED
  BY <1>4, <1>5, <1>6 DEF Base

-----------------------------------------------------------------------------
(* Between the commands *)

(* A move changes the state of one object, to one of the states. *)
LEMMA MoveEffect ==
    ASSUME Base, Move
    PROVE  /\ objects' \in Seq(Objects)
           /\ DOMAIN objects' = DOMAIN objects
           /\ Kept(objects, objects')
           /\ Refers(objects')
<1>1. objects \in Seq(Objects) /\ Refers(objects) /\ Linked(objects, file)
  BY DEF Base, Shapes, Links
<1>2. PICK name, state, id :
         /\ state \in {e.id : e \in {x \in file : x.key = "states"}}
         /\ id \in Ids(file, "stories", name) \cup Ids(file, "epics", name)
         /\ objects' = [objects EXCEPT ![id].state = state]
  BY DEF Move
<1>3. state \in DOMAIN objects /\ objects[state].kind = "states"
  BY <1>1, <1>2 DEF Linked
<1>4. id \in DOMAIN objects
  BY <1>1, <1>2, IdsLinked
<1>5. /\ DOMAIN objects = 1 .. Len(objects) /\ Len(objects) \in Nat
      /\ \A i \in DOMAIN objects : objects[i] \in Objects
  BY <1>1, LenProperties, ElementOfSeq
<1> DEFINE changed == [objects[id] EXCEPT !.state = state]
<1>6. /\ changed \in Objects
      /\ changed.kind = objects[id].kind /\ changed.name = objects[id].name
      /\ changed.parent = objects[id].parent /\ changed.state = state
  BY <1>3, <1>4, <1>5 DEF Objects
<1>7. objects' = [objects EXCEPT ![id] = changed]
  BY <1>2
<1> HIDE DEF changed
<1>8. /\ objects' \in Seq(Objects)
      /\ DOMAIN objects' = DOMAIN objects
      /\ objects'[id] = changed
      /\ \A i \in DOMAIN objects : i # id => objects'[i] = objects[i]
  <2>1. objects' \in Seq(Objects)
    BY <1>1, <1>4, <1>6, <1>7, ExceptSeq
  <2> QED
    BY <1>1, <1>4, <1>5, <1>7, <2>1
<1>9. /\ \A i \in DOMAIN objects :
            /\ objects'[i].kind = objects[i].kind
            /\ objects'[i].name = objects[i].name
            /\ objects'[i].parent = objects[i].parent
            /\ objects'[i].state \in {objects[i].state, state}
  BY <1>6, <1>8
<1>10. Kept(objects, objects')
  BY <1>8, <1>9 DEF Kept
<1>11. Refers(objects')
  BY <1>1, <1>3, <1>8, <1>9 DEF Refers
<1> QED
  BY <1>8, <1>10, <1>11

LEMMA OutsideKeepsBase ==
    ASSUME Base, FileRemoved \/ Move \/ DocumentsEdited \/ UNCHANGED vars
    PROVE  Base'
<1>1. /\ Shapes /\ Links /\ Refers(objects) /\ FileKept /\ Worked
      /\ objects \in Seq(Objects)
      /\ Linked(objects, file) /\ Tree(objects, file)
  BY DEF Base, Shapes, Links
<1>2. CASE FileRemoved \/ UNCHANGED vars
  <2>1. UNCHANGED <<objects, relations, file, document, run, losses>>
    BY <1>2 DEF FileRemoved, vars
  <2>2. torn' \in BOOLEAN
    BY <1>1, <1>2 DEF FileRemoved, vars, Shapes
  <2>3. Shapes'
    BY <1>1, <2>1, <2>2 DEF Shapes
  <2>4. Links' /\ Refers(objects)' /\ FileKept'
    BY <1>1, <2>1 DEF Links, FileKept
  <2>5. SyncList(Kind)' = SyncList(Kind)
    BY <2>1 DEF SyncList, Kind
  <2>6. Worked'
    BY <1>1, <2>1, <2>5 DEF Worked
  <2> QED
    BY <2>3, <2>4, <2>6 DEF Base
<1>3. CASE Move
  <2>1. /\ UNCHANGED <<relations, file, torn, document, run, losses>>
        /\ run = NoCommand
    BY <1>3 DEF Move, Idle
  <2>2. /\ objects' \in Seq(Objects) /\ DOMAIN objects' = DOMAIN objects
        /\ Kept(objects, objects') /\ Refers(objects')
    BY <1>3, MoveEffect
  <2>3. Shapes'
    BY <1>1, <2>1, <2>2 DEF Shapes
  <2>4. Linked(objects', file) /\ Tree(objects', file)
    BY <1>1, <2>2, LinksSurvive
  <2>5. Links'
    BY <2>1, <2>4 DEF Links
  <2>6. FileKept' /\ Worked'
    BY <2>1 DEF FileKept, Worked, NoCommand
  <2> QED
    BY <2>2, <2>3, <2>5, <2>6 DEF Base
<1>4. CASE DocumentsEdited
  <2>1. /\ UNCHANGED <<objects, relations, file, torn, run, losses>>
        /\ run = NoCommand /\ document' \in Documents
    BY <1>4 DEF DocumentsEdited
  <2>2. Shapes'
    BY <1>1, <2>1 DEF Shapes
  <2>3. Links' /\ Refers(objects)' /\ FileKept'
    BY <1>1, <2>1 DEF Links, FileKept
  <2>4. Worked'
    BY <2>1 DEF Worked, NoCommand
  <2> QED
    BY <2>2, <2>3, <2>4 DEF Base
<1> QED
  BY <1>2, <1>3, <1>4

LEMMA BaseKept ==
    ASSUME Base, [Next]_vars
    PROVE  Base'
<1>1. CASE StartInit \/ StartSync
  BY <1>1, StartsKeepBase
<1>2. CASE Created \/ RelationsCreated
  BY <1>2, CreatedKeepsBase, RelationsCreatedKeepsBase
<1>3. CASE KindDone \/ CommandDone
  BY <1>3, KindDoneKeepsBase, CommandDoneKeepsBase
<1>4. CASE Dies \/ DiesInSave
  BY <1>4, DiesKeepsBase, DiesInSaveKeepsBase
<1>5. CASE FileRemoved \/ Move \/ DocumentsEdited \/ UNCHANGED vars
  BY <1>5, OutsideKeepsBase
<1> QED
  BY <1>1, <1>2, <1>3, <1>4, <1>5 DEF Next

-----------------------------------------------------------------------------
(* What Linear has *)

(* When a command comes to a kind, sync's maps stay as they are. *)
LEMMA EnterSteps ==
    ASSUME Base, StartInit \/ StartSync \/ KindDone
    PROVE  /\ objects' = objects /\ losses' = losses
           /\ \A kind \in KindsOf("sync") : Names(Known', kind) = Names(Known, kind)
           /\ run'.cmd = "init" => run'.todo \in {<< >>, Wanted[Kind']}
           /\ run'.cmd = "init" /\ run'.todo # << >> /\ Named /\ InitIsIdempotent =>
                \A i \in DOMAIN objects :
                    objects[i].kind = Kind' => objects[i].name \in Names(run'.memory, Kind')
<1>1. Shapes
  BY DEF Base
<1>2. ASSUME NEW cmd \in {"init", "sync"}, NEW at \in DOMAIN Kinds(cmd),
             Known \in SUBSET EntrySet, Linked(objects, Known), Tree(objects, Known),
             Enter(cmd, at, Known)
      PROVE  /\ \A kind \in KindsOf("sync") : Names(Known', kind) = Names(Known, kind)
             /\ run'.cmd = "init" => run'.todo \in {<< >>, Wanted[Kind']}
             /\ run'.cmd = "init" /\ run'.todo # << >> /\ Named /\ InitIsIdempotent =>
                  \A i \in DOMAIN objects :
                      objects[i].kind = Kind' => objects[i].name \in Names(run'.memory, Kind')
  <2>1. /\ run' # NoCommand /\ run'.cmd = cmd /\ run'.at = at
        /\ \A kind \in KindsOf("sync") : Names(run'.memory, kind) = Names(Known, kind)
        /\ cmd = "init" => run'.todo \in {<< >>, Wanted[Kinds(cmd)[at]]}
        /\ cmd = "init" /\ run'.todo # << >> /\ Named /\ InitIsIdempotent =>
             \A i \in DOMAIN objects : objects[i].kind = Kinds(cmd)[at] =>
                 objects[i].name \in Names(run'.memory, Kinds(cmd)[at])
    BY <1>1, <1>2, EnterEffect
  <2>2. Known' = run'.memory
    BY <2>1 DEF Known
  <2>3. Kind' = Kinds(cmd)[at]
    BY <2>1 DEF Kind
  <2> QED
    BY <2>1, <2>2, <2>3
<1>3. CASE StartInit \/ StartSync
  <2>1. /\ run = NoCommand /\ UNCHANGED <<objects, losses>>
        /\ Enter("init", 1, file) \/ Enter("sync", 1, file)
    BY <1>3 DEF StartInit, StartSync, Idle
  <2>2. /\ Known = file /\ Known \in SUBSET EntrySet
        /\ Linked(objects, Known) /\ Tree(objects, Known)
    BY <2>1 DEF Known, Base, Shapes, Links
  <2>3. 1 \in DOMAIN Kinds("init") /\ 1 \in DOMAIN Kinds("sync")
    BY KindFacts
  <2>4. CASE Enter("init", 1, file)
    BY <1>2, <2>1, <2>2, <2>3, <2>4
  <2>5. CASE Enter("sync", 1, file)
    BY <1>2, <2>1, <2>2, <2>3, <2>5
  <2> QED
    BY <2>1, <2>4, <2>5
<1>4. CASE KindDone
  <2>1. /\ UNCHANGED <<objects, losses>> /\ Ready
        /\ Enter(run.cmd, run.at + 1, run.memory)
    BY <1>4 DEF KindDone
  <2>2. /\ run # NoCommand /\ Known = run.memory /\ Known \in SUBSET EntrySet
        /\ Linked(objects, Known) /\ Tree(objects, Known)
        /\ run.cmd \in {"init", "sync"}
    BY <1>1, <2>1, ReadyFacts, RunFacts DEF Known
  <2>3. run'.at = run.at + 1 /\ run'.cmd = run.cmd
    BY <2>1 DEF Enter
  <2>4. Shapes' /\ run' # NoCommand
    <3>1. run'.cmd # "none"
      BY <2>2, <2>3
    <3> QED
      BY <1>4, <3>1, KindDoneKeepsBase DEF Base, NoCommand
  <2>5. run.at + 1 \in DOMAIN Kinds(run.cmd)
    BY <2>3, <2>4 DEF Shapes
  <2> QED
    BY <1>2, <2>1, <2>2, <2>5
<1> QED
  BY <1>3, <1>4

(* The answer to a create request. *)
LEMMA CreatedEffect ==
    ASSUME Base, Created
    PROVE  /\ run # NoCommand /\ run' # NoCommand /\ losses' = losses
           /\ run'.cmd = run.cmd /\ run'.todo = run.todo /\ Kind' = Kind
           /\ \E name \in Elements(run.todo) :
                /\ Requested(name) /\ Create(Kind, name)
                /\ name \in Names(run'.memory, Kind)
           /\ \A kind : Names(run.memory, kind) \subseteq Names(run'.memory, kind)
<1>1. PICK name \in Elements(run.todo) :
         /\ Requested(name)
         /\ Create(Kind, name)
         /\ run' = [run EXCEPT !.memory = @ \cup {Entry(Kind, name, Len(objects) + 1)}]
  BY DEF Created
<1>2. run # NoCommand
  BY <1>1 DEF NoCommand, Elements
<1>3. run \in Commands
  BY <1>2, RunFacts DEF Base
<1>4. /\ run'.cmd = run.cmd /\ run'.at = run.at /\ run'.todo = run.todo
      /\ run'.memory = run.memory \cup {Entry(Kind, name, Len(objects) + 1)}
  BY <1>1, <1>3 DEF Commands
<1>5. run'.cmd # "none"
  BY <1>3, <1>4 DEF Commands
<1>6. run' # NoCommand
  BY <1>5 DEF NoCommand
<1>7. Kind' = Kind
  BY <1>4 DEF Kind
<1>8. /\ name \in Names(run'.memory, Kind)
      /\ \A kind : Names(run.memory, kind) \subseteq Names(run'.memory, kind)
  BY <1>4 DEF Names, Entry
<1>9. losses' = losses
  BY DEF Created
<1> QED
  BY <1>1, <1>2, <1>4, <1>6, <1>7, <1>8, <1>9

(* The objects of a step that asks Linear for nothing. *)
LEMMA NothingAsked ==
    ASSUME Base, [Next]_vars, ~Created, ~Dies
    PROVE  DOMAIN objects' = DOMAIN objects /\ Kept(objects, objects')
<1>1. CASE Move
  BY <1>1, MoveEffect
<1>2. CASE ~Move
  <2>1. objects' = objects
    BY <1>2, EnterSteps DEF Next, vars, RelationsCreated, CommandDone, DiesInSave,
        FileRemoved, DocumentsEdited
  <2> QED
    BY <2>1 DEF Kept
<1> QED
  BY <1>1, <1>2

(* A create request of init is for a name of the kind's list. *)
LEMMA NamedKept ==
    ASSUME Base, Named, [Next]_vars
    PROVE  Named'
<1>1. /\ objects \in Seq(Objects)
      /\ Elements(<< >>) = {}
  BY DEF Base, Shapes, Elements
<1>2. ASSUME run # NoCommand, NEW name \in Elements(run.todo),
             Requested(name), Create(Kind, name)
      PROVE  \A i \in DOMAIN objects' : objects'[i].kind \in KindsOf("init") =>
                 objects'[i].name \in Elements(Wanted[objects'[i].kind])
  <2>1. /\ DOMAIN objects' = DOMAIN objects \cup {Len(objects) + 1}
        /\ objects'[Len(objects) + 1].kind = Kind
        /\ objects'[Len(objects) + 1].name = name
        /\ Kept(objects, objects')
    BY <1>2, CreateGrows
  <2>2. Kind \in KindsOf("init") => name \in Elements(Wanted[Kind])
    BY <1>2, RunFacts, KindFacts DEF Named, Base
  <2> QED
    BY <2>1, <2>2 DEF Named, Kept
<1>3. CASE StartInit \/ StartSync \/ KindDone
  <2>1. /\ objects' = objects
        /\ run'.cmd = "init" => run'.todo \in {<< >>, Wanted[Kind']}
    BY <1>3, EnterSteps
  <2> QED
    BY <1>1, <2>1 DEF Named
<1>4. CASE Created
  <2>1. /\ run # NoCommand
        /\ run'.cmd = run.cmd /\ run'.todo = run.todo /\ Kind' = Kind
    BY <1>4, CreatedEffect
  <2>2. PICK name \in Elements(run.todo) : Requested(name) /\ Create(Kind, name)
    BY <1>4, CreatedEffect
  <2>3. \A i \in DOMAIN objects' : objects'[i].kind \in KindsOf("init") =>
            objects'[i].name \in Elements(Wanted[objects'[i].kind])
    BY <1>2, <2>1, <2>2
  <2> QED
    BY <2>1, <2>3 DEF Named
<1>5. CASE Dies
  <2>1. run # NoCommand /\ run'.cmd = "none"
    BY <1>5 DEF Dies, NoCommand
  <2>2. CASE UNCHANGED objects
    BY <2>1, <2>2 DEF Named
  <2>3. CASE \E name \in Elements(run.todo) : Requested(name) /\ Create(Kind, name)
    <3>1. \A i \in DOMAIN objects' : objects'[i].kind \in KindsOf("init") =>
              objects'[i].name \in Elements(Wanted[objects'[i].kind])
      BY <1>2, <2>1, <2>3
    <3> QED
      BY <2>1, <3>1 DEF Named
  <2> QED
    BY <1>5, <2>2, <2>3 DEF Dies
<1>6. CASE RelationsCreated
  <2>1. run.cmd = "sync" /\ run # NoCommand /\ objects' = objects
    BY <1>6 DEF RelationsCreated, NoCommand
  <2>2. run'.cmd = "sync"
    BY <1>6, <2>1, RunFacts DEF RelationsCreated, Base, Commands
  <2> QED
    BY <2>1, <2>2 DEF Named
<1>7. CASE CommandDone \/ DiesInSave \/ DocumentsEdited
  <2>1. objects' = objects /\ run'.cmd = "none"
    BY <1>7 DEF CommandDone, DiesInSave, DocumentsEdited, NoCommand
  <2> QED
    BY <2>1 DEF Named
<1>8. CASE Move
  <2>1. DOMAIN objects' = DOMAIN objects /\ Kept(objects, objects')
    BY <1>8, MoveEffect
  <2>2. run'.cmd = "none"
    BY <1>8 DEF Move, Idle, NoCommand
  <2> QED
    BY <2>1, <2>2 DEF Named, Kept
<1>9. CASE FileRemoved \/ UNCHANGED vars
  <2>1. UNCHANGED <<objects, run>>
    BY <1>9 DEF FileRemoved, vars
  <2> QED
    BY <2>1 DEF Named, Kind
<1> QED
  BY <1>3, <1>4, <1>5, <1>6, <1>7, <1>8, <1>9 DEF Next

LEMMA LinearAskedKept ==
    ASSUME Base, Named, LinearAsked, InitIsIdempotent, [Next]_vars
    PROVE  LinearAsked'
<1>1. CASE StartInit \/ StartSync \/ KindDone
  BY <1>1, EnterSteps DEF LinearAsked
<1>2. CASE Created
  <2>1. /\ run # NoCommand
        /\ run'.cmd = run.cmd /\ run'.todo = run.todo /\ Kind' = Kind
        /\ \A kind : Names(run.memory, kind) \subseteq Names(run'.memory, kind)
    BY <1>2, CreatedEffect
  <2>2. PICK name \in Elements(run.todo) :
            /\ Requested(name) /\ Create(Kind, name)
            /\ name \in Names(run'.memory, Kind)
    BY <1>2, CreatedEffect
  <2>3. /\ DOMAIN objects' = DOMAIN objects \cup {Len(objects) + 1}
        /\ objects'[Len(objects) + 1].name = name
        /\ Kept(objects, objects')
    BY <2>1, <2>2, CreateGrows
  <2> QED
    BY <2>1, <2>2, <2>3 DEF LinearAsked, Kept
<1>3. CASE RelationsCreated
  <2>1. run.cmd = "sync" /\ run # NoCommand
    BY <1>3 DEF RelationsCreated, NoCommand
  <2>2. run'.cmd = "sync"
    BY <1>3, <2>1, RunFacts DEF RelationsCreated, Base, Commands
  <2> QED
    BY <2>2 DEF LinearAsked
<1>4. CASE CommandDone \/ Dies \/ DiesInSave
  BY <1>4 DEF CommandDone, Dies, DiesInSave, LinearAsked, NoCommand
<1>5. CASE Move \/ DocumentsEdited
  BY <1>5 DEF Move, Idle, DocumentsEdited, LinearAsked, NoCommand
<1>6. CASE FileRemoved \/ UNCHANGED vars
  <2>1. UNCHANGED <<objects, run>>
    BY <1>6 DEF FileRemoved, vars
  <2> QED
    BY <2>1 DEF LinearAsked, Kind
<1> QED
  BY <1>1, <1>2, <1>3, <1>4, <1>5, <1>6 DEF Next

LEMMA InitIsIdempotentKept ==
    ASSUME Base, LinearAsked, InitIsIdempotent, [Next]_vars
    PROVE  InitIsIdempotent'
<1>1. ASSUME run # NoCommand, NEW name \in Elements(run.todo),
             Requested(name), Create(Kind, name)
      PROVE  InitIsIdempotent'
  <2>1. /\ name \notin Names(run.memory, Kind)
        /\ DOMAIN objects' = DOMAIN objects \cup {Len(objects) + 1}
        /\ Len(objects) + 1 \notin DOMAIN objects
        /\ objects'[Len(objects) + 1].kind = Kind
        /\ objects'[Len(objects) + 1].name = name
        /\ Kept(objects, objects')
    BY <1>1, CreateGrows
  <2>2. ASSUME Kind \in KindsOf("init"), NEW i \in DOMAIN objects, objects[i].kind = Kind
        PROVE  objects[i].name # name
    <3>1. run.cmd = "init"
      BY <1>1, <2>2, RunFacts, KindFacts DEF Base
    <3>2. run.todo # << >>
      BY <1>1 DEF Elements
    <3> QED
      BY <2>1, <2>2, <3>1, <3>2 DEF LinearAsked
  <2> DEFINE id == Len(objects) + 1
  <2> HIDE DEF id
  <2>3. ASSUME NEW i \in DOMAIN objects', NEW j \in DOMAIN objects',
               objects'[i].kind \in KindsOf("init"),
               objects'[i].kind = objects'[j].kind,
               objects'[i].name = objects'[j].name
        PROVE  i = j
    <3>1. CASE i = id /\ j = id
      BY <3>1
    <3>2. CASE i = id /\ j # id
      BY <2>1, <2>2, <2>3, <3>2 DEF Kept, id
    <3>3. CASE i # id /\ j = id
      BY <2>1, <2>2, <2>3, <3>3 DEF Kept, id
    <3>4. CASE i # id /\ j # id
      BY <2>1, <2>3, <3>4 DEF Kept, InitIsIdempotent, id
    <3> QED
      BY <3>1, <3>2, <3>3, <3>4
  <2> QED
    BY <2>3 DEF InitIsIdempotent
<1>2. ASSUME DOMAIN objects' = DOMAIN objects, Kept(objects, objects')
      PROVE  InitIsIdempotent'
  BY <1>2 DEF InitIsIdempotent, Kept
<1>3. CASE Created
  BY <1>1, <1>3, CreatedEffect
<1>4. CASE Dies
  <2>1. run # NoCommand
    BY <1>4 DEF Dies, NoCommand
  <2>2. \/ objects' = objects
        \/ \E name \in Elements(run.todo) : Requested(name) /\ Create(Kind, name)
    BY <1>4 DEF Dies
  <2>3. objects' = objects => Kept(objects, objects')
    BY DEF Kept
  <2> QED
    BY <1>1, <1>2, <2>1, <2>2, <2>3
<1>5. CASE ~Created /\ ~Dies
  BY <1>2, <1>5, NothingAsked
<1> QED
  BY <1>3, <1>4, <1>5

-----------------------------------------------------------------------------
(* Copies *)

LEMMA CopiesAreFinite ==
    ASSUME NEW objs \in Seq(Objects), NEW kind, NEW name
    PROVE  /\ IsFiniteSet(CopiesOf(objs, kind, name))
           /\ Cardinality(CopiesOf(objs, kind, name)) \in Nat
<1>1. DOMAIN objs = 1 .. Len(objs) /\ Len(objs) \in Int
  BY LenProperties
<1>2. IsFiniteSet(DOMAIN objs)
  BY <1>1, FS_Interval
<1>3. CopiesOf(objs, kind, name) \subseteq DOMAIN objs
  BY DEF CopiesOf
<1> QED
  BY <1>2, <1>3, FS_Subset, FS_CardinalityType

(* One request that is applied is one copy more of one name, which the     *)
(* map did not hold.                                                       *)
LEMMA OneCopyMore ==
    ASSUME Base, CopiesCounted, run # NoCommand, NEW name \in Elements(run.todo),
           Requested(name), Create(Kind, name),
           NEW kind \in KindsOf("sync"), NEW other \in Titles
    PROVE  /\ Cardinality(CopiesOf(objects', kind, other)) <= losses + 1
           /\ other \notin Names(run.memory, kind) /\ (kind # Kind \/ other # name) =>
                 Cardinality(CopiesOf(objects', kind, other)) <= losses
<1> DEFINE id  == Len(objects) + 1
           old == CopiesOf(objects, kind, other)
           new == CopiesOf(objects', kind, other)
<1>1. /\ name \notin Names(run.memory, Kind)
      /\ objects' \in Seq(Objects) /\ objects \in Seq(Objects)
      /\ id \notin DOMAIN objects
      /\ DOMAIN objects' = DOMAIN objects \cup {id}
      /\ objects'[id].kind = Kind
      /\ objects'[id].name = name
      /\ Kept(objects, objects')
  BY CreateGrows DEF Base, Shapes
<1>2. IsFiniteSet(old) /\ Cardinality(old) \in Nat
  BY <1>1, CopiesAreFinite
<1>3. losses \in Nat
  BY DEF Base, Shapes
<1>4. /\ Cardinality(old) <= losses + 1
      /\ other \notin Names(run.memory, kind) => Cardinality(old) <= losses
  <2>1. Cardinality(old) <= losses + (IF other \in Names(run.memory, kind) THEN 1 ELSE 0)
    BY DEF CopiesCounted, Known
  <2> HIDE DEF old
  <2>2. CASE other \in Names(run.memory, kind)
    BY <2>1, <2>2
  <2>3. CASE other \notin Names(run.memory, kind)
    BY <1>2, <1>3, <2>1, <2>3
  <2> QED
    BY <2>2, <2>3
<1>5. new = IF kind = Kind /\ other = name THEN old \cup {id} ELSE old
  <2> HIDE DEF id
  <2>1. \A j \in DOMAIN objects : j \in new <=> j \in old
    BY <1>1 DEF CopiesOf, Kept
  <2>2. id \in new <=> kind = Kind /\ other = name
    BY <1>1 DEF CopiesOf
  <2>3. new \subseteq DOMAIN objects \cup {id} /\ old \subseteq DOMAIN objects
    BY <1>1 DEF CopiesOf
  <2>4. id \notin old
    BY <1>1, <2>3
  <2> HIDE DEF old, new
  <2>5. CASE kind = Kind /\ other = name
    <3>1. \A j : j \in new <=> j \in old \/ j = id
      BY <2>1, <2>2, <2>3, <2>5
    <3> QED
      BY <2>5, <3>1
  <2>6. CASE ~(kind = Kind /\ other = name)
    <3>1. \A j : j \in new <=> j \in old
      BY <2>1, <2>2, <2>3, <2>4, <2>6
    <3> QED
      BY <2>6, <3>1
  <2> QED
    BY <2>5, <2>6
<1>6. id \notin old
  BY <1>1 DEF CopiesOf
<1> HIDE DEF id, old, new
<1>7. CASE kind = Kind /\ other = name
  <2>1. new = old \cup {id}
    BY <1>5, <1>7
  <2>2. Cardinality(new) = Cardinality(old) + 1
    BY <1>2, <1>6, <2>1, FS_AddElement
  <2>3. Cardinality(old) <= losses
    BY <1>1, <1>4, <1>7
  <2>4. Cardinality(new) <= losses + 1
    BY <1>2, <1>3, <2>2, <2>3
  <2> QED
    BY <1>7, <2>4 DEF new
<1>8. CASE ~(kind = Kind /\ other = name)
  <2>1. new = old
    BY <1>5, <1>8
  <2> QED
    BY <1>4, <2>1 DEF new
<1> QED
  BY <1>7, <1>8

LEMMA CopiesCountedKept ==
    ASSUME Base, CopiesCounted, [Next]_vars
    PROVE  CopiesCounted'
<1>1. Shapes /\ FileKept /\ objects \in Seq(Objects) /\ losses \in Nat
  BY DEF Base, Shapes
<1>2. CASE Created
  <2>1. /\ run # NoCommand /\ run' # NoCommand /\ losses' = losses /\ Kind' = Kind
        /\ \A kind : Names(run.memory, kind) \subseteq Names(run'.memory, kind)
    BY <1>2, CreatedEffect
  <2>2. PICK name \in Elements(run.todo) :
            /\ Requested(name) /\ Create(Kind, name)
            /\ name \in Names(run'.memory, Kind)
    BY <1>2, CreatedEffect
  <2>3. Known' = run'.memory
    BY <2>1 DEF Known
  <2>4. ASSUME NEW kind \in KindsOf("sync"), NEW other \in Titles
        PROVE  Cardinality(CopiesOf(objects', kind, other))
                   <= losses' + (IF other \in Names(Known', kind) THEN 1 ELSE 0)
    <3>1. /\ Cardinality(CopiesOf(objects', kind, other)) <= losses + 1
          /\ other \notin Names(run.memory, kind) /\ (kind # Kind \/ other # name) =>
                Cardinality(CopiesOf(objects', kind, other)) <= losses
      BY <2>1, <2>2, OneCopyMore
    <3>2. CASE other \in Names(Known', kind)
      BY <2>1, <3>1, <3>2
    <3>3. CASE other \notin Names(Known', kind)
      <4>1. Cardinality(CopiesOf(objects', kind, other)) <= losses
        BY <2>1, <2>2, <2>3, <3>1, <3>3
      <4>2. losses' + 0 = losses
        BY <1>1, <2>1
      <4> QED
        BY <3>3, <4>1, <4>2
    <3> QED
      BY <3>2, <3>3
  <2> QED
    BY <2>4 DEF CopiesCounted
<1>3. ASSUME losses' = losses + 1,
             \A kind \in KindsOf("sync"), other \in Titles :
                 Cardinality(CopiesOf(objects', kind, other)) <= losses + 1,
             objects' \in Seq(Objects)
      PROVE  CopiesCounted'
  <2>1. ASSUME NEW kind \in KindsOf("sync"), NEW other \in Titles
        PROVE  Cardinality(CopiesOf(objects', kind, other))
                   <= losses' + (IF other \in Names(Known', kind) THEN 1 ELSE 0)
    <3> DEFINE n     == Cardinality(CopiesOf(objects', kind, other))
               extra == IF other \in Names(Known', kind) THEN 1 ELSE 0
    <3>1. n \in Nat
      BY <1>3, CopiesAreFinite
    <3>2. extra \in {0, 1}
      OBVIOUS
    <3>3. n <= losses'
      BY <1>3
    <3>4. losses' \in Nat
      BY <1>1, <1>3
    <3>5. \A c, l \in Nat, x \in {0, 1} : c <= l => c <= l + x
      OBVIOUS
    <3> QED
      BY <3>1, <3>2, <3>3, <3>4, <3>5
  <2> QED
    BY <2>1 DEF CopiesCounted
<1>4. \A kind \in KindsOf("sync"), other \in Titles :
          Cardinality(CopiesOf(objects, kind, other)) <= losses + 1
  <2> SUFFICES ASSUME NEW kind \in KindsOf("sync"), NEW other \in Titles
               PROVE  Cardinality(CopiesOf(objects, kind, other)) <= losses + 1
    OBVIOUS
  <2> DEFINE n     == Cardinality(CopiesOf(objects, kind, other))
             extra == IF other \in Names(Known, kind) THEN 1 ELSE 0
  <2>1. n <= losses + extra
    BY DEF CopiesCounted
  <2>2. n \in Nat
    BY <1>1, CopiesAreFinite
  <2>3. extra \in {0, 1}
    OBVIOUS
  <2> HIDE DEF n, extra
  <2>4. n <= losses + 1
    BY <1>1, <2>1, <2>2, <2>3
  <2> QED
    BY <2>4 DEF n
<1>5. CASE Dies
  <2>1. losses' = losses + 1 /\ run # NoCommand
    BY <1>5 DEF Dies, NoCommand
  <2>2. objects' \in Seq(Objects)
    BY <1>5, DiesKeepsBase DEF Base, Shapes
  <2>3. CASE objects' = objects
    BY <1>3, <1>4, <2>1, <2>2, <2>3
  <2>4. CASE \E name \in Elements(run.todo) : Requested(name) /\ Create(Kind, name)
    <3>1. PICK name \in Elements(run.todo) : Requested(name) /\ Create(Kind, name)
      BY <2>4
    <3>2. \A kind \in KindsOf("sync"), other \in Titles :
              Cardinality(CopiesOf(objects', kind, other)) <= losses + 1
      BY <2>1, <3>1, OneCopyMore
    <3> QED
      BY <1>3, <2>1, <2>2, <3>2
  <2> QED
    BY <1>5, <2>3, <2>4 DEF Dies
<1>6. CASE DiesInSave
  <2>1. losses' = losses + 1 /\ objects' = objects
    BY <1>6 DEF DiesInSave
  <2> QED
    BY <1>1, <1>3, <1>4, <2>1
<1>7. ASSUME DOMAIN objects' = DOMAIN objects, Kept(objects, objects'), losses' = losses,
             \A kind \in KindsOf("sync") : Names(Known, kind) \subseteq Names(Known', kind),
             objects' \in Seq(Objects)
      PROVE  CopiesCounted'
  <2>1. ASSUME NEW kind \in KindsOf("sync"), NEW other \in Titles
        PROVE  Cardinality(CopiesOf(objects', kind, other))
                   <= losses' + (IF other \in Names(Known', kind) THEN 1 ELSE 0)
    <3>1. CopiesOf(objects', kind, other) = CopiesOf(objects, kind, other)
      BY <1>7 DEF CopiesOf, Kept
    <3> DEFINE n    == Cardinality(CopiesOf(objects, kind, other))
               had  == IF other \in Names(Known, kind) THEN 1 ELSE 0
               has  == IF other \in Names(Known', kind) THEN 1 ELSE 0
    <3>2. n <= losses + had
      BY DEF CopiesCounted
    <3>3. had \in {0, 1} /\ has \in {0, 1}
      OBVIOUS
    <3>4. had = 1 => has = 1
      BY <1>7
    <3>5. n \in Nat
      BY <1>1, CopiesAreFinite
    <3> HIDE DEF n, had, has
    <3>6. n <= losses + has
      BY <1>1, <3>2, <3>3, <3>4, <3>5
    <3> QED
      BY <1>7, <3>1, <3>6 DEF n, has
  <2> QED
    BY <2>1 DEF CopiesCounted
<1>8. CASE ~Created /\ ~Dies /\ ~DiesInSave
  <2>1. DOMAIN objects' = DOMAIN objects /\ Kept(objects, objects')
    BY <1>8, NothingAsked
  <2>2. objects' \in Seq(Objects)
    BY BaseKept DEF Base, Shapes
  <2>3. losses' = losses
    BY <1>8, EnterSteps DEF Next, vars, RelationsCreated, CommandDone, FileRemoved,
        Move, DocumentsEdited
  <2>4. ASSUME NEW kind \in KindsOf("sync")
        PROVE  Names(Known, kind) \subseteq Names(Known', kind)
    <3>1. CASE StartInit \/ StartSync \/ KindDone
      BY <2>4, <3>1, EnterSteps
    <3>2. CASE RelationsCreated
      <4>1. run # NoCommand /\ run.cmd = "sync"
        BY <3>2 DEF RelationsCreated, NoCommand
      <4>2. run'.cmd = "sync" /\ run.memory \subseteq run'.memory
        BY <1>1, <3>2, <4>1, RunFacts DEF RelationsCreated, Commands
      <4>3. run' # NoCommand
        BY <4>2 DEF NoCommand
      <4>4. Known \subseteq Known'
        BY <4>1, <4>2, <4>3 DEF Known
      <4> QED
        BY <4>4 DEF Names
    <3>3. CASE CommandDone
      <4>1. run # NoCommand /\ run' = NoCommand /\ file' = run.memory
        BY <3>3 DEF CommandDone, Ready, NoCommand
      <4> QED
        BY <4>1 DEF Known
    <3>4. CASE Move \/ DocumentsEdited \/ FileRemoved \/ UNCHANGED vars
      <4>1. UNCHANGED <<file, run>>
        BY <3>4 DEF Move, DocumentsEdited, FileRemoved, vars
      <4> QED
        BY <4>1 DEF Known
    <3> QED
      BY <1>8, <3>1, <3>2, <3>3, <3>4 DEF Next
  <2> QED
    BY <1>7, <2>1, <2>2, <2>3, <2>4
<1> QED
  BY <1>2, <1>5, <1>6, <1>8

-----------------------------------------------------------------------------
(* The theorems *)

LEMMA InitHolds ==
    ASSUME Init
    PROVE  IInv
<1>1. /\ objects = << >> /\ relations = {} /\ file = {} /\ torn = FALSE
      /\ document \in Documents /\ run = NoCommand /\ losses = 0
  BY DEF Init
<1>2. objects \in Seq(Objects) /\ DOMAIN objects = {}
  BY <1>1, EmptySeq
<1>3. Shapes
  <2>1. 0 \in 0 .. MaxLosses
    BY SyncAssumption DEF SyncAssumption
  <2>2. /\ relations \subseteq (DOMAIN objects) \X (DOMAIN objects)
        /\ file \subseteq EntrySet
        /\ torn \in BOOLEAN
    BY <1>1
  <2> QED
    BY <1>1, <1>2, <2>1, <2>2 DEF Shapes
<1>4. Links /\ Refers(objects) /\ FileKept
  BY <1>1, <1>2 DEF Links, Linked, Tree, Refers, FileKept
<1>5. Worked /\ LinearAsked /\ Named
  BY <1>1, <1>2 DEF Worked, LinearAsked, Named, NoCommand
<1>6. InitIsIdempotent
  BY <1>2 DEF InitIsIdempotent
<1>7. ASSUME NEW kind, NEW name
      PROVE  Cardinality(CopiesOf(objects, kind, name))
                 <= losses + (IF name \in Names(Known, kind) THEN 1 ELSE 0)
  <2>1. CopiesOf(objects, kind, name) = {}
    BY <1>2 DEF CopiesOf
  <2>2. Cardinality({}) = 0
    BY FS_EmptySet
  <2>3. \A x \in {0, 1} : 0 <= 0 + x
    OBVIOUS
  <2> QED
    BY <1>1, <2>1, <2>2, <2>3
<1>8. CopiesCounted
  BY <1>7 DEF CopiesCounted
<1> QED
  BY <1>3, <1>4, <1>5, <1>6, <1>8 DEF IInv, Base

LEMMA StepKeeps ==
    ASSUME IInv, [Next]_vars
    PROVE  IInv'
BY BaseKept, NamedKept, LinearAskedKept, InitIsIdempotentKept, CopiesCountedKept DEF IInv

(* The inductive invariant holds in every state. *)
THEOREM Invariant ==
    Spec => []IInv
BY InitHolds, StepKeeps, PTL DEF Spec

(* An id in the file, or in the memory of a command, is the id of an       *)
(* object of that kind and that name, whatever dies when.                  *)
THEOREM TypeCorrect ==
    Spec => []TypeOK
<1>1. ASSUME IInv PROVE TypeOK
  <2>1. /\ Shapes /\ Links /\ Refers(objects)
        /\ objects \in Seq(Objects)
    BY <1>1 DEF IInv, Base, Shapes
  <2>2. \A i \in DOMAIN objects : objects[i].kind \in AllKinds
    <3>1. \A i \in DOMAIN objects : objects[i] \in Objects
      BY <2>1, LenProperties, ElementOfSeq
    <3> QED
      BY <3>1 DEF Objects
  <2>3. \A o \in {objects[i] : i \in DOMAIN objects} :
            /\ o.kind \in AllKinds
            /\ o.parent \in {None} \cup (DOMAIN objects)
            /\ o.state # None => objects[o.state].kind = "states"
    BY <2>1, <2>2 DEF Refers
  <2>4. run.cmd \in {"none", "init", "sync"}
    BY <2>1, RunFacts
  <2>5. \A e \in file \cup run.memory :
            e.key # "relations_created" =>
                objects[e.id].kind = e.key /\ objects[e.id].name = e.name
    <3>1. CASE run = NoCommand
      BY <2>1, <3>1 DEF Links, Linked, NoCommand
    <3>2. CASE run # NoCommand
      BY <2>1, <3>2 DEF Links, Linked
    <3> QED
      BY <3>1, <3>2
  <2> QED
    BY <2>1, <2>3, <2>4, <2>5 DEF TypeOK, Shapes
<1> QED
  BY <1>1, Invariant, PTL

(* The team, a state, a label, the project and a cycle are made once,      *)
(* wherever init dies and however often.                                   *)
THEOREM InitOnce ==
    Spec => []InitIsIdempotent
<1>1. IInv => InitIsIdempotent
  BY DEF IInv
<1> QED
  BY <1>1, Invariant, PTL

(* An issue has at most one copy more than commands have died. *)
THEOREM CopiesAreOfTheDead ==
    Spec => []CopiesNeedADeath
<1>1. ASSUME IInv PROVE CopiesNeedADeath
  <2> SUFFICES ASSUME NEW i \in DOMAIN objects, objects[i].kind \in KindsOf("sync")
               PROVE  Cardinality({j \in DOMAIN objects :
                                       /\ objects[j].kind = objects[i].kind
                                       /\ objects[j].name = objects[i].name})
                          <= 1 + losses
    BY DEF CopiesNeedADeath
  <2> DEFINE kind == objects[i].kind
             name == objects[i].name
             n    == Cardinality(CopiesOf(objects, kind, name))
  <2>1. objects \in Seq(Objects) /\ losses \in Nat /\ CopiesCounted
    BY <1>1 DEF IInv, Base, Shapes
  <2>2. objects[i] \in Objects
    BY <2>1, LenProperties, ElementOfSeq
  <2>3. name \in Titles
    BY <2>2 DEF Objects
  <2>4. n <= losses + (IF name \in Names(Known, kind) THEN 1 ELSE 0)
    BY <2>1, <2>3 DEF CopiesCounted
  <2>5. n \in Nat
    BY <2>1, CopiesAreFinite
  <2>6. n <= 1 + losses
    <3> HIDE DEF n, name, kind
    <3>1. CASE name \in Names(Known, kind)
      BY <2>1, <2>4, <2>5, <3>1
    <3>2. CASE name \notin Names(Known, kind)
      BY <2>1, <2>4, <2>5, <3>2
    <3> QED
      BY <3>1, <3>2
  <2> QED
    BY <2>6 DEF CopiesOf
<1> QED
  BY <1>1, Invariant, PTL

(* A story in the file is under the issue that the file has for its epic,  *)
(* a section under one that it has for a story.                            *)
THEOREM TreeIsTracked ==
    Spec => []TrackedTree
<1>1. IInv => TrackedTree
  BY DEF IInv, Base, Links, Tree, TrackedTree
<1> QED
  BY <1>1, Invariant, PTL

(* A sync that comes to its end has left nothing out of the documents and  *)
(* nothing out of the file.                                                *)
THEOREM SyncIsComplete ==
    Spec => SyncCompletes
<1> DEFINE Complete ==
        run.cmd = "sync" /\ run'.cmd = "none" /\ losses' = losses =>
            /\ Elements(document.epics) \subseteq Names(file', "epics")
            /\ Elements(document.stories) \subseteq Names(file', "stories")
            /\ Elements(Sections(document)) \subseteq Names(file', "qa_issues")
            /\ file \subseteq file'
<1>1. IInv /\ [Next]_vars => Complete
  <2> SUFFICES ASSUME IInv, [Next]_vars,
                      run.cmd = "sync", run'.cmd = "none", losses' = losses
               PROVE  /\ Elements(document.epics) \subseteq Names(file', "epics")
                      /\ Elements(document.stories) \subseteq Names(file', "stories")
                      /\ Elements(Sections(document)) \subseteq Names(file', "qa_issues")
                      /\ file \subseteq file'
    OBVIOUS
  <2>1. Base /\ Shapes /\ Worked /\ losses \in Nat /\ Shapes'
    BY BaseKept DEF IInv, Base, Shapes
  <2>2. run # NoCommand /\ run' = NoCommand
    <3>1. run # NoCommand
      BY DEF NoCommand
    <3>2. run' = NoCommand
      BY <2>1 DEF Shapes, Commands
    <3> QED
      BY <3>1, <3>2
  <2>3. CommandDone
    <3>1. ~Dies /\ ~DiesInSave
      BY <2>1 DEF Dies, DiesInSave
    <3>2. ~StartInit /\ ~StartSync /\ ~KindDone
      BY <2>2 DEF StartInit, StartSync, KindDone, Enter, NoCommand
    <3>3. ~Created
      BY <2>1, <2>2, CreatedEffect
    <3>4. ~RelationsCreated
      BY <2>1, <2>2, RunFacts DEF RelationsCreated, Commands, NoCommand
    <3>5. ~(FileRemoved \/ Move \/ DocumentsEdited \/ UNCHANGED vars)
      BY <2>2 DEF FileRemoved, Move, DocumentsEdited, vars
    <3> QED
      BY <3>1, <3>2, <3>3, <3>4, <3>5 DEF Next
  <2>4. file' = run.memory /\ file \subseteq run.memory
    BY <2>1, <2>3, ReadyFacts DEF CommandDone
  <2>5. run.at = 4
    <3>1. Len(Kinds("sync")) = 4
      BY DEF Kinds, SyncKinds
    <3> QED
      BY <2>3, <3>1 DEF CommandDone, Last
  <2> QED
    BY <2>1, <2>4, <2>5 DEF Worked
<1> QED
  BY <1>1, Invariant, PTL DEF Spec, SyncCompletes
==============================================================================
