------------------------------ MODULE LinearSync ------------------------------
(***************************************************************************)
(* tools/linear_sync.py: "init" and "sync" bring a Linear team in line     *)
(* with the project's documents and keep the ids of what they made in      *)
(* .linear_state.json.  A command holds the file's contents in memory and  *)
(* writes them back at a few places only.  Any request may fail, applied   *)
(* or not, and the command may be killed: then the ids it had in memory    *)
(* are gone, and what it made in Linear is not.                            *)
(***************************************************************************)
EXTENDS Naturals, Sequences, FiniteSets

CONSTANTS
    Wanted,      \* init's kinds -> the list of names of config.py and models.py
    Documents,   \* versions of the documents: [epics, stories, headings], lists
    EpicOf,      \* story -> epic
    SectionOf,   \* heading of the test strategy -> its title
    KeyOf,       \* title -> its first 50 characters, the key in the file
    RelatedTo,   \* heading -> stories its test ids are related to
    DependsOn,   \* STORY_DEPENDENCIES: story -> stories
    PageSize,    \* objects that Linear puts into one answer
    MaxObjects,  \* bound on the objects in Linear
    MaxLosses    \* bound on the commands that die

InitKinds == <<"team", "states", "labels", "project", "cycles">>
SyncKinds == <<"epics", "stories", "qa_issues", "relations_created">>

ASSUME SyncAssumption ==
    /\ DOMAIN Wanted = {InitKinds[n] : n \in DOMAIN InitKinds}
    /\ \A kind \in DOMAIN Wanted : \A m, n \in DOMAIN Wanted[kind] :
            Wanted[kind][m] = Wanted[kind][n] => m = n
    /\ PageSize \in Nat
    /\ \A kind \in DOMAIN Wanted :
            /\ Len(Wanted[kind]) \in 0 .. PageSize
            /\ DOMAIN Wanted[kind] = 1 .. Len(Wanted[kind])
    /\ \A d \in Documents : \A n \in DOMAIN d.stories :
            \E m \in DOMAIN d.epics : EpicOf[d.stories[n]] = d.epics[m]
    /\ MaxObjects \in Nat
    /\ MaxLosses \in Nat

VARIABLES
    objects,    \* Linear: id -> [kind, name, parent, state]
    relations,  \* Linear: <<id, id>>, the first blocks the second
    file,       \* .linear_state.json: its entries [key, name, id]
    torn,       \* whether the file was left half-written
    document,   \* the documents
    run,        \* the command under way, with its state dict in "memory"
    losses      \* history variable: commands that died with ids unsaved

vars == <<objects, relations, file, torn, document, run, losses>>

None == 0
Entry(key, name, id) == [key |-> key, name |-> name, id |-> id]
Ids(map, key, name) == {e.id : e \in {x \in map : x.key = key /\ x.name = name}}
Has(map, key) == \E e \in map : e.key = key
Names(map, key) == {e.name : e \in {x \in map : x.key = key}}
Object(kind, name, parent, state) ==
    [kind |-> kind, name |-> name, parent |-> parent, state |-> state]

NoCommand == [cmd |-> "none", at |-> 0, todo |-> << >>, memory |-> {}]

-----------------------------------------------------------------------------
(* Between two steps *)

Kinds(cmd) == IF cmd = "init" THEN InitKinds ELSE SyncKinds
Kind == Kinds(run.cmd)[run.at]

(* Mutation: a query without its filter. *)
ExistingUnfiltered(kind) ==
    {Entry(kind, objects[id].name, id) : id \in DOMAIN objects}

(* What Linear has of a kind. *)
Existing(kind) ==
    {Entry(kind, objects[id].name, id) : id \in {i \in DOMAIN objects : objects[i].kind = kind}}

(* get_teams, get_labels and so on: one page of it, and no second one.     *)
Pages(kind) ==
    {found \in SUBSET Existing(kind) :
        IF Cardinality(Existing(kind)) <= PageSize THEN found = Existing(kind)
        ELSE Cardinality(found) = PageSize}

Elements(list) == {list[n] : n \in DOMAIN list}

(* Test cases are grouped by the title of their heading, without its       *)
(* number: two headings with one title are one section.  The file has it   *)
(* under a key, and of two titles with one key only the first gets an      *)
(* issue.                                                                  *)
Sections(doc) == [n \in DOMAIN doc.headings |-> KeyOf[SectionOf[doc.headings[n]]]]
TitlesFor(key) ==
    {SectionOf[document.headings[n]] : n \in
        {m \in DOMAIN document.headings :
            /\ Sections(document)[m] = key
            /\ \A k \in 1 .. m - 1 : Sections(document)[k] # key}}
HeadingsOf(key) ==
    {h \in Elements(document.headings) : SectionOf[h] \in TitlesFor(key)}

Dependencies(memory) ==
    UNION {UNION {Ids(memory, "stories", d) \X Ids(memory, "stories", s) : d \in DependsOn[s]} :
               s \in Names(memory, "stories")}

(* What sync goes through, one kind after the other.                       *)
SyncList(kind) ==
    CASE kind = "epics"     -> document.epics
      [] kind = "stories"   -> document.stories
      [] kind = "qa_issues" -> Sections(document)
      [] OTHER              -> << >>

(* Mutation: init creates without asking Linear what is there.             *)
EnterUnasked(cmd, at, memory) ==
    LET kind == Kinds(cmd)[at]
    IN  run' = [cmd |-> cmd, at |-> at, memory |-> memory, todo |->
                   IF cmd = "sync" THEN SyncList(kind)
                   ELSE IF Has(memory, kind) THEN << >> ELSE Wanted[kind]]

(* The command comes to its next kind.  init skips a kind whose key is in  *)
(* the file, else it takes over what Linear lists.                         *)
Enter(cmd, at, memory) ==
    LET kind == Kinds(cmd)[at]
    IN  \E found \in IF cmd = "init" /\ ~Has(memory, kind) THEN Pages(kind) ELSE {{}} :
            run' = [cmd |-> cmd, at |-> at, memory |-> memory \cup found, todo |->
                       IF cmd = "sync" THEN SyncList(kind)
                       ELSE IF Has(memory, kind) THEN << >> ELSE Wanted[kind]]

(* Mutation: sync looks every issue up in the QA map.                      *)
MissingInWrongMap ==
    {n \in DOMAIN run.todo : run.todo[n] \notin
        Names(run.memory, IF run.cmd = "sync" THEN "qa_issues" ELSE Kind)}

(* The loop over a list skips the names that the map holds, and asks       *)
(* Linear to create the others in their order.                             *)
Missing == {n \in DOMAIN run.todo : run.todo[n] \notin Names(run.memory, Kind)}
Requested(name) ==
    \E n \in Missing : run.todo[n] = name /\ \A m \in Missing : n <= m

-----------------------------------------------------------------------------
(* The commands *)

Idle == run = NoCommand /\ ~torn

StartInit ==
    /\ Idle
    /\ Enter("init", 1, file)
    /\ UNCHANGED <<objects, relations, file, torn, document, losses>>

(* sync asks only for the team: an init that died later is good enough. *)
StartSync ==
    /\ Idle
    /\ Has(file, "team")
    /\ Enter("sync", 1, file)
    /\ UNCHANGED <<objects, relations, file, torn, document, losses>>

(* Mutation: stories are not put under their epic but under any.           *)
AnyParent(kind, name) ==
    CASE kind = "stories" -> UNION {Ids(run.memory, "epics", e) : e \in Elements(document.epics)}
      [] kind = "qa_issues" ->
            UNION {Ids(run.memory, "stories", s) :
                s \in UNION {RelatedTo[h] : h \in HeadingsOf(name)}}
      [] OTHER -> {}

(* The issues that may become the parent: a story's epic, a story one of   *)
(* the section's tests is related to (the first one in the map).           *)
Parents(kind, name) ==
    CASE kind = "stories" -> Ids(run.memory, "epics", EpicOf[name])
      [] kind = "qa_issues" ->
            UNION {Ids(run.memory, "stories", s) :
                s \in UNION {RelatedTo[h] : h \in HeadingsOf(name)}}
      [] OTHER -> {}

(* The create request of a kind, as Linear applies it. *)
Create(kind, name) ==
    LET parents == Parents(kind, name)
        backlog == Ids(run.memory, "states", "Backlog")
    IN  /\ Len(objects) < MaxObjects
        /\ \E parent \in IF parents = {} THEN {None} ELSE parents,
              state \in IF backlog = {} \/ run.cmd = "init" THEN {None} ELSE backlog :
            objects' = Append(objects, Object(kind, name, parent, state))

(* The answer to it: the id goes into the map. *)
Created ==
    /\ \E name \in Elements(run.todo) :
          /\ Requested(name)
          /\ Create(Kind, name)
          /\ run' = [run EXCEPT !.memory = @ \cup {Entry(Kind, name, Len(objects) + 1)}]
    /\ UNCHANGED <<relations, file, torn, document, losses>>

(* The relations are asked for one after the other, by the first sync that *)
(* gets there; a RuntimeError is taken for "already exists".  None depends *)
(* on another, so all of them are one step, of which some are refused.     *)
RelationsCreated ==
    /\ run.cmd = "sync" /\ Kind = "relations_created"
    /\ ~Has(run.memory, Kind)
    /\ \E accepted \in SUBSET Dependencies(run.memory) :
          relations' = relations \cup accepted
    /\ run' = [run EXCEPT !.memory = @ \cup {Entry(Kind, "count", None)}]
    /\ UNCHANGED <<objects, file, torn, document, losses>>

Saved == run.cmd = "init" /\ Kind \in {"team", "states", "labels"}
Last == run.at = Len(Kinds(run.cmd))
Ready ==
    /\ run.cmd # "none"
    /\ Missing = {}
    /\ Kind = "relations_created" => Has(run.memory, Kind)

(* A kind is complete and is not the last: to the next one, with the file  *)
(* written or not.                                                         *)
KindDone ==
    /\ Ready /\ ~Last
    /\ Enter(run.cmd, run.at + 1, run.memory)
    /\ file' = IF Saved THEN run.memory ELSE file
    /\ UNCHANGED <<objects, relations, torn, document, losses>>

(* Mutation: sync ends without saving.                                     *)
CommandDoneUnsaved ==
    /\ Ready /\ Last
    /\ file' = IF run.cmd = "sync" THEN file ELSE run.memory
    /\ run' = NoCommand
    /\ UNCHANGED <<objects, relations, torn, document, losses>>

CommandDone ==
    /\ Ready /\ Last
    /\ file' = run.memory
    /\ run' = NoCommand
    /\ UNCHANGED <<objects, relations, torn, document, losses>>

(* A request raises, or the command is killed at it: RuntimeError, a       *)
(* timeout, Ctrl-C.  Linear may have applied the request.  A relation that *)
(* is not answered at all is not a RuntimeError either.                    *)
Dies ==
    /\ run.cmd # "none"
    /\ losses < MaxLosses
    /\ \/ UNCHANGED <<objects, relations>>
       \/ /\ \E name \in Elements(run.todo) : Requested(name) /\ Create(Kind, name)
          /\ UNCHANGED relations
       \/ /\ Kind = "relations_created"
          /\ ~Has(run.memory, Kind)
          /\ \E applied \in SUBSET Dependencies(run.memory) :
                relations' = relations \cup applied
          /\ UNCHANGED objects
    /\ run' = NoCommand
    /\ losses' = losses + 1
    /\ UNCHANGED <<file, torn, document>>

(* It is killed in write_text, which has truncated the file.               *)
DiesInSave ==
    /\ Ready
    /\ Saved \/ Last
    /\ losses < MaxLosses
    /\ torn' = TRUE
    /\ file' = {}
    /\ run' = NoCommand
    /\ losses' = losses + 1
    /\ UNCHANGED <<objects, relations, document>>

(* Until a person removes the file, load_state raises in every command. *)
FileRemoved ==
    /\ torn
    /\ torn' = FALSE
    /\ UNCHANGED <<objects, relations, file, document, run, losses>>

(* "move": the issue of a story, or of an epic, gets another state.        *)
Move ==
    /\ Idle
    /\ \E name \in Names(file, "stories") \cup Names(file, "epics"),
          state \in {e.id : e \in {x \in file : x.key = "states"}} :
        LET ids == IF name \in Names(file, "stories")
                   THEN Ids(file, "stories", name) ELSE Ids(file, "epics", name)
        IN  \E id \in ids : objects' = [objects EXCEPT ![id].state = state]
    /\ UNCHANGED <<relations, file, torn, document, run, losses>>

(* The documents are read once, when sync starts.                          *)
DocumentsEdited ==
    /\ run = NoCommand
    /\ document' \in Documents
    /\ document' # document
    /\ UNCHANGED <<objects, relations, file, torn, run, losses>>

Init ==
    /\ objects = << >>
    /\ relations = {}
    /\ file = {}
    /\ torn = FALSE
    /\ document \in Documents
    /\ run = NoCommand
    /\ losses = 0

Next ==
    \/ StartInit \/ StartSync
    \/ Created \/ RelationsCreated \/ KindDone \/ CommandDone
    \/ Dies \/ DiesInSave \/ FileRemoved
    \/ Move \/ DocumentsEdited

Spec == Init /\ [][Next]_vars

-----------------------------------------------------------------------------
(* Properties *)

KindsOf(cmd) == {Kinds(cmd)[n] : n \in DOMAIN Kinds(cmd)}
AllKinds == KindsOf("init") \cup KindsOf("sync")

(* Whatever dies when: an id in the file, or in the memory of a command,   *)
(* is the id of an object of that kind and that name.                      *)
TypeOK ==
    /\ \A o \in {objects[i] : i \in DOMAIN objects} :
        /\ o.kind \in AllKinds
        /\ o.parent \in {None} \cup (DOMAIN objects)
        /\ o.state # None => objects[o.state].kind = "states"
    /\ relations \subseteq (DOMAIN objects) \X (DOMAIN objects)
    /\ torn \in BOOLEAN /\ document \in Documents /\ losses \in 0 .. MaxLosses
    /\ run.cmd \in {"none", "init", "sync"}
    /\ \A e \in file \cup run.memory :
        e.key # "relations_created" =>
            objects[e.id].kind = e.key /\ objects[e.id].name = e.name

(* linear_sync.py: "Find or create", "already configured".  init may die   *)
(* anywhere, any number of times, and the file may be lost: the team, a    *)
(* state, a label, the project or a cycle is never made twice.             *)
InitIsIdempotent ==
    \A i, j \in DOMAIN objects :
        /\ objects[i].kind \in KindsOf("init")
        /\ objects[i].kind = objects[j].kind
        /\ objects[i].name = objects[j].name
        => i = j

(* sync does not ask Linear, it trusts the file: an issue has no more      *)
(* copies than commands died, and without a death it is made once, however *)
(* often sync runs and the documents change.                               *)
CopiesNeedADeath ==
    \A i \in DOMAIN objects :
        objects[i].kind \in KindsOf("sync") =>
            Cardinality({j \in DOMAIN objects : /\ objects[j].kind = objects[i].kind
                                                /\ objects[j].name = objects[i].name})
                <= 1 + losses

(* The issues in the file hang together: a story's parent is the issue     *)
(* that the file has for its epic, a section's parent one that it has for  *)
(* a story, and never a copy that a dead command left behind.              *)
TrackedTree ==
    \A e \in file :
        /\ e.key = "stories" => objects[e.id].parent \in Ids(file, "epics", EpicOf[e.name])
        /\ e.key = "qa_issues" /\ objects[e.id].parent # None =>
              \E s \in file : s.key = "stories" /\ s.id = objects[e.id].parent

(* A sync that ends has an issue in the file for every epic, story and     *)
(* section of the documents, and has kept every entry the file had.  A     *)
(* section counts as there when its key is: linear_sync.py:286 takes two   *)
(* titles with the same first 50 characters for one.                       *)
SyncCompletes ==
    [][run.cmd = "sync" /\ run'.cmd = "none" /\ losses' = losses =>
        /\ Elements(document.epics) \subseteq Names(file', "epics")
        /\ Elements(document.stories) \subseteq Names(file', "stories")
        /\ Elements(Sections(document)) \subseteq Names(file', "qa_issues")
        /\ file \subseteq file']_vars
===============================================================================
