----------------------------- MODULE Daemon_proofs -----------------------------
(***************************************************************************)
(* Proofs about Daemon: for any issues, stories and dependencies, any      *)
(* limits, any state file, people who move issues anywhere, and a process  *)
(* that may be killed at any time, the daemon's memory agrees with its     *)
(* tasks.                                                                  *)
(***************************************************************************)
EXTENDS Daemon, TLAPS

(* The statuses that an issue may have while its task waits at pc. *)
Reported(pc) ==
    CASE pc = "queued" -> {"queued"}
      [] pc \in {"in_progress", "workspace"} -> {"dispatched"}
      [] pc \in {"workpad", "attempt", "agent", "attempt_failed", "backoff", "verdict"}
            -> {"running"}
      [] pc = "review" -> {"reviewing"}
      [] pc = "review_skipped" -> {"running", "reviewing"}
      [] pc \in {"in_review", "pr_note"} -> {"pr_created"}
      [] OTHER -> {"failed"}

(* Task t agrees with the status s of its issue. *)
Fits(t, s) ==
    /\ s \in Reported(t.pc)
    /\ t.pc \in {"queued", "in_progress", "workspace", "workpad"} => t.attempt = 0
    /\ t.pc = "backoff" => t.attempt < MaxAttempts

TasksFit == \A t \in tasks : Fits(t, status[t.issue])

(* The task that has left an agent at work has failed, and so the process  *)
(* remembers the issue as tracked; no other task comes to it.              *)
OrphansFailed == \A i \in orphans : status[i] = "failed"

(* A board that shows an issue as Done, now or when it was read. *)
DoneIsKnown ==
    \A i \in Issues :
        /\ linear[i] = "Done" => i \in everDone
        /\ poller # Waiting /\ i \in DOMAIN poller.board /\ poller.board[i] = "Done"
              => i \in everDone

IInv ==
    /\ TypeOK
    /\ TasksFit
    /\ OneTaskPerIssue
    /\ SlotsNotLeaked
    /\ OrphansFailed
    /\ LostAgentsKeepWorkspaces
    /\ DoneIsKnown
    /\ DependenciesWereDone

Tasks == [issue : Issues, pc : Places, attempt : 0 .. MaxAttempts]

LEMMA InitIInv == Init => IInv
BY DaemonAssumption
   DEF Init, IInv, TypeOK, Statuses, Active, Waiting, TasksFit,
       OneTaskPerIssue, SlotsNotLeaked, OrphansFailed, LostAgentsKeepWorkspaces, DoneIsKnown,
       DependenciesWereDone

-----------------------------------------------------------------------------
(* What a step of a task amounts to *)

(* The task goes on as u, or ends; its issue has status s. *)
GoesOn(t, u, s) ==
    /\ tasks' = (tasks \ {t}) \cup {u}
    /\ u \in Tasks /\ u.issue = t.issue
    /\ Fits(u, s)
Ends(t, s) ==
    /\ tasks' = tasks \ {t}
    /\ s \notin Active \cup {"queued"}
Moves(t, s) == (\E u \in Tasks : GoesOn(t, u, s)) \/ Ends(t, s)

Sets(t, s, b) ==
    /\ s \in Statuses \ {"untracked"}
    /\ status[t.issue] = "failed" => s = "failed"
    /\ status' = [status EXCEPT ![t.issue] = s]
    /\ b \in {linear[t.issue], "In Progress", "In Review", "Blocked"}
    /\ linear' = [linear EXCEPT ![t.issue] = b]

(* An agent may outlive a task that fails while it runs. *)
Leaves(t, s) ==
    \/ orphans' = orphans
    \/ /\ orphans' = orphans \cup {t.issue}
       /\ t.pc = "agent" /\ s = "failed"
       /\ \A u \in tasks' : u.issue = t.issue => u.pc = "error_blocked"

Effect(t, s, b) ==
    /\ Sets(t, s, b)
    /\ Moves(t, s)
    /\ Leaves(t, s)
    /\ UNCHANGED <<mode, statesMapped, poller, strays, everDone>>

LEMMA TaskFacts ==
    ASSUME IInv, NEW t \in tasks
    PROVE  /\ t \in Tasks
           /\ t = [issue |-> t.issue, pc |-> t.pc, attempt |-> t.attempt]
           /\ status[t.issue] \in Reported(t.pc)
           /\ Fits(t, status[t.issue])
           /\ status \in [Issues -> Statuses]
           /\ linear \in [Issues -> BoardStates]
BY DEF IInv, TypeOK, Tasks, TasksFit, Fits

LEMMA GoToMoves ==
    ASSUME IInv, NEW t \in tasks, NEW pc \in Places, NEW s,
           GoTo(t, pc), s \in Reported(pc),
           pc = "backoff" => t.attempt < MaxAttempts
    PROVE  /\ Moves(t, s)
           /\ \A u \in tasks' : u.issue = t.issue => u.pc = pc
<1> DEFINE u == [t EXCEPT !.pc = pc, !.attempt = IF pc \in Retrying THEN @ ELSE 0]
<1>1. u \in Tasks /\ u.issue = t.issue /\ u.pc = pc
  <2>1. t.attempt \in 0 .. MaxAttempts /\ 0 \in 0 .. MaxAttempts
    BY TaskFacts, DaemonAssumption DEF Tasks
  <2>2. t \in [issue : Issues, pc : Places, attempt : 0 .. MaxAttempts]
    BY TaskFacts DEF Tasks
  <2>3. u \in [issue : Issues, pc : Places, attempt : 0 .. MaxAttempts]
    BY <2>1, <2>2
  <2> QED
    BY <2>2, <2>3 DEF Tasks
<1>2. u.attempt = IF pc \in Retrying THEN t.attempt ELSE 0
  BY TaskFacts
<1>3. tasks' = (tasks \ {t}) \cup {u}
  BY DEF GoTo
<1> HIDE DEF u
<1>4. Fits(u, s)
  BY <1>1, <1>2 DEF Fits, Retrying
<1> QED
  BY <1>1, <1>3, <1>4 DEF Moves, GoesOn, IInv, OneTaskPerIssue

LEMMA FailsMoves ==
    ASSUME IInv, NEW t \in tasks, Fails(t)
    PROVE  /\ Moves(t, "failed")
           /\ \A u \in tasks' : u.issue = t.issue => u.pc = "error_blocked"
           /\ status' = [status EXCEPT ![t.issue] = "failed"]
<1>1. CASE statesMapped
  <2>1. GoTo(t, "error_blocked")
    BY <1>1 DEF Fails
  <2> QED
    BY <2>1, GoToMoves DEF Places, Fails, SetStatus, Reported
<1>2. CASE ~statesMapped
  BY <1>2 DEF Fails, Finish, Moves, Ends, Active, SetStatus, IInv, OneTaskPerIssue
<1> QED
  BY <1>1, <1>2

LEMMA GivesUpMoves ==
    ASSUME IInv, NEW t \in tasks, GivesUp(t)
    PROVE  Moves(t, "failed") /\ status' = [status EXCEPT ![t.issue] = "failed"]
<1>1. PICK pc \in {"blocked", "fail_note"} : GoTo(t, pc)
  BY DEF GivesUp
<1> QED
  BY <1>1, GoToMoves DEF Places, GivesUp, SetStatus, Reported

LEMMA PRCreatedMoves ==
    ASSUME IInv, NEW t \in tasks, PRCreated(t)
    PROVE  Moves(t, "pr_created") /\ status' = [status EXCEPT ![t.issue] = "pr_created"]
<1>1. PICK pc \in {"in_review", "pr_note"} : GoTo(t, pc)
  BY DEF PRCreated
<1> QED
  BY <1>1, GoToMoves DEF Places, PRCreated, SetStatus, Reported

LEMMA BeginAttemptMoves ==
    ASSUME IInv, NEW t \in tasks, t.attempt < MaxAttempts, BeginAttempt(t)
    PROVE  Moves(t, "running") /\ status' = [status EXCEPT ![t.issue] = "running"]
<1> DEFINE u == [t EXCEPT !.pc = "attempt", !.attempt = @ + 1]
<1>1. u \in Tasks /\ u.issue = t.issue
  <2>1. t.attempt + 1 \in 0 .. MaxAttempts
    BY TaskFacts, DaemonAssumption DEF Tasks
  <2>2. t \in [issue : Issues, pc : Places, attempt : 0 .. MaxAttempts] /\ "attempt" \in Places
    BY TaskFacts DEF Tasks, Places
  <2>3. u \in [issue : Issues, pc : Places, attempt : 0 .. MaxAttempts]
    BY ONLY <2>1, <2>2
  <2> QED
    BY <2>2, <2>3 DEF Tasks
<1>2. Fits(u, "running")
  BY TaskFacts DEF Fits, Reported, Tasks
<1> QED
  BY <1>1, <1>2 DEF BeginAttempt, SetStatus, Moves, GoesOn

(* What the steps of a task leave alone, and what they set. *)
LEMMA SetsFrom ==
    ASSUME IInv, NEW t \in tasks, NEW s \in Statuses \ {"untracked"}, NEW b,
           status[t.issue] = "failed" => s = "failed",
           status' = [status EXCEPT ![t.issue] = s],
           \/ b = linear[t.issue] /\ UNCHANGED <<linear, everDone>>
           \/ b \in {"In Progress", "In Review", "Blocked"} /\ Moved(t, b)
    PROVE  Sets(t, s, b) /\ everDone' = everDone
BY TaskFacts DEF Sets, Moved, Tasks

LEMMA StatusKept ==
    ASSUME IInv, NEW t \in tasks, UNCHANGED status
    PROVE  /\ status' = [status EXCEPT ![t.issue] = status[t.issue]]
           /\ status[t.issue] \in Statuses \ {"untracked"}
BY TaskFacts DEF Tasks, Reported, Statuses, Active

(* The update of the board by task t, applied or not. *)
Board(t, to, b) ==
    \/ b = linear[t.issue] /\ UNCHANGED <<linear, everDone>>
    \/ b = to /\ Moved(t, to)

LEMMA MaybeMovedBoard ==
    ASSUME NEW t \in tasks, NEW to, MaybeMoved(t, to)
    PROVE  \E b \in {linear[t.issue], to} : Board(t, to, b)
BY DEF MaybeMoved, Board

LEMMA TaskStepEffect ==
    ASSUME IInv, NEW t \in tasks, TaskStep(t)
    PROVE  \E s, b : Effect(t, s, b)
<1> DEFINE here == linear[t.issue]
           now  == status[t.issue]
<1>0. UNCHANGED <<mode, statesMapped, poller, strays>>
  BY DEF TaskStep
<1>1. CASE AgentReturns(t)
  <2>1. /\ t.pc = "agent" /\ now = "running"
        /\ UNCHANGED <<linear, everDone>>
    BY <1>1, TaskFacts DEF AgentReturns, Fits, Reported
  <2>2. CASE /\ ReviewEnabled /\ SetStatus(t, "reviewing") /\ GoTo(t, "review")
             /\ UNCHANGED orphans
    <3>1. Moves(t, "reviewing")
      BY <2>1, <2>2, TaskFacts, GoToMoves DEF Fits, Reported, Tasks, Places
    <3>2. Sets(t, "reviewing", here)
      BY <2>1, <2>2, SetsFrom DEF SetStatus, Statuses, Active
    <3> QED
      BY <1>0, <2>1, <2>2, <3>1, <3>2 DEF Effect, Leaves
  <2>3. CASE ~ReviewEnabled /\ PRCreated(t) /\ UNCHANGED orphans
    <3>1. Moves(t, "pr_created") /\ Sets(t, "pr_created", here)
      BY <2>1, <2>3, PRCreatedMoves, SetsFrom DEF Statuses, Active
    <3> QED
      BY <1>0, <2>1, <2>3, <3>1 DEF Effect, Leaves
  <2>4. CASE GivesUp(t) /\ UNCHANGED orphans
    <3>1. Moves(t, "failed") /\ Sets(t, "failed", here)
      BY <2>1, <2>4, GivesUpMoves, SetsFrom DEF Statuses, Active
    <3> QED
      BY <1>0, <2>1, <2>4, <3>1 DEF Effect, Leaves
  <2>5. CASE GoTo(t, "attempt_failed") /\ UNCHANGED <<status, orphans>>
    <3>1. Moves(t, now)
      BY <2>1, <2>5, TaskFacts, GoToMoves DEF Fits, Reported, Tasks, Places
    <3>2. Sets(t, now, here)
      BY <2>1, <2>5, StatusKept, SetsFrom
    <3> QED
      BY <1>0, <2>1, <2>5, <3>1, <3>2 DEF Effect, Leaves
  <2>6. CASE Fails(t) /\ orphans' \in {orphans, orphans \cup {t.issue}}
    <3>1. Moves(t, "failed") /\ Sets(t, "failed", here)
      BY <2>1, <2>6, FailsMoves, SetsFrom DEF Statuses, Active
    <3>2. Leaves(t, "failed")
      BY <2>1, <2>6, FailsMoves DEF Leaves
    <3> QED
      BY <1>0, <2>1, <3>1, <3>2 DEF Effect
  <2> QED
    BY <1>1, <2>2, <2>3, <2>4, <2>5, <2>6 DEF AgentReturns
<1> SUFFICES ASSUME ~AgentReturns(t) PROVE \E s, b : Effect(t, s, b)
  BY <1>1
<1>2. orphans' = orphans
  BY DEF TaskStep
<1>3. ASSUME NEW s, NEW b, Sets(t, s, b), Moves(t, s), UNCHANGED everDone
      PROVE  \E x, y : Effect(t, x, y)
  BY <1>0, <1>2, <1>3 DEF Effect, Leaves
<1>4. ASSUME Fails(t), NEW b, \E to \in {"In Progress", "In Review", "Blocked"} : Board(t, to, b)
      PROVE  \E x, y : Effect(t, x, y)
  BY <1>3, <1>4, FailsMoves, SetsFrom DEF Board, Statuses, Active
<1>5. ASSUME GivesUp(t), UNCHANGED <<linear, everDone>>
      PROVE  \E x, y : Effect(t, x, y)
  BY <1>3, <1>5, GivesUpMoves, SetsFrom DEF Statuses, Active
<1>6. ASSUME PRCreated(t), now # "failed",
             UNCHANGED <<linear, everDone>>
      PROVE  \E x, y : Effect(t, x, y)
  BY <1>3, <1>6, PRCreatedMoves, SetsFrom DEF Statuses, Active
<1>7. ASSUME BeginAttempt(t), now # "failed",
             t.attempt < MaxAttempts, UNCHANGED <<linear, everDone>>
      PROVE  \E x, y : Effect(t, x, y)
  BY <1>3, <1>7, BeginAttemptMoves, SetsFrom DEF Statuses, Active
<1>8. ASSUME Fails(t), UNCHANGED <<linear, everDone>>
      PROVE  \E x, y : Effect(t, x, y)
  BY <1>4, <1>8 DEF Board
<1>9. CASE TaskStarts(t)
  <2>1. t.pc = "queued" /\ now = "queued" /\ t.attempt = 0 /\ UNCHANGED <<linear, everDone>>
    BY <1>9, TaskFacts DEF TaskStarts, Fits, Reported
  <2>2. PICK pc \in {"in_progress", "workspace"} :
            GoTo(t, pc)
    BY <1>9 DEF TaskStarts
  <2>3. Moves(t, "dispatched")
    BY <2>1, <2>2, TaskFacts, GoToMoves DEF Fits, Reported, Tasks, Places
  <2> QED
    BY <1>3, <1>9, <2>1, <2>3, SetsFrom DEF TaskStarts, SetStatus, Statuses, Active
<1>10. CASE InProgressSet(t)
  <2>1. CASE Moved(t, "In Progress") /\ GoTo(t, "workspace") /\ UNCHANGED status
    <3>0. now \in Reported("workspace") /\ "workspace" \in Places
      BY <1>10, TaskFacts DEF InProgressSet, Reported, Places
    <3>1. Moves(t, now)
      BY <2>1, <3>0, GoToMoves
    <3> QED
      BY <1>3, <2>1, <3>1, StatusKept, SetsFrom DEF Moved
  <2>2. CASE MaybeMoved(t, "In Progress") /\ Fails(t)
    BY <1>4, <2>2, MaybeMovedBoard
  <2> QED
    BY <1>10, <2>1, <2>2 DEF InProgressSet
<1>11. CASE WorkspaceCreated(t)
  <2>1. CASE SetStatus(t, "running") /\ GoTo(t, "workpad")
    <3>1. Moves(t, "running")
      BY <1>11, <2>1, TaskFacts, GoToMoves DEF WorkspaceCreated, Fits, Reported, Tasks, Places
    <3>2. now # "failed"
      BY <1>11, TaskFacts DEF WorkspaceCreated, Reported
    <3> QED
      BY <1>3, <1>11, <2>1, <3>1, <3>2, SetsFrom
         DEF WorkspaceCreated, SetStatus, Statuses, Active
  <2> QED
    BY <1>8, <1>11, <2>1 DEF WorkspaceCreated
<1>12. CASE WorkpadCreated(t)
  <2>1. t.attempt < MaxAttempts /\ now # "failed"
    BY <1>12, TaskFacts, DaemonAssumption DEF WorkpadCreated, Fits, Reported
  <2> QED
    BY <1>7, <1>8, <1>12, <2>1 DEF WorkpadCreated
<1>13. CASE AttemptNoted(t)
  <2>1. CASE GoTo(t, "agent") /\ UNCHANGED status
    <3>1. Moves(t, now)
      BY <1>13, <2>1, TaskFacts, GoToMoves DEF AttemptNoted, Fits, Reported, Tasks, Places
    <3> QED
      BY <1>3, <1>13, <2>1, <3>1, StatusKept, SetsFrom DEF AttemptNoted
  <2> QED
    BY <1>8, <1>13, <2>1 DEF AttemptNoted
<1>14. CASE FailedAttemptNoted(t)
  <2>2. CASE t.attempt < MaxAttempts /\ GoTo(t, "backoff") /\ UNCHANGED status
    <3>1. Moves(t, now)
      BY <1>14, <2>2, TaskFacts, GoToMoves
         DEF FailedAttemptNoted, Fits, Reported, Tasks, Places
    <3> QED
      BY <1>3, <1>14, <2>2, <3>1, StatusKept, SetsFrom DEF FailedAttemptNoted
  <2> QED
    BY <1>5, <1>8, <1>14, <2>2 DEF FailedAttemptNoted
<1>15. CASE BackoffEnds(t)
  <2>1. t.attempt < MaxAttempts /\ now # "failed"
    BY <1>15, TaskFacts DEF BackoffEnds, Fits, Reported
  <2> QED
    BY <1>7, <1>15, <2>1 DEF BackoffEnds
<1>16. CASE ReviewReturns(t) \/ VerdictNoted(t) \/ SkipNoted(t)
  <2>1. /\ t.pc \in {"review", "verdict", "review_skipped"}
        /\ now \in {"running", "reviewing"}
        /\ UNCHANGED <<linear, everDone>>
    BY <1>16, TaskFacts DEF ReviewReturns, VerdictNoted, SkipNoted, Fits, Reported
  <2>2. CASE SetStatus(t, "running") /\ GoTo(t, "verdict")
    <3>1. Moves(t, "running")
      BY <2>1, <2>2, TaskFacts, GoToMoves DEF Fits, Reported, Tasks, Places
    <3> QED
      BY <1>3, <2>1, <2>2, <3>1, SetsFrom DEF SetStatus, Statuses, Active
  <2>3. CASE GoTo(t, "review_skipped") /\ UNCHANGED status
    <3>1. Moves(t, now)
      BY <2>1, <2>3, TaskFacts, GoToMoves DEF Fits, Reported, Tasks, Places
    <3> QED
      BY <1>3, <2>1, <2>3, <3>1, StatusKept, SetsFrom
  <2> QED
    BY <1>6, <1>8, <1>16, <2>1, <2>2, <2>3 DEF ReviewReturns, VerdictNoted, SkipNoted
<1>17. CASE InReviewSet(t) \/ BlockedSet(t)
  <2>1. CASE \/ /\ InReviewSet(t) /\ UNCHANGED status
                /\ Moved(t, "In Review") /\ GoTo(t, "pr_note")
             \/ /\ BlockedSet(t) /\ UNCHANGED status
                /\ Moved(t, "Blocked") /\ GoTo(t, "fail_note")
    <3>1. PICK b \in {"In Review", "Blocked"}, pc \in {"pr_note", "fail_note"} :
              /\ Moved(t, b) /\ GoTo(t, pc)
              /\ pc = "pr_note" => t.pc = "in_review" /\ b = "In Review"
              /\ pc = "fail_note" => t.pc = "blocked"
      BY <2>1 DEF InReviewSet, BlockedSet
    <3>0. now \in Reported(pc) /\ pc \in Places /\ pc # "backoff"
      BY <3>1, TaskFacts DEF Reported, Places
    <3>2. Moves(t, now)
      BY <3>0, <3>1, GoToMoves
    <3> QED
      BY <1>3, <2>1, <3>1, <3>2, StatusKept, SetsFrom DEF Moved
  <2>2. CASE Fails(t) /\ \E to \in {"In Review", "Blocked"} : MaybeMoved(t, to)
    <3>1. PICK to \in {"In Review", "Blocked"} : MaybeMoved(t, to)
      BY <2>2
    <3>2. PICK b : Board(t, to, b)
      BY <3>1, MaybeMovedBoard
    <3> QED
      BY <1>4, <2>2, <3>2
  <2> QED
    BY <1>17, <2>1, <2>2 DEF InReviewSet, BlockedSet
<1>18. CASE LastNoteWritten(t)
  <2>1. CASE Finish(t) /\ UNCHANGED status
    <3>1. Moves(t, now)
      BY <1>18, <2>1, TaskFacts
         DEF LastNoteWritten, Finish, Moves, Ends, Fits, Reported, Active
    <3> QED
      BY <1>3, <1>18, <2>1, <3>1, StatusKept, SetsFrom DEF LastNoteWritten
  <2> QED
    BY <1>8, <1>18, <2>1 DEF LastNoteWritten
<1>19. CASE ErrorBlockedSet(t)
  <2>1. PICK b : Board(t, "Blocked", b)
    BY <1>19, MaybeMovedBoard DEF ErrorBlockedSet
  <2>2. Moves(t, now)
    BY <1>19, TaskFacts DEF ErrorBlockedSet, Finish, Moves, Ends, Fits, Reported, Active
  <2> QED
    BY <1>3, <1>19, <2>1, <2>2, StatusKept, SetsFrom DEF ErrorBlockedSet, Board, Moved
<1> QED
  BY <1>9, <1>10, <1>11, <1>12, <1>13, <1>14, <1>15, <1>16, <1>17, <1>18, <1>19 DEF TaskStep

-----------------------------------------------------------------------------
(* The inductive invariant *)

LEMMA ErrorBlockedEnds ==
    ASSUME NEW t \in tasks, TaskStep(t), t.pc = "error_blocked"
    PROVE  Finish(t)
BY DEF TaskStep, AgentReturns, TaskStarts, InProgressSet, WorkspaceCreated, WorkpadCreated,
       AttemptNoted, FailedAttemptNoted, BackoffEnds, ReviewReturns, VerdictNoted, SkipNoted,
       InReviewSet, BlockedSet, LastNoteWritten, ErrorBlockedSet

LEMMA EffectKeepsIInv ==
    ASSUME IInv, NEW t \in tasks, NEW s, NEW b, Effect(t, s, b),
           t.pc = "error_blocked" => Finish(t)
    PROVE  IInv'
<1> DEFINE i == t.issue
<1>1. /\ t \in Tasks /\ i \in Issues
      /\ status \in [Issues -> Statuses] /\ linear \in [Issues -> BoardStates]
  BY TaskFacts DEF Tasks
<1>2. /\ s \in Statuses \ {"untracked"}
      /\ b \in {linear[i], "In Progress", "In Review", "Blocked"}
      /\ b \in BoardStates
      /\ status' = [status EXCEPT ![i] = s]
      /\ linear' = [linear EXCEPT ![i] = b]
      /\ UNCHANGED <<mode, statesMapped, poller, strays, everDone>>
  BY <1>1 DEF Effect, Sets, BoardStates
<1>3. \A j \in Issues : /\ status'[j] = IF j = i THEN s ELSE status[j]
                        /\ linear'[j] = IF j = i THEN b ELSE linear[j]
  BY <1>1, <1>2
<1>4. \A u \in tasks' : \/ u \in tasks \ {t} /\ u.issue # i
                        \/ u \in Tasks /\ u.issue = i /\ Fits(u, s)
  BY DEF Effect, Moves, GoesOn, Ends, IInv, OneTaskPerIssue
<1>5. \A u \in tasks \ {t} : u \in tasks' /\ u.issue # i
  BY DEF Effect, Moves, GoesOn, Ends, IInv, OneTaskPerIssue
<1>6. \A u \in tasks : u \in Tasks /\ u.issue \in Issues
  BY DEF IInv, TypeOK, Tasks
<1>7. \/ \E u \in tasks' : u.issue = i
      \/ Ends(t, s)
  BY DEF Effect, Moves, GoesOn
<1>8. TypeOK'
  <2>1. tasks' \subseteq Tasks
    BY <1>4, <1>6
  <2>2. orphans' \subseteq Issues
    BY <1>1 DEF Effect, Leaves, IInv, TypeOK
  <2> QED
    BY <1>1, <1>2, <2>1, <2>2 DEF IInv, TypeOK, Tasks
<1>9. TasksFit'
  BY <1>3, <1>4, <1>6 DEF IInv, TasksFit, Fits, Tasks
<1>10. OneTaskPerIssue'
  BY <1>4, <1>5 DEF Effect, Moves, GoesOn, Ends, IInv, OneTaskPerIssue
<1>11. SlotsNotLeaked'
  BY <1>3, <1>5, <1>7 DEF Ends, IInv, SlotsNotLeaked
<1>12. OrphansFailed'
  <2>1. orphans \subseteq Issues
    BY DEF IInv, TypeOK
  <2>2. \A j \in orphans : status'[j] = "failed"
    BY <1>1, <1>3, <2>1 DEF Effect, Sets, IInv, OrphansFailed
  <2> QED
    BY <1>1, <1>3, <2>2 DEF Effect, Leaves, OrphansFailed
<1>13. LostAgentsKeepWorkspaces'
  <2>1. ASSUME i \in orphans
        PROVE  \A u \in tasks' : u.issue # i
    BY <1>5, <2>1 DEF Finish, IInv, LostAgentsKeepWorkspaces, OneTaskPerIssue
  <2>2. \A u \in tasks' : u.issue \in orphans => u.pc = "error_blocked"
    BY <1>4, <2>1 DEF IInv, LostAgentsKeepWorkspaces
  <2> QED
    BY <2>2 DEF Effect, Leaves, LostAgentsKeepWorkspaces
<1>14. DoneIsKnown'
  <2> SUFFICES ASSUME NEW j \in Issues
               PROVE  /\ linear'[j] = "Done" => j \in everDone
                      /\ poller # Waiting /\ j \in DOMAIN poller.board /\ poller.board[j] = "Done"
                            => j \in everDone
    BY <1>2 DEF DoneIsKnown
  <2> QED
    BY <1>1, <1>2, <1>3 DEF IInv, DoneIsKnown
<1>15. DependenciesWereDone'
  BY <1>1, <1>2, <1>4 DEF IInv, DependenciesWereDone
<1> QED
  BY <1>8, <1>9, <1>10, <1>11, <1>12, <1>14, <1>15, <1>13 DEF IInv

LEMMA DispatchKeepsIInv ==
    ASSUME IInv, Dispatch
    PROVE  IInv'
<1>1. poller # Waiting /\ poller.board \in Boards /\ DOMAIN poller.board \subseteq Issues
  BY DEF IInv, TypeOK, Dispatch, Fetched, Boards
<1> PICK us \in UsStates(poller.board) :
        LET started == ToDispatch(poller.board, us)
        IN  /\ status' = [i \in Issues |-> IF i \in started THEN "queued" ELSE status[i]]
            /\ tasks' = tasks \cup {Task(i) : i \in started}
  BY DEF Dispatch
<1> DEFINE started == ToDispatch(poller.board, us)
<1>2. /\ status' = [i \in Issues |-> IF i \in started THEN "queued" ELSE status[i]]
      /\ tasks' = tasks \cup {Task(i) : i \in started}
      /\ poller' = Waiting
      /\ UNCHANGED <<linear, mode, statesMapped, orphans, strays, everDone>>
  BY DEF Dispatch
<1>3. \A i \in started : /\ i \in Issues /\ i \in DOMAIN poller.board
                         /\ poller.board[i] = "Todo"
                         /\ status[i] = "untracked"
                         /\ DepsSatisfied(i, us)
  BY <1>1 DEF ToDispatch
<1> HIDE DEF started
<1>4. \A t \in tasks : t \in Tasks /\ t.issue \in Issues /\ t.issue \notin started
  BY <1>3, TaskFacts DEF Tasks, Reported
<1>5. \A t \in tasks' :
        \/ t \in tasks /\ t.issue \notin started
        \/ \E i \in started : t = Task(i) /\ t.issue = i /\ t.pc = "queued" /\ t.attempt = 0
  BY <1>2, <1>4 DEF Task
<1>6. TypeOK'
  <2>1. \A i \in started : Task(i) \in Tasks
    BY <1>3, DaemonAssumption DEF Task, Tasks, Places
  <2> QED
    BY <1>2, <1>4, <2>1 DEF IInv, TypeOK, Tasks, Statuses, Active
<1>7. TasksFit'
  BY <1>2, <1>3, <1>4, <1>5 DEF IInv, TasksFit, Fits, Reported
<1>8. OneTaskPerIssue'
  BY <1>5 DEF IInv, OneTaskPerIssue
<1>9. SlotsNotLeaked'
  <2>1. \A i \in started : Task(i) \in tasks' /\ Task(i).issue = i
    BY <1>2 DEF Task
  <2> QED
    BY <1>2, <2>1 DEF IInv, SlotsNotLeaked
<1>10. OrphansFailed' /\ LostAgentsKeepWorkspaces'
  <2>1. orphans \subseteq Issues /\ \A i \in orphans : status[i] = "failed"
    BY DEF IInv, TypeOK, OrphansFailed
  <2>2. \A i \in orphans : i \notin started
    BY <1>3, <2>1
  <2> QED
    BY <1>2, <1>5, <2>1, <2>2 DEF IInv, OrphansFailed, LostAgentsKeepWorkspaces
<1>11. DoneIsKnown'
  BY <1>2 DEF IInv, DoneIsKnown
<1>12. DependenciesWereDone'
  <2>1. ASSUME NEW i \in started, StoryOf[i] # "none", NEW d \in StoryDeps[StoryOf[i]]
        PROVE  \E j \in everDone : StoryOf[j] = d
    <3>1. us[d] = "Done" /\ d \in Stories
      BY <1>3, <2>1, DaemonAssumption DEF DepsSatisfied
    <3>2. PICK j \in DOMAIN poller.board : StoryOf[j] = d /\ poller.board[j] = "Done"
      BY <3>1 DEF UsStates
    <3> QED
      BY <1>1, <3>2 DEF IInv, DoneIsKnown
  <2> QED
    BY <1>2, <1>5, <2>1 DEF IInv, DependenciesWereDone
<1> QED
  BY <1>6, <1>7, <1>8, <1>9, <1>10, <1>11, <1>12 DEF IInv

(* The process ends, by itself or killed: its memory goes, and its agents  *)
(* are strays.                                                             *)
LEMMA ProcessEndsKeepsIInv ==
    ASSUME IInv, NEW agents \in SUBSET Issues, ProcessEnds(agents)
    PROVE  IInv'
<1>1. TypeOK'
  BY DEF ProcessEnds, IInv, TypeOK, Statuses
<1> QED
  BY <1>1 DEF ProcessEnds, IInv, TasksFit, OneTaskPerIssue, SlotsNotLeaked, OrphansFailed,
              LostAgentsKeepWorkspaces, DoneIsKnown, DependenciesWereDone, Active, Waiting

LEMMA PersonKeepsIInv ==
    ASSUME IInv, PersonMovesIssue
    PROVE  IInv'
<1> PICK i \in Issues, b \in HumanTargets :
        /\ linear' = [linear EXCEPT ![i] = b]
        /\ everDone' = IF b = "Done" THEN everDone \cup {i} ELSE everDone
  BY DEF PersonMovesIssue
<1>1. UNCHANGED <<mode, statesMapped, poller, status, tasks, orphans, strays>>
  BY DEF PersonMovesIssue
<1>2. linear \in [Issues -> BoardStates] /\ b \in BoardStates
  BY DaemonAssumption DEF IInv, TypeOK
<1>3. \A j \in Issues : linear'[j] = IF j = i THEN b ELSE linear[j]
  BY <1>2
<1>4. TypeOK'
  BY <1>1, <1>2 DEF IInv, TypeOK
<1>5. TasksFit'
  BY <1>1 DEF IInv, TasksFit, Fits
<1>6. OrphansFailed' /\ LostAgentsKeepWorkspaces'
  BY <1>1 DEF IInv, OrphansFailed, LostAgentsKeepWorkspaces
<1>7. DoneIsKnown'
  <2> SUFFICES ASSUME NEW j \in Issues
               PROVE  /\ linear'[j] = "Done" => j \in everDone'
                      /\ poller # Waiting /\ j \in DOMAIN poller.board /\ poller.board[j] = "Done"
                            => j \in everDone'
    BY <1>1 DEF DoneIsKnown
  <2> QED
    BY <1>3 DEF IInv, DoneIsKnown
<1>8. DependenciesWereDone'
  BY <1>1 DEF IInv, DependenciesWereDone
<1> QED
  BY <1>1, <1>4, <1>5, <1>6, <1>7, <1>8 DEF IInv, OneTaskPerIssue, SlotsNotLeaked

LEMMA FetchKeepsIInv ==
    ASSUME IInv, FetchIssues
    PROVE  IInv'
<1> PICK listed \in Pages : poller' = Fetched([i \in listed |-> View(linear[i])])
  BY DEF FetchIssues
<1> DEFINE board == [i \in listed |-> View(linear[i])]
<1>1. listed \subseteq Issues /\ board \in [listed -> Views]
  BY DEF Pages, View, Views
<1>2. board \in Boards
  BY <1>1 DEF Boards
<1>3. poller' # Waiting /\ poller'.board = board
  BY DEF Fetched, Waiting
<1>4. \A i \in listed : board[i] = "Done" => linear[i] = "Done"
  BY DEF View
<1>5. /\ UNCHANGED <<linear, mode, statesMapped, status, tasks, orphans, strays, everDone>>
      /\ poller' = Fetched(board)
  BY DEF FetchIssues
<1>6. DOMAIN board = listed
  OBVIOUS
<1> HIDE DEF board
<1>7. TypeOK'
  BY <1>2, <1>5 DEF IInv, TypeOK
<1>8. DoneIsKnown'
  BY <1>1, <1>3, <1>4, <1>5, <1>6 DEF IInv, DoneIsKnown
<1> QED
  BY <1>5, <1>7, <1>8 DEF IInv, TasksFit, OneTaskPerIssue, SlotsNotLeaked, OrphansFailed,
                          LostAgentsKeepWorkspaces, DependenciesWereDone

LEMMA NextKeepsIInv == IInv /\ [Next]_vars => IInv'
<1> SUFFICES ASSUME IInv, [Next]_vars PROVE IInv'
  OBVIOUS
<1>1. ASSUME NEW t \in tasks, TaskStep(t) PROVE IInv'
  BY <1>1, TaskStepEffect, ErrorBlockedEnds, EffectKeepsIInv
<1>2. CASE Dispatch
  BY <1>2, DispatchKeepsIInv
<1>3. CASE FetchIssues
  BY <1>3, FetchKeepsIInv
<1>4. CASE FetchFails
  BY <1>4 DEF FetchFails, IInv, TypeOK, TasksFit, OneTaskPerIssue,
              SlotsNotLeaked, OrphansFailed, LostAgentsKeepWorkspaces, DoneIsKnown,
              DependenciesWereDone
<1>5. CASE StartDaemon \/ Stop \/ UNCHANGED vars
  <2>1. mode' \in {"down", "running", "stopping"}
    BY <1>5 DEF StartDaemon, Stop, vars, IInv, TypeOK
  <2>2. ASSUME StartDaemon PROVE statesMapped' \in BOOLEAN
    <3>1. \E file \in StateFiles : statesMapped' = ("states_map" \in file)
      BY <2>2, Zenon DEF StartDaemon
    <3>2. PICK file \in StateFiles : statesMapped' = ("states_map" \in file)
      BY <3>1
    <3>3. CASE "states_map" \in file
      <4>1. statesMapped' = TRUE
        BY <3>2, <3>3, Zenon
      <4> QED
        BY <4>1
    <3>4. CASE "states_map" \notin file
      <4>1. ("states_map" \in file) = FALSE
        BY <3>4
      <4>2. statesMapped' = FALSE
        BY <3>2, <4>1, Zenon
      <4> QED
        BY <4>2
    <3> QED
      BY <3>3, <3>4
  <2>3. ASSUME Stop \/ UNCHANGED vars PROVE statesMapped' \in BOOLEAN
    BY <2>3 DEF Stop, vars, IInv, TypeOK
  <2>4. statesMapped' \in BOOLEAN
    BY <1>5, <2>2, <2>3
  <2>5. UNCHANGED <<linear, poller, status, tasks, orphans, strays, everDone>>
    BY <1>5 DEF StartDaemon, Stop, vars
  <2>6. TypeOK'
    BY <2>1, <2>5, <2>4 DEF IInv, TypeOK
  <2> QED
    BY <2>5, <2>6 DEF IInv, TasksFit, OneTaskPerIssue, SlotsNotLeaked, OrphansFailed,
                      LostAgentsKeepWorkspaces, DoneIsKnown, DependenciesWereDone
<1>6. CASE Stopped \/ Crash
  <2>1. {t.issue : t \in {u \in tasks : u.pc = "agent"}} \in SUBSET Issues
    BY TaskFacts DEF Tasks
  <2> QED
    BY <1>6, <2>1, ProcessEndsKeepsIInv DEF Stopped, Crash
<1>7. CASE OrphanEnds
  BY <1>7 DEF OrphanEnds, IInv, TypeOK, TasksFit, OneTaskPerIssue,
              SlotsNotLeaked, OrphansFailed, LostAgentsKeepWorkspaces, DoneIsKnown,
              DependenciesWereDone
<1>8. CASE PersonMovesIssue
  BY <1>8, PersonKeepsIInv
<1> QED
  BY <1>1, <1>2, <1>3, <1>4, <1>5, <1>6, <1>7, <1>8 DEF Next, PollerStep

LEMMA SpecIInv == Spec => []IInv
BY InitIInv, NextKeepsIInv, PTL DEF Spec

-----------------------------------------------------------------------------
(* The memory of the daemon keeps its shape, and no path of _handle_issue  *)
(* makes more than retry.max_attempts attempts.                            *)
THEOREM TypeCorrect == Spec => []TypeOK
BY SpecIInv, PTL DEF IInv

(* is_tracked is enough: whatever board a poll cycle acts on, and however  *)
(* often it is repeated, no issue gets a second task.                      *)
THEOREM NoIssueTwice == Spec => []OneTaskPerIssue
BY SpecIInv, PTL DEF IInv

(* On every path through _handle_issue, those that raise among them, a     *)
(* task that ends leaves its issue in a status that holds no slot.         *)
THEOREM SlotsComeBack == Spec => []SlotsNotLeaked
BY SpecIInv, PTL DEF IInv

(* The poller starts an issue only after its dependencies were Done,       *)
(* although the board that it looks at is old and people move issues.      *)
THEOREM DependenciesFirst == Spec => []DependenciesWereDone
BY SpecIInv, PTL DEF IInv

(* create_workspace never removes the directory in which an agent of a     *)
(* failed task of this process still works, whatever people do to the      *)
(* board and whether or not the daemon can move issues there.              *)
THEOREM WorkspacesAreKept == Spec => []LostAgentsKeepWorkspaces
BY SpecIInv, PTL DEF IInv

LEMMA StepKeepsFailed ==
    ASSUME IInv, [Next]_vars, NEW i \in Issues, status[i] = "failed"
    PROVE  status'[i] \in {"failed", "untracked"}
<1>1. status \in [Issues -> Statuses]
  BY DEF IInv, TypeOK
<1>2. ASSUME NEW t \in tasks, TaskStep(t)
      PROVE  status'[i] = "failed"
  <2>1. PICK s, b : Sets(t, s, b)
    BY <1>2, TaskStepEffect DEF Effect
  <2> QED
    BY <1>1, <2>1 DEF Sets
<1>3. CASE Dispatch
  BY <1>1, <1>3 DEF Dispatch, ToDispatch
<1>4. CASE Stopped \/ Crash
  BY <1>4 DEF Stopped, Crash, ProcessEnds
<1>5. CASE \/ FetchIssues \/ FetchFails \/ StartDaemon \/ Stop
           \/ OrphanEnds \/ PersonMovesIssue \/ UNCHANGED vars
  BY <1>5 DEF FetchIssues, FetchFails, StartDaemon, Stop, OrphanEnds, PersonMovesIssue, vars
<1> QED
  BY <1>2, <1>3, <1>4, <1>5 DEF Next, PollerStep

(* An issue that a process has given up it neither starts again nor        *)
(* reports as anything else.                                               *)
THEOREM FailuresAreFinal == Spec => FailedIsFinal
<1>1. IInv /\ [Next]_vars =>
        [\A i \in Issues : status[i] = "failed" => status'[i] \in {"failed", "untracked"}]_vars
  BY StepKeepsFailed
<1> QED
  BY <1>1, SpecIInv, PTL DEF Spec, FailedIsFinal
===============================================================================
