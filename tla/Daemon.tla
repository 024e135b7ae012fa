-------------------------------- MODULE Daemon --------------------------------
(***************************************************************************)
(* The orchestrator of orchestrator/daemon.py: a poller that reads the     *)
(* Linear board and starts a task for every eligible issue, and the tasks, *)
(* each of which takes its issue from workspace to pull request with an    *)
(* agent that is retried.  The StateManager (state.py) is in memory only.  *)
(* Every call to Linear, git, the agent and the reviewer is an await,      *)
(* during which everything else may run, and each may raise.               *)
(***************************************************************************)
EXTENDS Naturals, FiniteSets

CONSTANTS
    Issues,         \* Linear issues of the team
    Stories,        \* "US-xx" identifiers
    StoryOf,        \* issue -> the story its title names, or "none"
    StoryDeps,      \* STORY_DEPENDENCIES: story -> stories
    MaxConcurrent,  \* agent.max_concurrent
    MaxAttempts,    \* retry.max_attempts
    ReviewEnabled,  \* review.enabled
    StateFiles,     \* the keys .linear_state.json may have at a start
    PageSize,       \* issues that Linear lists at most, "first: 250"
    InitialStates,  \* board states issues have at first
    HumanTargets,   \* board states people move issues to
    MayCrash        \* whether the daemon process may be killed

BoardStates == {"Backlog", "Todo", "In Progress", "In Review", "Blocked", "Done"}

ASSUME DaemonAssumption ==
    /\ StoryOf \in [Issues -> Stories \cup {"none"}]
    /\ "none" \notin Stories
    /\ StoryDeps \in [Stories -> SUBSET Stories]
    /\ MaxConcurrent \in Nat \ {0}
    /\ MaxAttempts \in Nat \ {0}
    /\ PageSize \in Nat \ {0}
    /\ ReviewEnabled \in BOOLEAN
    /\ MayCrash \in BOOLEAN
    /\ InitialStates \subseteq BoardStates
    /\ HumanTargets \subseteq BoardStates

VARIABLES
    linear,        \* the board: issue -> its state's name
    mode,          \* the daemon process: "down", "running" or "stopping"
    statesMapped,  \* _states_map: whether it has the ids of the states
    poller,        \* "waiting", or the board that get_issues returned
    status,        \* StateManager: issue -> status, "untracked" if absent
    tasks,         \* the running _handle_issue tasks
    orphans,       \* issues whose agent outlived its task, in this process
    strays,        \* issues with an agent of an earlier process
    everDone       \* history variable: issues that have been Done

vars == <<linear, mode, statesMapped, poller, status, tasks, orphans, strays, everDone>>

Active == {"dispatched", "running", "reviewing"}
Statuses == Active \cup {"untracked", "queued", "pr_created", "failed"}

(* Where a task waits: the call it awaits. *)
Places == {"queued", "in_progress", "workspace", "workpad", "attempt", "agent",
           "attempt_failed", "backoff", "review", "verdict", "review_skipped",
           "in_review", "pr_note", "blocked", "fail_note", "error_blocked"}

Retrying == {"attempt", "agent", "attempt_failed", "backoff"}

Task(i) == [issue |-> i, pc |-> "queued", attempt |-> 0]

(* Calls without a timeout: git clone; the agent's prompt and the rest of   *)
(* its stderr (see AgentRunner); git diff.                                 *)
Untimed == {"workspace", "agent", "review"}

(* What a cycle tells apart in a listed issue's state.                     *)
Views == {"Todo", "Done", "other"}
View(state) == IF state \in {"Todo", "Done"} THEN state ELSE "other"

Waiting == [pc |-> "waiting"]
Fetched(board) == [pc |-> "fetched", board |-> board]

ActiveCount == Cardinality({i \in Issues : status[i] \in Active})

-----------------------------------------------------------------------------
(* The poller *)

(* What get_issues may list: the whole team, or as many issues of it as    *)
(* Linear puts into one answer.  The next page is not asked for.           *)
Pages ==
    {listed \in SUBSET Issues :
        IF Cardinality(Issues) <= PageSize THEN listed = Issues
        ELSE Cardinality(listed) = PageSize}

(* us_states: a story has the state of the last listed issue that names    *)
(* it; the order of the list is Linear's.                                  *)
UsStates(board) ==
    {us \in [Stories -> Views \cup {"not found"}] :
        \A s \in Stories :
            LET named == {board[i] : i \in {j \in DOMAIN board : StoryOf[j] = s}}
            IN  IF named = {} THEN us[s] = "not found" ELSE us[s] \in named}

(* Mutation: a dependency whose pull request is open counts as satisfied.  *)
DepsReviewable(i, us) ==
    StoryOf[i] # "none" => \A d \in StoryDeps[StoryOf[i]] :
        \/ us[d] = "Done"
        \/ \E j \in Issues : StoryOf[j] = d /\ status[j] = "pr_created"

DepsSatisfied(i, us) ==
    StoryOf[i] # "none" => \A d \in StoryDeps[StoryOf[i]] : us[d] = "Done"

(* Mutation: is_tracked is not asked.                                      *)
ToDispatchTracked(board, us) ==
    IF ActiveCount >= MaxConcurrent
    THEN {}
    ELSE {i \in DOMAIN board : board[i] = "Todo" /\ DepsSatisfied(i, us)}

(* Mutation: a failed issue is taken again. *)
ToDispatchFailed(board, us) ==
    IF ActiveCount >= MaxConcurrent
    THEN {}
    ELSE {i \in DOMAIN board : /\ board[i] = "Todo"
                               /\ status[i] \in {"untracked", "failed"}
                               /\ DepsSatisfied(i, us)}

(* What one pass over the Todo issues starts.  The new tasks do not run    *)
(* before the pass ends and a queued issue is not active, so the count     *)
(* does not change during the pass: it stops all of them or none.          *)
ToDispatch(board, us) ==
    IF ActiveCount >= MaxConcurrent
    THEN {}
    ELSE {i \in DOMAIN board : /\ board[i] = "Todo"
                               /\ status[i] = "untracked"
                               /\ DepsSatisfied(i, us)}

(* start() reads the state file.  Without a team_id, or a file that can be *)
(* read, it ends at once; "states_map" is the key it asks for, and without *)
(* it the daemon knows no state id and updates no issue.                   *)
StartDaemon ==
    /\ mode = "down"
    /\ \E file \in StateFiles :
        /\ "team_id" \in file
        /\ statesMapped' = ("states_map" \in file)
    /\ mode' = "running"
    /\ UNCHANGED <<linear, poller, status, tasks, orphans, strays, everDone>>

(* get_issues reads the board; when it raises, the cycle is logged and     *)
(* the poller waits again.                                                 *)
FetchIssues ==
    /\ mode = "running"
    /\ poller = Waiting
    /\ \E listed \in Pages : poller' = Fetched([i \in listed |-> View(linear[i])])
    /\ UNCHANGED <<linear, mode, statesMapped, status, tasks, orphans, strays, everDone>>

FetchFails ==
    /\ poller # Waiting
    /\ poller' = Waiting
    /\ UNCHANGED <<linear, mode, statesMapped, status, tasks, orphans, strays, everDone>>

(* The rest of _poll_cycle.  A shutdown requested since does not stop it.  *)
Dispatch ==
    /\ poller # Waiting
    /\ \E us \in UsStates(poller.board) :
        LET started == ToDispatch(poller.board, us)
        IN  /\ status' = [i \in Issues |-> IF i \in started THEN "queued" ELSE status[i]]
            /\ tasks' = tasks \cup {Task(i) : i \in started}
    /\ poller' = Waiting
    /\ UNCHANGED <<linear, mode, statesMapped, orphans, strays, everDone>>

(* stop(), on SIGTERM or SIGINT. *)
Stop ==
    /\ mode = "running"
    /\ mode' = "stopping"
    /\ UNCHANGED <<linear, statesMapped, poller, status, tasks, orphans, strays, everDone>>

(* The process ends.  The StateManager goes with it, and nothing kills the *)
(* agents that it has started.                                             *)
ProcessEnds(agents) ==
    /\ mode' = "down"
    /\ statesMapped' = FALSE
    /\ poller' = Waiting
    /\ status' = [i \in Issues |-> "untracked"]
    /\ tasks' = {}
    /\ orphans' = {}
    /\ strays' = strays \cup orphans \cup agents
    /\ UNCHANGED <<linear, everDone>>

(* start() has gathered its tasks and returns. *)
Stopped ==
    /\ mode = "stopping"
    /\ poller = Waiting
    /\ tasks = {}
    /\ ProcessEnds({})

(* The process is killed. *)
Crash ==
    /\ MayCrash
    /\ mode # "down"
    /\ ProcessEnds({t.issue : t \in {u \in tasks : u.pc = "agent"}})

-----------------------------------------------------------------------------
(* The task of an issue: _handle_issue *)

(* The task goes on to another await.  The number of the attempt is a local *)
(* of _run_with_retry.                                                     *)
GoTo(t, pc) ==
    tasks' = (tasks \ {t})
               \cup {[t EXCEPT !.pc = pc,
                               !.attempt = IF pc \in Retrying THEN @ ELSE 0]}
Finish(t) == tasks' = tasks \ {t}
SetStatus(t, s) == status' = [status EXCEPT ![t.issue] = s]

(* client.update_issue, where it succeeded; where it raised, Linear may    *)
(* have applied it or not.                                                 *)
Moved(t, to) ==
    /\ linear' = [linear EXCEPT ![t.issue] = to]
    /\ everDone' = everDone
MaybeMoved(t, to) == Moved(t, to) \/ UNCHANGED <<linear, everDone>>

(* Mutation: the outer except does not report the failure.                 *)
FailsUnreported(t) ==
    /\ IF statesMapped THEN GoTo(t, "error_blocked") ELSE Finish(t)
    /\ UNCHANGED status

(* The outer except of _handle_issue. *)
Fails(t) ==
    /\ SetStatus(t, "failed")
    /\ IF statesMapped THEN GoTo(t, "error_blocked") ELSE Finish(t)

(* The agent succeeded with a PR, reviewed or not. *)
PRCreated(t) ==
    /\ SetStatus(t, "pr_created")
    /\ GoTo(t, IF statesMapped THEN "in_review" ELSE "pr_note")

(* _run_with_retry came back without a success that has a PR. *)
GivesUp(t) ==
    /\ SetStatus(t, "failed")
    /\ GoTo(t, IF statesMapped THEN "blocked" ELSE "fail_note")

TaskStarts(t) ==
    /\ t.pc = "queued"
    /\ SetStatus(t, "dispatched")
    /\ GoTo(t, IF statesMapped THEN "in_progress" ELSE "workspace")
    /\ UNCHANGED <<linear, everDone>>

InProgressSet(t) ==
    /\ t.pc = "in_progress"
    /\ \/ Moved(t, "In Progress") /\ GoTo(t, "workspace") /\ UNCHANGED status
       \/ MaybeMoved(t, "In Progress") /\ Fails(t)

WorkspaceCreated(t) ==
    /\ t.pc = "workspace"
    /\ \/ SetStatus(t, "running") /\ GoTo(t, "workpad")
       \/ Fails(t)
    /\ UNCHANGED <<linear, everDone>>

(* Mutation: the attempt is not counted.                                   *)
BeginSameAttempt(t) ==
    /\ SetStatus(t, "running")
    /\ GoTo(t, "attempt")

(* One more round of _run_with_retry, up to its first await. *)
BeginAttempt(t) ==
    /\ SetStatus(t, "running")
    /\ tasks' = (tasks \ {t})
                  \cup {[t EXCEPT !.pc = "attempt", !.attempt = @ + 1]}

WorkpadCreated(t) ==
    /\ t.pc = "workpad"
    /\ BeginAttempt(t) \/ Fails(t)
    /\ UNCHANGED <<linear, everDone>>

AttemptNoted(t) ==
    /\ t.pc = "attempt"
    /\ \/ GoTo(t, "agent") /\ UNCHANGED status
       \/ Fails(t)
    /\ UNCHANGED <<linear, everDone>>

(* run_agent returns: success and a URL, success without one, a failed     *)
(* attempt; or it raises: the agent could not be started, or a line too    *)
(* long ended the reading and left the agent at work (see AgentRunner).    *)
AgentReturns(t) ==
    /\ t.pc = "agent"
    /\ \/ /\ IF ReviewEnabled
             THEN SetStatus(t, "reviewing") /\ GoTo(t, "review")
             ELSE PRCreated(t)
          /\ UNCHANGED orphans
       \/ GivesUp(t) /\ UNCHANGED orphans
       \/ GoTo(t, "attempt_failed") /\ UNCHANGED <<status, orphans>>
       \/ Fails(t) /\ orphans' \in {orphans, orphans \cup {t.issue}}
    /\ UNCHANGED <<linear, everDone>>

(* Mutation: one attempt more than max_attempts. *)
OneAttemptMore(t) ==
    /\ t.pc = "attempt_failed"
    /\ \/ IF t.attempt <= MaxAttempts
          THEN GoTo(t, "backoff") /\ UNCHANGED status
          ELSE GivesUp(t)
       \/ Fails(t)
    /\ UNCHANGED <<linear, everDone>>

FailedAttemptNoted(t) ==
    /\ t.pc = "attempt_failed"
    /\ \/ IF t.attempt < MaxAttempts
          THEN GoTo(t, "backoff") /\ UNCHANGED status
          ELSE GivesUp(t)
       \/ Fails(t)
    /\ UNCHANGED <<linear, everDone>>

BackoffEnds(t) ==
    /\ t.pc = "backoff"
    /\ BeginAttempt(t)
    /\ UNCHANGED <<linear, everDone>>

(* The awaits of the review block up to its verdict change nothing here.   *)
(* An approval goes straight on; other verdicts are noted first; an error  *)
(* is noted, still "reviewing", and the review is skipped.                 *)
ReviewReturns(t) ==
    /\ t.pc = "review"
    /\ \/ PRCreated(t)
       \/ SetStatus(t, "running") /\ GoTo(t, "verdict")
       \/ GoTo(t, "review_skipped") /\ UNCHANGED status
    /\ UNCHANGED <<linear, everDone>>

VerdictNoted(t) ==
    /\ t.pc = "verdict"
    /\ \/ PRCreated(t)
       \/ GoTo(t, "review_skipped") /\ UNCHANGED status
    /\ UNCHANGED <<linear, everDone>>

SkipNoted(t) ==
    /\ t.pc = "review_skipped"
    /\ PRCreated(t) \/ Fails(t)
    /\ UNCHANGED <<linear, everDone>>

InReviewSet(t) ==
    /\ t.pc = "in_review"
    /\ \/ Moved(t, "In Review") /\ GoTo(t, "pr_note") /\ UNCHANGED status
       \/ MaybeMoved(t, "In Review") /\ Fails(t)

BlockedSet(t) ==
    /\ t.pc = "blocked"
    /\ \/ Moved(t, "Blocked") /\ GoTo(t, "fail_note") /\ UNCHANGED status
       \/ MaybeMoved(t, "Blocked") /\ Fails(t)

(* The last workpad entry, of a PR or of the failure. *)
LastNoteWritten(t) ==
    /\ t.pc \in {"pr_note", "fail_note"}
    /\ \/ Finish(t) /\ UNCHANGED status
       \/ Fails(t)
    /\ UNCHANGED <<linear, everDone>>

(* The outer except swallows an error of its own update. *)
ErrorBlockedSet(t) ==
    /\ t.pc = "error_blocked"
    /\ MaybeMoved(t, "Blocked")
    /\ Finish(t)
    /\ UNCHANGED status

TaskStep(t) ==
    /\ \/ AgentReturns(t)
       \/ /\ \/ TaskStarts(t) \/ InProgressSet(t) \/ WorkspaceCreated(t)
             \/ WorkpadCreated(t) \/ AttemptNoted(t) \/ FailedAttemptNoted(t)
             \/ BackoffEnds(t) \/ ReviewReturns(t) \/ VerdictNoted(t)
             \/ SkipNoted(t) \/ InReviewSet(t) \/ BlockedSet(t)
             \/ LastNoteWritten(t) \/ ErrorBlockedSet(t)
          /\ UNCHANGED orphans
    /\ UNCHANGED <<mode, statesMapped, poller, strays>>

-----------------------------------------------------------------------------
(* Outside the daemon *)

(* An agent that no task waits for ends by itself. *)
OrphanEnds ==
    /\ \E i \in orphans \cup strays :
        \/ orphans' = orphans \ {i} /\ UNCHANGED strays
        \/ strays' = strays \ {i} /\ UNCHANGED orphans
    /\ UNCHANGED <<linear, mode, statesMapped, poller, status, tasks, everDone>>

PersonMovesIssue ==
    /\ \E i \in Issues, s \in HumanTargets :
        /\ linear' = [linear EXCEPT ![i] = s]
        /\ everDone' = IF s = "Done" THEN everDone \cup {i} ELSE everDone
    /\ UNCHANGED <<mode, statesMapped, poller, status, tasks, orphans, strays>>

-----------------------------------------------------------------------------
Init ==
    /\ linear \in [Issues -> InitialStates]
    /\ mode = "down"
    /\ statesMapped = FALSE
    /\ poller = Waiting
    /\ status = [i \in Issues |-> "untracked"]
    /\ tasks = {}
    /\ orphans = {}
    /\ strays = {}
    /\ everDone = {i \in Issues : linear[i] = "Done"}

PollerStep == FetchIssues \/ FetchFails \/ Dispatch

Next ==
    \/ StartDaemon \/ PollerStep \/ Stop \/ Stopped \/ Crash
    \/ \E t \in tasks : TaskStep(t)
    \/ OrphanEnds
    \/ PersonMovesIssue

Spec == Init /\ [][Next]_vars

(* Awaited calls with a timeout end: those of Linear after 30 seconds,      *)
(* asyncio.sleep when its delay is over.  Of git and the agent nothing is  *)
(* assumed.  The poll interval elapses, and Linear answers again and       *)
(* again.  Nothing makes a person or an orphan move, or a daemon start,    *)
(* stop or crash.                                                          *)
Fairness ==
    /\ WF_vars(FetchIssues)
    /\ SF_vars(Dispatch)
    /\ WF_vars(FetchFails \/ Dispatch)
    /\ WF_vars(Stopped)
    /\ \A i \in Issues :
        WF_vars(\E t \in tasks : t.issue = i /\ t.pc \notin Untimed /\ TaskStep(t))

FairSpec == Spec /\ Fairness

-----------------------------------------------------------------------------
(* Properties *)

Boards == UNION {[listed -> Views] : listed \in SUBSET Issues}

(* The daemon's memory keeps its shape; in particular no task makes more   *)
(* than retry.max_attempts attempts, on any path.                          *)
TypeOK ==
    /\ linear \in [Issues -> BoardStates]
    /\ mode \in {"down", "running", "stopping"}
    /\ statesMapped \in BOOLEAN
    /\ poller \in {Waiting} \cup {Fetched(b) : b \in Boards}
    /\ status \in [Issues -> Statuses]
    /\ tasks \subseteq [issue : Issues, pc : Places, attempt : 0 .. MaxAttempts]
    /\ orphans \subseteq Issues
    /\ strays \subseteq Issues
    /\ everDone \subseteq Issues

(* No issue is worked on by two tasks of one process, although the board   *)
(* a cycle acts on is the one of its request and an issue stays Todo there *)
(* while its task already runs.                                            *)
OneTaskPerIssue ==
    \A t, u \in tasks : t.issue = u.issue => t = u

(* A slot of max_concurrent never leaks: an issue counted as active, or    *)
(* waiting in the queue, has a task that will take it further, on every    *)
(* path on which a call of the task raises.                                *)
SlotsNotLeaked ==
    \A i \in Issues :
        status[i] \in Active \cup {"queued"} => \E t \in tasks : t.issue = i

(* An issue is started only if every story its own story depends on was    *)
(* Done; a dependency that no issue names counts as not Done.              *)
DependenciesWereDone ==
    \A t \in tasks : StoryOf[t.issue] # "none" =>
        \A d \in StoryDeps[StoryOf[t.issue]] :
            \E i \in everDone : StoryOf[i] = d

(* A process does not take up again an issue it has given up, and reports  *)
(* nothing else about it afterwards.                                       *)
FailedIsFinal ==
    [][\A i \in Issues : status[i] = "failed" => status'[i] \in {"failed", "untracked"}]_vars

(* An agent whose task has failed keeps its workspace for as long as the   *)
(* process lives: create_workspace removes an existing directory of the    *)
(* issue first, but no other task of this process comes to the issue,      *)
(* whoever puts it back to Todo and whatever the state file has.           *)
LostAgentsKeepWorkspaces ==
    \A t \in tasks : t.issue \in orphans => t.pc = "error_blocked"

Hanging == {t \in tasks : t.pc \in Untimed}

(* An eligible issue is not passed over for ever: unless git or the agent  *)
(* keeps as many tasks as there are slots waiting for ever.  The team has  *)
(* no more issues than Linear lists.                                       *)
Eligible(i) ==
    /\ Cardinality(Issues) <= PageSize
    /\ mode = "running"
    /\ linear[i] = "Todo"
    /\ status[i] = "untracked"
    /\ StoryOf[i] # "none" =>
        \A d \in StoryDeps[StoryOf[i]] :
            /\ \E j \in Issues : StoryOf[j] = d
            /\ \A j \in Issues : StoryOf[j] = d => linear[j] = "Done"
EligibleIsDispatched ==
    \A i \in Issues :
        []<>(~Eligible(i)) \/ <>[](Cardinality(Hanging) >= MaxConcurrent)

(* A shutdown request is honoured: the daemon waits for its tasks and      *)
(* ends, although the cycle under way may still start some; unless git or  *)
(* the agent of one of them never comes back.                              *)
StopCompletes ==
    (mode = "stopping" ~> mode = "down") \/ <>[](Hanging # {})

-----------------------------------------------------------------------------
(* What a document, a comment or a test says and the code does not do.     *)

(* WORKFLOW.md: "max_concurrent: 1".  No more issues than that are being   *)
(* processed at a time.                                                    *)
ConcurrencyRespected == ActiveCount <= MaxConcurrent

(* workspace.py:1: "Per-issue workspace isolation".  A task's workspace is  *)
(* its own: no agent of an earlier process, or of a failed task, works in  *)
(* the directory that create_workspace removes.  A killed daemon leaves    *)
(* its agents at work; with the state file as linear_sync writes it their  *)
(* issues are still Todo, and the next daemon takes them.                  *)
OneAgentPerWorkspace ==
    \A t \in tasks :
        t.pc \notin {"queued", "in_progress", "error_blocked"} =>
            t.issue \notin orphans \cup strays
==============================================================================
