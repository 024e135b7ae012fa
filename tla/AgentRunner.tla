----------------------------- MODULE AgentRunner -----------------------------
(***************************************************************************)
(* run_agent of orchestrator/agent_runner.py: a coroutine that writes the  *)
(* prompt to the agent's stdin, then reads its stdout to the end while a   *)
(* watchdog task looks at the time of the last line, then reads stderr.    *)
(* The agent and what it starts are processes of their own, tied to the    *)
(* coroutine by pipes only.                                                *)
(***************************************************************************)
EXTENDS Naturals, Sequences

CONSTANTS
    Urls,       \* pull-request URLs an agent prints
    Stall,      \* stall_timeout_minutes, in units of the clock
    CheckEvery, \* the watchdog's sleep
    OutCap,     \* lines that fit into the stdout pipe
    ErrCap,     \* writes that fit into the stderr pipe and its reader
    Budget      \* lines an agent prints before --max-budget-usd ends it

ASSUME RunnerAssumption ==
    /\ "none" \notin Urls
    /\ Stall \in Nat /\ CheckEvery \in Nat \ {0}
    /\ OutCap \in Nat \ {0} /\ ErrCap \in Nat /\ Budget \in Nat

VARIABLES
    agent,     \* the process: "working", "blocked" on stderr, or how it ended
    left,      \* lines its budget still allows
    printed,   \* history variable: the last URL it printed
    quiet,     \* history variable: time since it last printed a line of text
    unread,    \* whether stdin holds back a part of the prompt from being written
    out,       \* stdout: lines not read yet
    err,       \* stderr: writes nobody has read
    child,     \* the pipes that a process it started holds open
    runner,    \* run_agent: [pc, url]
    silence,   \* time since last_output_time
    toCheck    \* time until the watchdog wakes, or Off

agentVars == <<agent, left, printed, quiet, unread, err, child>>
runnerVars == <<agentVars, out, runner, silence, toCheck>>

(* A "long" line exceeds the limit of asyncio's StreamReader. *)
Lines == {"text", "blank", "long"} \cup Urls
Ended == agent \in {"exited", "failed", "killed"}
Finished == runner.pc \in {"returned", "raised"}
Off == CheckEvery + 1   \* toCheck of a watchdog that does not run

-----------------------------------------------------------------------------
(* The agent *)

ReadsPrompt ==
    /\ agent = "working" /\ unread
    /\ unread' = FALSE
    /\ UNCHANGED <<agent, left, printed, quiet, err, child, out, runner, silence, toCheck>>

Prints(line) ==
    /\ agent = "working" /\ left > 0
    /\ Len(out) < OutCap
    /\ out' = Append(out, line)
    /\ left' = left - 1
    /\ printed' = IF line \in Urls THEN line ELSE printed
    /\ quiet' = IF line = "blank" THEN quiet ELSE 0
    /\ UNCHANGED <<agent, unread, err, child, runner, silence, toCheck>>

(* Nothing drains stderr while stdout is open: an agent that has filled it *)
(* hangs in its next write.                                                *)
Complains ==
    /\ agent = "working"
    /\ IF err < ErrCap THEN err' = err + 1 /\ UNCHANGED agent
       ELSE agent' = "blocked" /\ UNCHANGED err
    /\ UNCHANGED <<left, printed, quiet, unread, child, out, runner, silence, toCheck>>

Spawns ==
    /\ agent = "working"
    /\ child' \in SUBSET {"stdout", "stderr"}
    /\ UNCHANGED <<agent, left, printed, quiet, unread, err, out, runner, silence, toCheck>>

ChildEnds ==
    /\ child # {}
    /\ child' = {}
    /\ UNCHANGED <<agent, left, printed, quiet, unread, err, out, runner, silence, toCheck>>

Exits ==
    /\ agent = "working"
    /\ agent' \in {"exited", "failed"}
    /\ UNCHANGED <<left, printed, quiet, unread, err, child, out, runner, silence, toCheck>>

-----------------------------------------------------------------------------
(* run_agent *)

GoesTo(pc) == runner' = [runner EXCEPT !.pc = pc]

(* wait_closed returns once the whole prompt is in the pipe; only then the *)
(* watchdog starts.  Without a reader it raises instead.                   *)
PromptWritten ==
    /\ runner.pc = "prompt" /\ ~unread
    /\ GoesTo("reading")
    /\ silence' = 0 /\ toCheck' = CheckEvery
    /\ UNCHANGED <<agentVars, out>>

PromptRefused ==
    /\ runner.pc = "prompt" /\ Ended
    /\ GoesTo("raised")
    /\ UNCHANGED <<agentVars, out, silence, toCheck>>

(* Mutation: a line does not move last_output_time.                        *)
ReadsLineUntimed ==
    /\ runner.pc = "reading" /\ out # << >>
    /\ out' = Tail(out)
    /\ IF Head(out) = "long"
       THEN GoesTo("raised") /\ toCheck' = Off
       ELSE /\ runner' = [runner EXCEPT !.url = IF Head(out) \in Urls THEN Head(out) ELSE @]
            /\ UNCHANGED toCheck
    /\ UNCHANGED <<agentVars, silence>>

(* Mutation: the whole line is kept, whether it has a URL or not.          *)
ReadsLineWhole ==
    /\ runner.pc = "reading" /\ out # << >>
    /\ out' = Tail(out)
    /\ silence' = IF Head(out) \in {"blank", "long"} THEN silence ELSE 0
    /\ IF Head(out) = "long"
       THEN GoesTo("raised") /\ toCheck' = Off
       ELSE runner' = [runner EXCEPT !.url = Head(out)] /\ UNCHANGED toCheck
    /\ UNCHANGED agentVars

(* A line that is too long makes readline raise ValueError; the finally    *)
(* clause cancels the watchdog, and nobody looks after the agent any more. *)
ReadsLine ==
    /\ runner.pc = "reading" /\ out # << >>
    /\ out' = Tail(out)
    /\ silence' = IF Head(out) \in {"blank", "long"} THEN silence ELSE 0
    /\ IF Head(out) = "long"
       THEN GoesTo("raised") /\ toCheck' = Off
       ELSE /\ runner' = [runner EXCEPT !.url = IF Head(out) \in Urls THEN Head(out) ELSE @]
            /\ UNCHANGED toCheck
    /\ UNCHANGED agentVars

(* Mutation: the loop ends with the process instead of with its output.    *)
OutputEndsEarly ==
    /\ runner.pc = "reading" /\ Ended
    /\ GoesTo("stderr")
    /\ toCheck' = Off
    /\ UNCHANGED <<agentVars, out, silence>>

(* End of file on stdout, when nobody can write to it any more; then       *)
(* process.wait() and the end of the watchdog.                             *)
OutputEnds ==
    /\ runner.pc = "reading" /\ out = << >>
    /\ Ended /\ "stdout" \notin child
    /\ GoesTo("stderr")
    /\ toCheck' = Off
    /\ UNCHANGED <<agentVars, out, silence>>

(* stderr.read() waits for the end of the file, without a watchdog. *)
Returns ==
    /\ runner.pc = "stderr" /\ "stderr" \notin child
    /\ GoesTo("returned")
    /\ UNCHANGED <<agentVars, out, silence, toCheck>>

Success == runner.pc = "returned" /\ agent = "exited"

(* Mutation: the watchdog gives up after one look. *)
WatchdogLooksOnce ==
    /\ toCheck = 0
    /\ toCheck' = Off
    /\ agent' = IF silence > Stall /\ ~Ended THEN "killed" ELSE agent
    /\ UNCHANGED <<left, printed, quiet, unread, err, child, out, runner, silence>>

(* process.kill() reaches the agent only, not what it has started.  The    *)
(* watchdog goes on until it has killed, or finds that the agent ended.    *)
Watchdog ==
    /\ toCheck = 0
    /\ IF silence > Stall
       THEN toCheck' = Off /\ agent' = IF Ended THEN agent ELSE "killed"
       ELSE toCheck' = (IF Ended THEN Off ELSE CheckEvery) /\ UNCHANGED agent
    /\ UNCHANGED <<left, printed, quiet, unread, err, child, out, runner, silence>>

(* Time passes.  The event loop keeps up: it reads a line that is there    *)
(* before its clock goes on.  The clocks stop where nothing reads them.    *)
Tick ==
    /\ runner.pc = "reading" /\ out = << >>
    /\ toCheck \notin {0, Off}
    /\ toCheck' = toCheck - 1
    /\ silence' = IF silence > Stall THEN silence ELSE silence + 1
    /\ quiet' = IF quiet > Stall THEN quiet ELSE quiet + 1
    /\ UNCHANGED <<agent, left, printed, unread, err, child, out, runner>>

-----------------------------------------------------------------------------
(* A new agent; a prompt larger than the pipe waits for it to read.        *)
Started(large, held) ==
    /\ agent = "working" /\ left = Budget /\ printed = "none" /\ quiet = 0
    /\ unread = large /\ out = << >> /\ err = 0 /\ child = held
    /\ runner = [pc |-> "prompt", url |-> "none"]
    /\ silence = 0 /\ toCheck = Off

RunnerStep ==
    \/ PromptWritten \/ PromptRefused \/ ReadsLine \/ OutputEnds \/ Returns
    \/ Watchdog \/ Tick
AgentStep ==
    \/ ReadsPrompt \/ Complains \/ Spawns \/ ChildEnds \/ Exits
    \/ \E line \in Lines : Prints(line)
===============================================================================
