------------------------------- MODULE AgentRun -------------------------------
(***************************************************************************)
(* An agent's work on an issue as the daemon's task follows it: runs of    *)
(* the agent until one succeeds with a pull request, then the review of    *)
(* its diff.  Daemon takes from here that run_agent ends, and how.         *)
(***************************************************************************)
EXTENDS AgentRunner, Reviewer

VARIABLE review  \* the review made, with what it started from

vars == <<runnerVars, review>>

NotReviewed == [decision |-> "none"]

(* _run_with_retry runs the agent again after a failure; a process that    *)
(* the last one started may still be there.                                *)
Again ==
    /\ runner.pc = "returned" /\ agent # "exited"
    /\ \E large \in BOOLEAN :
        /\ agent' = "working" /\ left' = Budget /\ printed' = "none" /\ quiet' = 0
        /\ unread' = large /\ out' = << >> /\ err' = 0
        /\ runner' = [pc |-> "prompt", url |-> "none"]
        /\ silence' = 0 /\ toCheck' = Off
    /\ UNCHANGED <<child, review>>

(* The review follows a success with a URL; the locals of run_agent are    *)
(* gone by then, and so is the agent.                                      *)
Review ==
    /\ Success /\ runner.url # "none"
    /\ \E x \in Inputs : review' = [decision |-> Decision(x), of |-> x]
    /\ agent' = "exited" /\ left' = 0 /\ printed' = "none" /\ quiet' = 0
    /\ unread' = FALSE /\ out' = << >> /\ err' = 0 /\ child' = {}
    /\ runner' = [pc |-> "over", url |-> "none"]
    /\ silence' = 0 /\ toCheck' = Off

Init == (\E large \in BOOLEAN : Started(large, {})) /\ review = NotReviewed

Next == \/ RunnerStep /\ UNCHANGED review
        \/ AgentStep /\ UNCHANGED review
        \/ Again
        \/ Review

(* The event loop runs what is ready, and time passes.  Nothing makes an   *)
(* agent act, or a process that it started end.                            *)
Spec == Init /\ [][Next]_vars /\ WF_runnerVars(RunnerStep)

-----------------------------------------------------------------------------
(* Properties *)

TypeOK ==
    /\ agent \in {"working", "blocked", "exited", "failed", "killed"}
    /\ left \in 0 .. Budget /\ err \in 0 .. ErrCap
    /\ printed \in Urls \cup {"none"}
    /\ quiet \in 0 .. Stall + 1 /\ silence \in 0 .. Stall + 1
    /\ unread \in BOOLEAN
    /\ out \in Seq(Lines) /\ Len(out) <= OutCap
    /\ child \subseteq {"stdout", "stderr"}
    /\ runner \in [pc : {"prompt", "reading", "stderr", "returned", "raised", "over"},
                   url : Urls \cup {"none"}]
    /\ toCheck \in 0 .. Off

(* run_agent returns only when the agent has ended, and with the last URL  *)
(* that the agent printed: a line still in the pipe when the agent exits   *)
(* or is killed is not lost.                                               *)
ResultIsComplete ==
    runner.pc = "returned" => Ended /\ runner.url = printed

(* agent_runner.py: "kills process if no output for stall_timeout_minutes".*)
(* An agent that prints lines of text is not killed for being slow to      *)
(* finish, however its output and the watchdog's checks interleave: except *)
(* that a line printed as the watchdog wakes may be too late to be seen.   *)
OnlyTheSilentAreKilled ==
    [][agent' = "killed" /\ agent # "killed" => quiet > Stall \/ out # << >>]_vars

(* The reading of an agent's output ends, even if the agent hangs, fills   *)
(* stderr or prints nothing: if what the agent started does not hold its   *)
(* pipes for ever.  What stands before it and after it, the writing of the *)
(* prompt and the reading of the rest of stderr, has no watchdog.          *)
ReadingEnds ==
    []<>(child = {}) => (runner.pc = "reading" ~> runner.pc # "reading")

(* A reply that Codex wrote in the format of the prompt. *)
WellFormed(reply) ==
    /\ reply.title = "FINDINGS:"
    /\ \A n \in DOMAIN reply.findings :
        reply.findings[n].bullet /\ reply.findings[n].lacks = "nothing"

(* A finding whose severity and category reach cto_evaluate: it has the    *)
(* bullet that is looked for, is not the last one without a description,   *)
(* and no finding whose bullet is not recognised follows and replaces its  *)
(* lines.                                                                  *)
Heard(reply, n) ==
    /\ reply.title = "FINDINGS:"
    /\ reply.findings[n].bullet
    /\ n < Len(reply.findings) \/ reply.findings[n].lacks # "description"
    /\ n < Len(reply.findings) => reply.findings[n + 1].bullet

Serious(f) ==
    f.severity = "critical" \/ (f.category \in Escalated /\ f.lacks # "category")

===============================================================================
