---------------------------- MODULE AgentRun_proofs ----------------------------
(***************************************************************************)
(* Proofs about AgentRun: for pipes, budgets and timeouts of any size, a   *)
(* run returns only after its agent and with the agent's last URL, and     *)
(* only a silent agent is killed.                                          *)
(***************************************************************************)
EXTENDS AgentRun, TLAPS

(* The last URL that the agent printed is on its way through the pipe, or  *)
(* has been read: unless readline has raised.                              *)
LastUrlIsAt(k) ==
    /\ out[k] \in Urls /\ out[k] = printed
    /\ \A m \in DOMAIN out : m > k => out[m] \notin Urls

NothingIsLost ==
    runner.pc \in {"prompt", "reading", "stderr", "returned"} =>
        \/ \E k \in DOMAIN out : LastUrlIsAt(k)
        \/ runner.url = printed /\ \A k \in DOMAIN out : out[k] \notin Urls

(* The end of the output is the end of the agent. *)
OutputEnded == runner.pc \in {"stderr", "returned"} => Ended /\ out = << >>

(* The watchdog runs only while run_agent reads, and measures no longer a  *)
(* silence than there was: a line in the pipe it does not know of yet.     *)
WatchdogReads == toCheck # Off => runner.pc = "reading"
SilenceWasQuiet ==
    runner.pc = "reading" =>
        silence <= quiet \/ \E k \in DOMAIN out : out[k] # "blank"

IInv == /\ TypeOK
        /\ NothingIsLost /\ OutputEnded
        /\ WatchdogReads /\ SilenceWasQuiet

-----------------------------------------------------------------------------
(* The run: one step of the proof per action *)

LEMMA InitIInv == Init => IInv
BY RunnerAssumption
DEF Init, Started, IInv, TypeOK, NothingIsLost, OutputEnded, WatchdogReads, SilenceWasQuiet,
    Off, Ended

(* The agent, when it does not print. *)
LEMMA AgentKeepsIInv ==
    ASSUME IInv, UNCHANGED review,
           ReadsPrompt \/ Complains \/ Spawns \/ ChildEnds \/ Exits
    PROVE  IInv'
<1>1. /\ UNCHANGED <<left, printed, quiet, out, runner, silence, toCheck>>
      /\ agent' # agent => ~Ended
      /\ Ended => UNCHANGED agent
  BY DEF ReadsPrompt, Complains, Spawns, ChildEnds, Exits, Ended
<1>2. TypeOK'
  <2>1. unread' \in BOOLEAN
    BY DEF IInv, TypeOK, ReadsPrompt, Complains, Spawns, ChildEnds, Exits
  <2>2. /\ agent' \in {"working", "blocked", "exited", "failed", "killed"}
        /\ err' \in 0 .. ErrCap /\ child' \subseteq {"stdout", "stderr"}
    <3>1. CASE Complains
      BY <3>1, RunnerAssumption DEF IInv, TypeOK, Complains
    <3>2. CASE Spawns
      BY <3>2 DEF IInv, TypeOK, Spawns
    <3>3. CASE ReadsPrompt \/ ChildEnds \/ Exits
      BY <3>3 DEF IInv, TypeOK, ReadsPrompt, ChildEnds, Exits
    <3> QED
      BY <3>1, <3>2, <3>3
  <2> QED
    BY <1>1, <2>1, <2>2 DEF IInv, TypeOK
<1>3. OutputEnded'
  BY <1>1 DEF IInv, OutputEnded, Ended
<1>4. NothingIsLost' /\ WatchdogReads' /\ SilenceWasQuiet'
  BY <1>1 DEF IInv, NothingIsLost, LastUrlIsAt, WatchdogReads, SilenceWasQuiet
<1> QED
  BY <1>2, <1>3, <1>4 DEF IInv

LEMMA PrintsKeepsIInv ==
    ASSUME IInv, UNCHANGED review, NEW line \in Lines, Prints(line)
    PROVE  IInv'
<1>1. /\ out \in Seq(Lines) /\ out' = Append(out, line) /\ Len(out) < OutCap
      /\ UNCHANGED <<agent, runner, silence, toCheck>>
      /\ printed' = IF line \in Urls THEN line ELSE printed
      /\ quiet' = IF line = "blank" THEN quiet ELSE 0
      /\ agent = "working"
  BY DEF IInv, TypeOK, Prints
<1>2. /\ out' \in Seq(Lines) /\ Len(out') = Len(out) + 1 /\ out'[Len(out')] = line
      /\ DOMAIN out' = 1 .. Len(out') /\ DOMAIN out = 1 .. Len(out) /\ Len(out) \in Nat
      /\ \A k \in DOMAIN out : k \in DOMAIN out' /\ out'[k] = out[k]
  BY <1>1
<1>3. TypeOK'
  BY <1>1, <1>2, RunnerAssumption DEF IInv, TypeOK, Prints
<1>4. NothingIsLost'
  <2> SUFFICES ASSUME runner.pc \in {"prompt", "reading", "stderr", "returned"}
               PROVE  \/ \E k \in DOMAIN out' : LastUrlIsAt(k)'
                      \/ runner.url = printed' /\ \A k \in DOMAIN out' : out'[k] \notin Urls
    BY <1>1 DEF NothingIsLost
  <2>1. CASE line \in Urls
    <3>1. PICK k \in Nat : k = Len(out')
      BY <1>2
    <3>2. LastUrlIsAt(k)' /\ k \in DOMAIN out'
      BY <1>1, <1>2, <2>1, <3>1 DEF LastUrlIsAt
    <3> QED
      BY <3>2
  <2>2. CASE line \notin Urls
    <3>1. printed' = printed
      BY <1>1, <2>2
    <3>2. \A m \in DOMAIN out' : m \in DOMAIN out \/ out'[m] \notin Urls
      BY <1>2, <2>2
    <3>3. ASSUME NEW k \in DOMAIN out, LastUrlIsAt(k) PROVE LastUrlIsAt(k)'
      BY <1>2, <3>1, <3>2, <3>3 DEF LastUrlIsAt
    <3> QED
      BY <1>2, <3>1, <3>2, <3>3 DEF IInv, NothingIsLost
  <2> QED
    BY <2>1, <2>2
<1>5. SilenceWasQuiet'
  <2>1. CASE line = "blank"
    BY <1>1, <1>2, <2>1 DEF IInv, SilenceWasQuiet
  <2>2. CASE line # "blank"
    BY <1>1, <1>2, <2>2 DEF SilenceWasQuiet
  <2> QED
    BY <2>1, <2>2
<1>6. OutputEnded' /\ WatchdogReads'
  BY <1>1 DEF IInv, OutputEnded, Ended, WatchdogReads
<1> QED
  BY <1>3, <1>4, <1>5, <1>6 DEF IInv

LEMMA ReadsLineKeepsIInv ==
    ASSUME IInv, UNCHANGED review, ReadsLine
    PROVE  IInv'
<1>1. /\ runner.pc = "reading" /\ out # << >> /\ out' = Tail(out) /\ out \in Seq(Lines)
      /\ silence' = IF Head(out) \in {"blank", "long"} THEN silence ELSE 0
      /\ UNCHANGED <<agentVars, review>>
  BY DEF IInv, TypeOK, ReadsLine
<1>2. /\ out' \in Seq(Lines) /\ Len(out') = Len(out) - 1 /\ Head(out) = out[1] /\ out[1] \in Lines
      /\ DOMAIN out' = 1 .. Len(out') /\ DOMAIN out = 1 .. Len(out) /\ Len(out) \in Nat \ {0}
      /\ \A k \in DOMAIN out' : k + 1 \in DOMAIN out /\ out'[k] = out[k + 1]
      /\ \A k \in DOMAIN out : k = 1 \/ k - 1 \in DOMAIN out'
  BY <1>1
<1>3. TypeOK'
  <2>1. runner' \in [pc : {"prompt", "reading", "stderr", "returned", "raised", "over"},
                     url : Urls \cup {"none"}]
    BY DEF IInv, TypeOK, ReadsLine, GoesTo
  <2>2. toCheck' \in 0 .. Off
    BY RunnerAssumption DEF IInv, TypeOK, ReadsLine, Off
  <2>3. silence' \in 0 .. Stall + 1
    BY <1>1, RunnerAssumption DEF IInv, TypeOK
  <2>4. Len(out') <= OutCap
    BY <1>2, RunnerAssumption DEF IInv, TypeOK
  <2> QED
    BY <1>1, <1>2, <2>1, <2>2, <2>3, <2>4 DEF IInv, TypeOK, agentVars
<1>4. CASE Head(out) = "long"
  <2>1. runner'.pc = "raised" /\ toCheck' = Off
    BY <1>4 DEF ReadsLine, GoesTo, IInv, TypeOK
  <2>2. Off' = Off
    BY DEF Off
  <2> QED
    BY <1>1, <1>3, <2>1, <2>2
    DEF IInv, NothingIsLost, OutputEnded, WatchdogReads, SilenceWasQuiet
<1>5. CASE Head(out) # "long"
  <2>1. /\ runner'.pc = "reading" /\ UNCHANGED toCheck
        /\ runner'.url = IF Head(out) \in Urls THEN Head(out) ELSE runner.url
    BY <1>1, <1>5 DEF ReadsLine, IInv, TypeOK
  <2>2. NothingIsLost'
    <3>1. CASE \E k \in DOMAIN out : LastUrlIsAt(k)
      <4>1. PICK k \in DOMAIN out : LastUrlIsAt(k)
        BY <3>1
      <4>2. CASE k = 1
        <5>1. runner'.url = printed'
          BY <1>1, <1>2, <2>1, <4>1, <4>2 DEF LastUrlIsAt, agentVars
        <5>2. \A m \in DOMAIN out' : out'[m] \notin Urls
          BY <1>2, <4>1, <4>2 DEF LastUrlIsAt
        <5> QED
          BY <5>1, <5>2 DEF NothingIsLost
      <4>3. CASE k # 1
        <5>1. k - 1 \in DOMAIN out' /\ out'[k - 1] = out[k]
          BY <1>2, <4>3
        <5>2. LastUrlIsAt(k - 1)'
          BY <1>1, <1>2, <4>1, <5>1 DEF LastUrlIsAt, agentVars
        <5> QED
          BY <5>1, <5>2 DEF NothingIsLost
      <4> QED
        BY <4>2, <4>3
    <3>2. CASE runner.url = printed /\ \A k \in DOMAIN out : out[k] \notin Urls
      <4>1. runner'.url = printed'
        BY <1>1, <1>2, <2>1, <3>2 DEF agentVars
      <4>2. \A k \in DOMAIN out' : out'[k] \notin Urls
        BY <1>2, <3>2
      <4> QED
        BY <4>1, <4>2 DEF NothingIsLost
    <3> QED
      BY <1>1, <3>1, <3>2 DEF IInv, NothingIsLost
  <2>3. SilenceWasQuiet'
    <3>1. CASE Head(out) = "blank"
      <4>1. silence' = silence /\ quiet' = quiet
        BY <1>1, <3>1 DEF agentVars
      <4>2. ASSUME NEW k \in DOMAIN out, out[k] # "blank"
            PROVE  k - 1 \in DOMAIN out' /\ out'[k - 1] # "blank"
        BY <1>2, <3>1, <4>2
      <4> QED
        BY <1>1, <4>1, <4>2 DEF IInv, SilenceWasQuiet
    <3>2. CASE Head(out) # "blank"
      <4>1. silence' = 0 /\ quiet' \in 0 .. Stall + 1
        BY <1>1, <1>5, <3>2 DEF agentVars, IInv, TypeOK
      <4> QED
        BY <4>1, RunnerAssumption DEF SilenceWasQuiet
    <3> QED
      BY <3>1, <3>2
  <2> QED
    BY <1>1, <1>3, <2>1, <2>2, <2>3 DEF IInv, OutputEnded, WatchdogReads, Off
<1> QED
  BY <1>4, <1>5

LEMMA WatchdogKeepsIInv ==
    ASSUME IInv, UNCHANGED review, Watchdog
    PROVE  IInv'
<1>1. /\ UNCHANGED <<printed, quiet, out, runner, silence, review>>
      /\ Ended => UNCHANGED agent
  BY DEF Watchdog
<1>2. runner.pc = "reading"
  BY RunnerAssumption DEF Watchdog, IInv, WatchdogReads, Off
<1>3. TypeOK'
  BY RunnerAssumption DEF Watchdog, IInv, TypeOK, Off
<1> QED
  BY <1>1, <1>2, <1>3
  DEF IInv, NothingIsLost, LastUrlIsAt, OutputEnded, WatchdogReads, SilenceWasQuiet

LEMMA TickKeepsIInv ==
    ASSUME IInv, UNCHANGED review, Tick
    PROVE  IInv'
<1>1. /\ UNCHANGED <<agent, printed, out, runner, review>>
      /\ runner.pc = "reading" /\ out = << >>
  BY DEF Tick
<1>2. TypeOK'
  BY RunnerAssumption DEF Tick, IInv, TypeOK, Off
<1>3. SilenceWasQuiet'
  <2>1. silence <= quiet /\ silence \in 0 .. Stall + 1 /\ quiet \in 0 .. Stall + 1
    BY <1>1 DEF IInv, SilenceWasQuiet, TypeOK
  <2>2. silence' <= quiet'
    BY <2>1, RunnerAssumption DEF Tick
  <2> QED
    BY <2>2 DEF SilenceWasQuiet
<1> QED
  BY <1>1, <1>2, <1>3
  DEF IInv, NothingIsLost, LastUrlIsAt, OutputEnded, WatchdogReads

(* The other steps of run_agent change where it is, and read nothing.      *)
LEMMA RunnerGoesKeepsIInv ==
    ASSUME IInv, UNCHANGED review,
           PromptWritten \/ PromptRefused \/ OutputEnds \/ Returns
    PROVE  IInv'
<1>1. UNCHANGED <<agentVars, out, review>> /\ runner'.url = runner.url
  BY DEF PromptWritten, PromptRefused, OutputEnds, Returns, GoesTo, IInv, TypeOK
<1>2. TypeOK'
  BY RunnerAssumption
  DEF PromptWritten, PromptRefused, OutputEnds, Returns, GoesTo, IInv, TypeOK, Off, agentVars
<1>3. /\ runner'.pc \in {"stderr", "returned"} => Ended /\ out = << >>
      /\ runner'.pc \in {"prompt", "reading", "stderr", "returned"} =>
            runner.pc \in {"prompt", "reading", "stderr", "returned"}
  BY DEF PromptWritten, PromptRefused, OutputEnds, Returns, GoesTo, IInv, TypeOK, OutputEnded
<1>4. NothingIsLost'
  BY <1>1, <1>3 DEF IInv, NothingIsLost, LastUrlIsAt, agentVars
<1>5. OutputEnded'
  BY <1>1, <1>3 DEF OutputEnded, Ended, agentVars
<1>6. WatchdogReads' /\ SilenceWasQuiet'
  <2>1. CASE PromptWritten
    BY <2>1, <1>1, RunnerAssumption
    DEF PromptWritten, GoesTo, IInv, TypeOK, WatchdogReads, SilenceWasQuiet, Off, agentVars
  <2>2. CASE ~PromptWritten
    BY <2>2, <1>1
    DEF PromptRefused, OutputEnds, Returns, GoesTo, IInv, TypeOK, WatchdogReads, SilenceWasQuiet, Off
  <2> QED
    BY <2>1, <2>2
<1> QED
  BY <1>1, <1>2, <1>4, <1>5, <1>6 DEF IInv

LEMMA AgainKeepsIInv ==
    ASSUME IInv, Again
    PROVE  IInv'
<1>1. TypeOK'
  BY RunnerAssumption DEF Again, IInv, TypeOK, Off
<1>2. runner' = [pc |-> "prompt", url |-> "none"] /\ printed' = "none" /\ out' = << >>
      /\ toCheck' = Off /\ UNCHANGED review
  BY DEF Again
<1> QED
  BY <1>1, <1>2
  DEF IInv, NothingIsLost, OutputEnded, WatchdogReads, SilenceWasQuiet, Off

LEMMA ReviewKeepsIInv ==
    ASSUME IInv, Review
    PROVE  IInv'
<1>1. TypeOK'
  <2>1. /\ agent' = "exited" /\ left' = 0 /\ printed' = "none" /\ quiet' = 0
        /\ unread' \in BOOLEAN /\ out' = << >> /\ err' = 0 /\ child' = {}
        /\ runner' = [pc |-> "over", url |-> "none"]
        /\ silence' = 0 /\ toCheck' = Off
    BY DEF Review
  <2> QED
    BY <2>1, RunnerAssumption DEF TypeOK, Off
<1>2. runner'.pc = "over" /\ toCheck' = Off
  BY DEF Review
<1> QED
  BY <1>1, <1>2
  DEF IInv, NothingIsLost, OutputEnded, WatchdogReads, SilenceWasQuiet, Off

LEMMA NextKeepsIInv == IInv /\ [Next]_vars => IInv'
<1> SUFFICES ASSUME IInv, [Next]_vars PROVE IInv'
  OBVIOUS
<1>1. CASE RunnerStep /\ UNCHANGED review
  BY <1>1, ReadsLineKeepsIInv, WatchdogKeepsIInv, TickKeepsIInv, RunnerGoesKeepsIInv DEF RunnerStep
<1>2. CASE AgentStep /\ UNCHANGED review
  BY <1>2, AgentKeepsIInv, PrintsKeepsIInv DEF AgentStep
<1>3. CASE Again
  BY <1>3, AgainKeepsIInv
<1>4. CASE Review
  BY <1>4, ReviewKeepsIInv
<1>5. CASE UNCHANGED vars
  BY <1>5 DEF vars, runnerVars, agentVars, IInv, TypeOK, NothingIsLost, LastUrlIsAt, OutputEnded,
              Ended, WatchdogReads, SilenceWasQuiet
<1> QED
  BY <1>1, <1>2, <1>3, <1>4, <1>5 DEF Next

LEMMA SpecIInv == Spec => []IInv
BY InitIInv, NextKeepsIInv, PTL DEF Spec

-----------------------------------------------------------------------------
(* The theorems *)

(* The coroutine, the agent and their pipes keep their shapes; no pipe     *)
(* holds more than fits into it.                                           *)
THEOREM TypeCorrect == Spec => []TypeOK
BY SpecIInv, PTL DEF IInv

(* run_agent returns after its agent, and with the last URL it printed.    *)
THEOREM ResultsAreComplete == Spec => []ResultIsComplete
<1>1. IInv => ResultIsComplete
  BY DEF IInv, NothingIsLost, OutputEnded, ResultIsComplete
<1> QED
  BY <1>1, SpecIInv, PTL

(* The watchdog kills only an agent that was silent for longer than the    *)
(* stall timeout, or that printed as the watchdog woke.                    *)
THEOREM SilenceKills == Spec => OnlyTheSilentAreKilled
<1>1. IInv /\ [Next]_vars =>
        [agent' = "killed" /\ agent # "killed" => quiet > Stall \/ out # << >>]_vars
  <2> SUFFICES ASSUME IInv, Next, agent' = "killed", agent # "killed"
               PROVE  quiet > Stall \/ out # << >>
    OBVIOUS
  <2>1. Watchdog
    BY DEF Next, RunnerStep, AgentStep, ReadsPrompt, Complains, Spawns, ChildEnds, Exits, Prints,
           PromptWritten, PromptRefused, ReadsLine, OutputEnds, Returns, Tick, Again, Review, agentVars
  <2>2. silence > Stall /\ toCheck = 0
    BY <2>1 DEF Watchdog
  <2>3. runner.pc = "reading"
    BY <2>2, RunnerAssumption DEF IInv, WatchdogReads, Off
  <2> QED
    BY <2>2, <2>3, RunnerAssumption DEF IInv, SilenceWasQuiet, TypeOK
<1> QED
  BY <1>1, SpecIInv, PTL DEF Spec, OnlyTheSilentAreKilled
===============================================================================
