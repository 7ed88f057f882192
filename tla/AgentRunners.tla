---------------------------- MODULE AgentRunners ----------------------------
(***************************************************************************)
(* One task on an agent slot of a worker, from its first launch to its     *)
(* report: the redirect loop of worker.py and the three runners it calls   *)
(* (claude_runner, codex_runner, pi_runner).  A runner starts the tool's   *)
(* process, reads its stream, waits for it and closes the outcome over     *)
(* StopReason; codex and pi start over in a new session when a resumed     *)
(* run was no success.  Beside it the listener takes cancels and           *)
(* redirects, which signal the process through the slot's handle.          *)
(***************************************************************************)
EXTENDS Naturals, Sequences

CONSTANTS
    Tools,       \* the tools the task may be given to: "claude", "codex", "pi"
    MaxSignals,  \* bound on cancels and redirects
    MaxBreaks    \* bound on starts that fail and reads that raise

ASSUME RunnerConstants ==
    /\ Tools \subseteq {"claude", "codex", "pi"}
    /\ MaxSignals \in Nat /\ MaxBreaks \in Nat

VARIABLES
    tool,       \* the task's tool
    sessionKept, \* the session of an earlier run exists on this machine
    instr,      \* number of the current instructions (current_desc)
    resume,     \* the session the next launch resumes (resume_session_id)
    stage,      \* where the slot is in the loop
    attempt,    \* 2 in the runner's second, fresh start
    agent,      \* the process started last
    adrift,     \* processes whose reader gave them up and that still run
    handle,     \* the slot has a process to signal, the last one (current_claude)
    stream,     \* what that process has done in its turn
    held,       \* what the runner has read of it, in the end the RunResult
    told,       \* the redirect queue: numbers of instructions, 0 for a cancel
    putting,    \* what the listener is about to put there
    cancelled,  \* the task is marked cancelled
    outcome,    \* how the slot let the task go
    signals, breaks

runnerVars == <<tool, sessionKept, instr, resume, stage, attempt, agent, adrift, handle, stream,
                held, told, putting, cancelled, outcome, signals, breaks>>
fixed == <<tool, sessionKept>>
loop == <<instr, resume>>
listener == <<told, putting, cancelled, signals>>

\* A session is the instructions its conversation holds. The earlier run's are
\* number 0; no session holds none.
NoSession == {}
Earlier == {0}
NothingToPut == <<>>

StopReasons == {"success", "max_turns", "error_during_execution", "no_events"}

\* A process: what it was told to do, the session it resumed, whether it told
\* its own, and its end. `late` is ghost: the task was cancelled when it started.
Process(from) ==
    [instr |-> instr, from |-> from, told |-> FALSE, alive |-> TRUE, exit |-> "none",
     signalled |-> FALSE, late |-> cancelled]
NoProcess == [Process(NoSession) EXCEPT !.alive = FALSE, !.exit = "fail"]
Session == agent.from \cup {agent.instr}
Quiet == [said |-> "nothing", ended |-> FALSE, erred |-> FALSE]

Nothing(from) ==
    [stop |-> "no_events", session |-> IF tool = "claude" THEN NoSession ELSE from,
     text |-> "nothing", ok |-> FALSE]

\* The session a start asks for: the second one of a run asks for none.
Asked == IF attempt = 1 THEN resume ELSE NoSession

Numbers == 0..(MaxSignals + 1)
Agents ==
    [instr : Numbers, from : SUBSET Numbers, told : BOOLEAN, alive : BOOLEAN,
     exit : {"none", "ok", "fail", "signal"}, signalled : BOOLEAN, late : BOOLEAN]
Streams == [said : {"nothing", "plain", "marked"}, ended : BOOLEAN, erred : BOOLEAN]
Results ==
    [stop : StopReasons \cup {"other"}, session : SUBSET Numbers,
     text : {"nothing", "plain", "marked", "reasoning"}, ok : BOOLEAN]

RunnerTypeOK ==
    /\ tool \in Tools /\ sessionKept \in BOOLEAN /\ cancelled \in BOOLEAN
    /\ instr \in Numbers /\ resume \in SUBSET Numbers
    /\ stage \in {"ready", "starting", "reading", "closing", "ended", "raised", "after", "released"}
    /\ attempt \in {1, 2} /\ handle \in BOOLEAN
    /\ agent \in Agents /\ (agent.alive <=> agent.exit = "none")
    /\ adrift \in 0..MaxBreaks /\ adrift <= breaks
    /\ stream \in Streams /\ held \in Results
    /\ told \in Seq(Numbers)
    /\ putting = NothingToPut \/ \E n \in Numbers : putting = <<n>>
    /\ outcome \in {"none", "cancelled", "reported", "crashed"}
    /\ signals \in 0..MaxSignals /\ breaks \in 0..MaxBreaks

RunnerInit ==
    /\ tool \in Tools
    /\ instr = 1 /\ resume \in {NoSession, Earlier}
    /\ sessionKept \in BOOLEAN /\ (resume = NoSession => ~sessionKept)
    /\ stage = "ready" /\ attempt = 1 /\ cancelled = FALSE
    /\ agent = NoProcess /\ adrift = 0 /\ handle = FALSE /\ stream = Quiet
    /\ held = Nothing(NoSession)
    /\ told = <<>> /\ putting = NothingToPut
    /\ outcome = "none"
    /\ signals = 0 /\ breaks = 0

-----------------------------------------------------------------------------
(* A run: the call of Runner.run and the starts it makes.                    *)

Launch ==
    /\ stage = "ready"
    /\ stage' = "starting" /\ attempt' = 1
    /\ held' = Nothing(resume) /\ stream' = Quiet
    /\ UNCHANGED <<fixed, loop, listener, agent, adrift, handle, outcome, breaks>>

Spawn ==
    /\ stage = "starting"
    /\ agent' = Process(Asked)
    /\ handle' = TRUE /\ stream' = Quiet
    /\ stage' = "reading"
    /\ UNCHANGED <<fixed, loop, listener, adrift, attempt, held, outcome, breaks>>

\* The slot's handle has the session's id; pi's never learns it.
HandleKnows == handle /\ tool # "pi" /\ agent.told

\* The executable or the directory is missing, or the start raises. The slot's
\* handle stays that of the run's first process, for the session it told.
NotStarted ==
    /\ stage = "starting"
    /\ breaks < MaxBreaks /\ breaks' = breaks + 1
    /\ agent' = IF HandleKnows THEN agent ELSE NoProcess
    /\ \E stop \in {"no_events", "error_during_execution"} : held' = [held EXCEPT !.stop = stop]
    /\ stage' = "ended"
    /\ UNCHANGED <<fixed, loop, listener, adrift, attempt, handle, stream, outcome>>

-----------------------------------------------------------------------------
(* The process (external) and the line of its stream that the runner reads.  *)

\* A session that another machine holds cannot be resumed: the tool exits.
Proceeds == stage = "reading" /\ agent.alive /\ (agent.from = Earlier => sessionKept)

TellsSession ==
    /\ Proceeds /\ ~agent.told
    /\ agent' = [agent EXCEPT !.told = TRUE]
    /\ held' = [held EXCEPT !.session = Session]
    /\ UNCHANGED <<fixed, loop, listener, adrift, outcome, breaks, attempt, handle,
                   stage, stream>>

Reads(does, holds, next) ==
    /\ Proceeds
    /\ stream' = does /\ held' = holds /\ stage' = next
    /\ UNCHANGED <<fixed, loop, listener, outcome, breaks, attempt, handle, agent,
                   adrift>>

\* What becomes the run's last text. claude's and codex's readers pass over a
\* text that starts with one of the marks of the displayed lines; codex's also
\* takes the reasoning for text.
ClaudeText(kind) == kind = "plain"
CodexText(kind) == kind \in {"plain", "reasoning"}
PiText(kind) == kind \in {"plain", "marked"}
Counts(kind) ==
    CASE tool = "claude" -> ClaudeText(kind)
      [] tool = "codex" -> CodexText(kind)
      [] tool = "pi" -> PiText(kind)

Says(kind) ==
    /\ ~stream.ended
    /\ Reads(IF kind = "reasoning" THEN stream ELSE [stream EXCEPT !.said = kind],
             IF Counts(kind) THEN [held EXCEPT !.text = kind] ELSE held, stage)

\* pi's reader stops reading at the end of the turn and at an error.
Then == IF tool = "pi" THEN "closing" ELSE stage

\* The end of the turn: claude's result event with its subtype, codex's
\* turn.completed, pi's agent_end.
EndsTurn(subtype) ==
    /\ ~stream.ended
    /\ subtype # "success" => tool = "claude"
    /\ Reads([stream EXCEPT !.ended = TRUE, !.erred = @ \/ subtype # "success"],
             IF tool = "pi" THEN held ELSE [held EXCEPT !.stop = subtype], Then)

\* An error event of codex or pi.
Errs ==
    /\ tool # "claude" /\ ~stream.erred
    /\ Reads([stream EXCEPT !.erred = TRUE],
             IF tool = "pi" THEN held ELSE [held EXCEPT !.stop = "error_during_execution"], Then)

\* A process can end at any time, by itself or by a signal of ours or of the
\* system's; also one that no runner reads any more.
Exits(code) ==
    /\ agent.alive
    /\ code = "ok" => sessionKept \/ agent.from # Earlier
    /\ agent' = [agent EXCEPT !.alive = FALSE, !.exit = code]
    /\ UNCHANGED <<fixed, loop, listener, stage, attempt, adrift, handle, stream, held,
                   outcome, breaks>>

AdriftExits ==
    /\ adrift > 0 /\ adrift' = adrift - 1
    /\ UNCHANGED <<fixed, loop, listener, stage, attempt, agent, handle, stream, held,
                   outcome, breaks>>

-----------------------------------------------------------------------------
(* The end of a start.                                                       *)

\* pi waits for more input after a turn: its reader closes stdin and waits, for
\* 30 s, then kills the group.
StopsReading ==
    /\ tool = "pi" /\ stage = "reading" /\ ~agent.alive
    /\ stage' = "closing"
    /\ UNCHANGED <<fixed, loop, listener, attempt, agent, adrift, handle, stream, held,
                   outcome, breaks>>

CloseTimesOut ==
    /\ stage = "closing" /\ agent.alive
    /\ agent' = [agent EXCEPT !.alive = FALSE, !.exit = "signal"]
    /\ UNCHANGED <<fixed, loop, listener, adrift, stage, attempt, handle, stream, held,
                   outcome, breaks>>

\* Variant: claude's success goes by the exit code, as codex's does.
ClaudeGoesByExit == [held EXCEPT !.ok = agent.exit = "ok"]
ClaudeOutcome ==
    LET stop == IF agent.exit = "signal" THEN "error_during_execution" ELSE held.stop
    IN  [held EXCEPT !.stop = stop, !.ok = agent.exit = "ok" /\ stop = "success"]

\* --output-last-message holds the agent's last message once a turn ended.
CodexOutcome ==
    [held EXCEPT !.stop = IF @ = "no_events" /\ agent.exit = "ok" THEN "success" ELSE @,
                 !.text = IF stream.ended /\ stream.said # "nothing" THEN stream.said ELSE @,
                 !.ok = agent.exit = "ok"]

PiOutcome ==
    LET clean == stream.ended /\ ~stream.erred
        stop == CASE stream.erred -> "error_during_execution"
                  [] clean -> "success"
                  [] agent.exit = "ok" -> "success"
                  [] OTHER -> "error_during_execution"
    IN  [held EXCEPT !.stop = stop, !.ok = agent.exit = "ok" /\ clean]

OutcomeOfRun ==
    CASE tool = "claude" -> ClaudeOutcome
      [] tool = "codex" -> CodexOutcome
      [] tool = "pi" -> PiOutcome

Finish ==
    /\ stage = IF tool = "pi" THEN "closing" ELSE "reading"
    /\ ~agent.alive
    /\ held' = OutcomeOfRun
    /\ stage' = "ended"
    /\ UNCHANGED <<fixed, loop, listener, attempt, agent, adrift, handle, stream,
                   outcome, breaks>>

\* A line is longer than the reader's limit, or what is read cannot be sent:
\* claude's and pi's runners kill the process, codex's leaves it. The message
\* that says so may fail as well, and the run then raises.
ReapsClaudeOnly(t) == t = "claude"  \* variant: pi's runner leaves it too
Reaps(t) == t # "codex"
Breaks ==
    /\ stage \in {"reading", "closing"}
    /\ breaks < MaxBreaks /\ breaks' = breaks + 1
    /\ agent' = IF agent.alive THEN [agent EXCEPT !.alive = FALSE, !.exit = "signal"] ELSE agent
    /\ adrift' = IF agent.alive /\ ~Reaps(tool) THEN adrift + 1 ELSE adrift
    /\ held' = [held EXCEPT !.stop = "error_during_execution"]
    /\ stage' \in {"ended", "raised"}
    /\ UNCHANGED <<fixed, loop, listener, attempt, handle, stream, outcome>>

\* run_codex_auto, run_pi_auto: a resumed run that was no success starts over.
StartsOver == tool # "claude" /\ attempt = 1 /\ resume # NoSession /\ ~held.ok
Retry ==
    /\ stage = "ended" /\ StartsOver
    /\ stage' = "starting" /\ attempt' = 2
    /\ held' = Nothing(NoSession)
    /\ UNCHANGED <<fixed, loop, listener, agent, adrift, handle, stream, outcome, breaks>>

\* _map_stop_reason refuses a subtype it does not know: the run raises.
Unmapped ==
    /\ stage = "ended" /\ ~StartsOver
    /\ held.stop \notin StopReasons
    /\ stage' = "raised"
    /\ UNCHANGED <<fixed, loop, listener, attempt, agent, adrift, handle, stream, held,
                   outcome, breaks>>

\* Variant: only the result's session is looked at.
CapturesResult == held.session

\* The result, and the session for the next launch: the one the handle knows,
\* else the one of the result.
Captured ==
    IF HandleKnows THEN Session ELSE held.session

ApplyResult ==
    /\ stage = "ended" /\ ~StartsOver /\ held.stop \in StopReasons
    /\ resume' = Captured
    /\ handle' = FALSE
    /\ stage' = "after"
    /\ UNCHANGED <<fixed, listener, instr, attempt, agent, adrift, stream, held,
                   outcome, breaks>>

-----------------------------------------------------------------------------
(* After a run.                                                              *)

LetsGo(how) ==
    /\ outcome' = how /\ stage' = "released"
    /\ UNCHANGED <<fixed, loop, attempt, agent, adrift, stream, held, putting, signals,
                   breaks>>

EndCancelled ==
    /\ stage = "after"
    /\ cancelled \/ (told # <<>> /\ Head(told) = 0)
    /\ cancelled' = FALSE
    /\ LetsGo("cancelled") /\ UNCHANGED <<told, handle>>

FollowRedirect ==
    /\ stage = "after" /\ ~cancelled
    /\ told # <<>> /\ Head(told) # 0
    /\ instr' = Head(told) /\ told' = Tail(told)
    /\ stage' = "ready"
    /\ UNCHANGED <<fixed, resume, attempt, agent, adrift, handle, stream, held,
                   putting, cancelled, outcome, signals, breaks>>

EndReported ==
    /\ stage = "after" /\ ~cancelled /\ told = <<>>
    /\ LetsGo("reported") /\ UNCHANGED <<cancelled, told, handle>>

EndCrashed ==
    /\ stage = "raised"
    /\ handle' = FALSE
    /\ LetsGo("crashed") /\ UNCHANGED <<cancelled, told>>

-----------------------------------------------------------------------------
(* The listener.                                                             *)

Signalled ==
    IF handle /\ agent.alive THEN [agent EXCEPT !.signalled = TRUE] ELSE agent

\* Variant: the cancel is marked and queued, the process not signalled.
CancelsQuietly ==
    /\ putting = NothingToPut /\ outcome = "none"
    /\ signals < MaxSignals /\ signals' = signals + 1
    /\ cancelled' = TRUE
    /\ putting' = <<0>>
    /\ UNCHANGED <<fixed, loop, adrift, stage, attempt, agent, handle, stream, held, told,
                   outcome, breaks>>

\* The process is signalled first; the queue is told after an await.
Cancel ==
    /\ putting = NothingToPut /\ outcome = "none"
    /\ signals < MaxSignals /\ signals' = signals + 1
    /\ cancelled' = TRUE
    /\ agent' = Signalled
    /\ putting' = <<0>>
    /\ UNCHANGED <<fixed, loop, adrift, stage, attempt, handle, stream, held, told,
                   outcome, breaks>>

Redirect ==
    /\ putting = NothingToPut /\ outcome = "none"
    /\ signals < MaxSignals /\ signals' = signals + 1
    /\ agent' = Signalled
    /\ putting' = <<signals + 2>>
    /\ UNCHANGED <<fixed, loop, adrift, stage, attempt, handle, stream, held, told,
                   cancelled, outcome, breaks>>

\* The queue is gone once the task has left the slot.
Put ==
    /\ putting # NothingToPut
    /\ told' = IF outcome = "none" THEN told \o putting ELSE told
    /\ putting' = NothingToPut
    /\ UNCHANGED <<fixed, loop, stage, attempt, agent, adrift, handle, stream, held,
                   cancelled, outcome, signals, breaks>>

-----------------------------------------------------------------------------
RunnerSteps ==
    Launch \/ Spawn \/ StopsReading \/ CloseTimesOut \/ Finish \/ Retry \/ Unmapped
    \/ ApplyResult \/ EndCancelled \/ FollowRedirect \/ EndReported \/ EndCrashed \/ Put

RunnerNext ==
    \/ RunnerSteps
    \/ NotStarted
    \/ Breaks
    \/ TellsSession
    \/ \E kind \in {"plain", "marked", "reasoning"} : Says(kind)
    \/ \E subtype \in {"success", "max_turns", "error_during_execution", "other"} : EndsTurn(subtype)
    \/ Errs
    \/ \E code \in {"ok", "fail", "signal"} : Exits(code)
    \/ AdriftExits
    \/ Cancel
    \/ Redirect

RunnerSpec == RunnerInit /\ [][RunnerNext]_runnerVars

\* A process that was signalled ends.
Obeys == agent.signalled /\ Exits("signal")

RunnerFairness == WF_runnerVars(RunnerSteps) /\ WF_runnerVars(Obeys)
RunnerFairSpec == RunnerSpec /\ RunnerFairness

-----------------------------------------------------------------------------
\* Two agents never edit one worktree, and none goes on after its task has left
\* the slot: whatever the stream did, only the process the runner is reading
\* can be alive. Codex's runner does not reap what its reader gave up
\* (codex_runner.py, finally).
OneAgentPerTree ==
    /\ agent.alive => stage \in {"reading", "closing"}
    /\ adrift > 0 => tool = "codex"

\* What is pushed and reported as a success was one: the last process, on the
\* current instructions, ended by itself without an error and had finished its
\* turn, and the message the foreman reads is the last the agent wrote. Codex's
\* runner goes by the exit code alone; a text that starts with a display mark
\* is not claude's last text.
SuccessIsReal ==
    held.ok /\ (stage = "after" \/ outcome = "reported") =>
        /\ agent.exit = "ok" /\ agent.instr = instr
        /\ tool # "codex" => stream.ended /\ ~stream.erred /\ held.stop = "success"
        /\ \/ held.text = stream.said
           \/ stream.said = "nothing" \/ (tool = "codex" /\ ~stream.ended)
           \/ tool = "claude" /\ stream.said = "marked"

StartsAgent == stage = "starting" /\ stage' = "reading"
NewInstructions == StartsAgent /\ agent'.instr # agent.instr

\* A redirect continues the agent's conversation: a process started on new
\* instructions resumes all that the one before it had in its session, if that
\* one had told it; if it had not, codex and pi at least keep what was there
\* before it (claude starts with nothing).
ContextKept ==
    [][NewInstructions =>
        /\ agent.told => Session \subseteq agent'.from
        /\ tool # "claude" => agent.from \subseteq agent'.from]_runnerVars

\* A cancelled task leaves the slot, unless an agent runs that was started when
\* the mark was there already: nothing signals that one.
CancelHeeded == cancelled ~> (outcome # "none" \/ (agent.alive /\ agent.late))

\* What the comments say of a signal: it ends the agent's work on the
\* instructions it was given (worker.py:1411, 1438), and a start in a new
\* session is for a session this machine does not have (codex_runner.py:133).
StoppedStaysStopped ==
    [][StartsAgent /\ agent'.instr = agent.instr => ~agent.signalled]_runnerVars
=============================================================================
