----------------------------- MODULE Conductor -----------------------------
(***************************************************************************)
(* The research conductor's attempts within the rounds of one controller   *)
(* process: run_research_conductor under asyncio.run, the analysts it      *)
(* calls through analyze_trades, the Python programs they run, and what    *)
(* the trace, the refinement session and the token usage say of them.      *)
(*                                                                         *)
(* Coroutines switch at an await only, so what lies between two awaits is  *)
(* one action.  The SDK runs an analyst's tools, plain functions, in       *)
(* worker threads: the programs it asks for in one turn run side by side,  *)
(* and a cancelled analyst does not stop the ones that already run.        *)
(***************************************************************************)
EXTENDS Integers, Sequences, FiniteSets

CONSTANTS
    Analysts,       \* calls of analyze_trades an attempt may make
    MaxCalls,       \* bound: tool calls an analyst makes
    Width,          \* tool calls a model may ask for in one turn
    FailedCallLimit, \* ANALYST_RUN_PYTHON_FAILED_CALL_LIMIT
    MaxAttempts,    \* bound: attempts of a round
    Lead            \* the conductor itself

ASSUME ConstantsAssumption ==
    /\ Lead \notin Analysts
    /\ MaxCalls \in Nat
    /\ Width \in Nat \ {0} /\ FailedCallLimit \in Nat \ {0}
    /\ MaxAttempts \in Nat

VARIABLES
    at,         \* where the controller's round and the attempt in it are
    sessions,   \* the refinement sessions of the round, the attempt's last
    result,     \* the ConductorResult of the last attempt
    call,       \* [Analysts -> state of that analyze_trades call]
    program,    \* [Analysts -> tool calls made, reads and programs asked for,
                \* programs running]
    failed,     \* [Analysts -> failed_calls of the analyst's budget]
    prompt,     \* [agents -> the trace id trace_agent_prompt gave it]
    trace,      \* the runtime state of the trace: ids given out, agent_contexts,
                \* and whether an event was filed astray
    usage       \* _ROUND_USAGE: the calls counted under "conductor"

vars == <<at, sessions, result, call, program, failed, prompt, trace, usage>>
agents == <<call, program, failed>>

-----------------------------------------------------------------------------
Agents == Analysts \cup {Lead}
NoResult == [status |-> "none", error |-> ""]
Result(status, error) == [status |-> status, error |-> error]
Open == [reason |-> "", outcome |-> "open", iterations |-> 0]

Attempt == Len(sessions)
UnderWay == at \in {"connecting", "streaming"}

\* Tools the turn of the conductor, or of an analyst, still waits for.
Pending == {a \in Analysts : call[a] \in {"asked", "running"}}
NothingPendingIn(a) ==
    program[a].reads = 0 /\ program[a].asked = 0 /\ program[a].running = 0

Idle == [a \in Analysts |-> "unused"]
NoPrograms == [a \in Analysts |-> [made |-> 0, reads |-> 0, asked |-> 0, running |-> 0]]

Init ==
    /\ at = "between" /\ sessions = <<>> /\ result = NoResult
    /\ call = Idle /\ program = NoPrograms /\ failed = [a \in Analysts |-> 0]
    /\ prompt = [a \in Agents |-> 0]
    /\ trace = [ids |-> 0, contexts |-> {}, astray |-> FALSE]
    /\ usage = 0

-----------------------------------------------------------------------------
(* The trace.  An id is numbered within its round; the context an event    *)
(* finds under its id is the span of the prompt that was given that id.    *)

ResetForRound == trace' = [trace EXCEPT !.ids = 0, !.contexts = {}]
EndHypothesis == trace' = [trace EXCEPT !.contexts = {}]

\* The span of a prompt becomes the context of its id, the last one given out.
Remembered(t, a) == [t EXCEPT !.contexts = @ \cup {<<t.ids, a>>}]

TraceAgentPrompt(t, a) == Remembered([t EXCEPT !.ids = @ + 1], a)

\* _parent_context_for_event: the agents whose prompt such an event hangs under.
ParentOfEvents(t, a) == {b \in Agents : <<prompt[a], b>> \in t.contexts}

\* An event of agent a, as the span under which it is filed.
Filed(t, a) == [t EXCEPT !.astray = @ \/ ParentOfEvents(t, a) # {a}]

TraceToolCall(t, a) == Filed(t, a)
TraceToolResult(t, a) == Filed(t, a)
TraceResponse(t, a) == Filed(t, a)

ResetRoundUsage == usage' = 0
CountRun == usage' = usage + 1

-----------------------------------------------------------------------------
(* The round around the attempts: run_research, _invoke_conductor_round.   *)

BeginRound ==
    /\ at = "between"
    /\ at' = "round" /\ sessions' = <<>> /\ result' = NoResult
    /\ ResetForRound /\ ResetRoundUsage
    /\ UNCHANGED <<agents, prompt>>

\* A second attempt follows an error as well as a thesis that was rejected.
StartAttempt ==
    /\ at = "round" /\ Attempt < MaxAttempts
    /\ at' = "connecting"
    /\ sessions' = Append(sessions, Open) /\ result' = NoResult
    /\ prompt' = [prompt EXCEPT ![Lead] = trace.ids + 1]
    /\ trace' = TraceAgentPrompt(trace, Lead)
    /\ UNCHANGED <<agents, usage>>

EndRound ==
    /\ at = "round" /\ Attempt > 0
    /\ at' = "between" /\ EndHypothesis
    /\ UNCHANGED <<sessions, result, agents, prompt, usage>>

-----------------------------------------------------------------------------
(* One attempt: run_research_conductor.                                    *)

\* finish_session and the return that follows it.
Return(reason, outcome, iterations, res) ==
    /\ at' = "closing" /\ result' = res
    /\ sessions' = [sessions EXCEPT ![Attempt] =
            [reason |-> reason, outcome |-> outcome, iterations |-> iterations]]

\* Either _ensure_oauth_proxy finds the proxy or it raises.
Connect ==
    /\ at = "connecting"
    /\ \/ at' = "streaming" /\ UNCHANGED <<sessions, result>>
       \/ Return("exception", "conductor_error", 0,
                 Result("conductor_error", "proxy_unavailable"))
    /\ UNCHANGED <<agents, prompt, trace, usage>>

\* A turn of the conductor that calls tools; without trades it has none.
AskAnalysts ==
    /\ at = "streaming" /\ Pending = {}
    /\ \E S \in SUBSET {a \in Analysts : call[a] = "unused"} :
        /\ S # {}
        /\ call' = [a \in Analysts |-> IF a \in S THEN "asked" ELSE call[a]]
    /\ UNCHANGED <<at, sessions, result, program, failed, prompt, trace, usage>>

\* A final output as _parse_json and MechanismProposal see it.
Outputs == {"proposal", "other JSON", "text"}

\* What each of them becomes.
Final(kind) ==
    CASE kind = "proposal" ->
            Return("mechanism_proposal", "accepted", 1, Result("ok", ""))
      [] kind = "other JSON" ->
            Return("invalid_output", "retry_required", 1,
                   Result("conductor_error", "validation_failed"))
      [] kind = "text" ->
            Return("invalid_output", "retry_required", 1,
                   Result("conductor_error", "parse_failed"))

Answer ==
    /\ at = "streaming" /\ Pending = {}
    /\ \E kind \in Outputs : Final(kind)
    /\ CountRun
    /\ trace' = TraceResponse(trace, Lead)
    /\ UNCHANGED <<agents, prompt>>

\* max_turns, a lost connection, an output the SDK refuses.
ConductorFails ==
    /\ at = "streaming" /\ Pending = {}
    /\ Return("exception", "conductor_error", 0, Result("conductor_error", "exception"))
    /\ UNCHANGED <<agents, prompt, trace, usage>>

\* Cancellation reaches every coroutine and every program no thread has taken up.
Cancelled(s) ==
    CASE s = "running" -> "cancelled" [] s = "asked" -> "dropped" [] OTHER -> s

\* Variant: the clock is read between the turns of the conductor.
TimeoutBetweenTurns ==
    /\ at = "streaming" /\ Pending = {}
    /\ Return("timeout", "conductor_error", 0, Result("conductor_error", "timeout"))
    /\ UNCHANGED <<agents, prompt, trace, usage>>

Timeout ==
    /\ at = "streaming"
    /\ Return("timeout", "conductor_error", 0, Result("conductor_error", "timeout"))
    /\ call' = [a \in Analysts |-> Cancelled(call[a])]
    /\ program' = [a \in Analysts |-> [program[a] EXCEPT !.reads = 0, !.asked = 0]]
    /\ UNCHANGED <<failed, prompt, trace, usage>>

\* Variant: an event loop of the attempt's own, stopped without its threads.
CloseAtOnce ==
    /\ at = "closing" /\ at' = "round"
    /\ UNCHANGED <<sessions, result, agents, prompt, trace, usage>>

\* asyncio.run gives the result back once the worker threads have ended; the
\* tools and budgets were the attempt's own.
Close ==
    /\ at = "closing" /\ \A a \in Analysts : program[a].running = 0
    /\ at' = "round"
    /\ call' = Idle /\ program' = NoPrograms /\ failed' = [a \in Analysts |-> 0]
    /\ prompt' = [a \in Agents |-> 0]
    /\ UNCHANGED <<sessions, result, trace, usage>>

-----------------------------------------------------------------------------
(* One analyst: analyze_trades and _call_analyst.                          *)

\* _validate_tool_args refuses the arguments: the traced call has no result.
RefuseCall(a) ==
    /\ at = "streaming" /\ call[a] = "asked"
    /\ call' = [call EXCEPT ![a] = "refused"]
    /\ trace' = TraceToolCall(trace, Lead)
    /\ UNCHANGED <<at, sessions, result, program, failed, prompt, usage>>

\* The proxy or _analysis_manifest raises outside the analyst's own error
\* handling: again a call without a result, and the SDK words the failure.
RaiseInCall(a) ==
    /\ at = "streaming" /\ call[a] = "asked"
    /\ call' = [call EXCEPT ![a] = "raised"]
    /\ trace' = TraceToolCall(trace, Lead)
    /\ UNCHANGED <<at, sessions, result, program, failed, prompt, usage>>

BeginCall(a) ==
    /\ at = "streaming" /\ call[a] = "asked"
    /\ call' = [call EXCEPT ![a] = "running"]
    /\ prompt' = [prompt EXCEPT ![a] = trace.ids + 1]
    /\ trace' = TraceAgentPrompt(TraceToolCall(trace, Lead), a)
    /\ UNCHANGED <<at, sessions, result, program, failed, usage>>

\* A turn of the analyst: it reads artifacts, it runs programs, or both.
AskTools(a) ==
    /\ at = "streaming" /\ call[a] = "running" /\ NothingPendingIn(a)
    /\ \E reads, runs \in 0..Width :
        /\ reads + runs \in 1..Width
        /\ program[a].made + reads + runs <= MaxCalls
        /\ program' = [program EXCEPT ![a].made = @ + reads + runs,
                                      ![a].reads = reads, ![a].asked = runs]
    /\ UNCHANGED <<at, sessions, result, call, failed, prompt, trace, usage>>

\* The listing and reading tools answer from the manifest, the round index and
\* the files they name; what they cannot find is a result as well, and the
\* failure budget hears of neither.
ReadArtifact(a) ==
    /\ at = "streaming" /\ program[a].reads > 0
    /\ program' = [program EXCEPT ![a].reads = @ - 1]
    /\ trace' = TraceToolResult(TraceToolCall(trace, a), a)
    /\ UNCHANGED <<at, sessions, result, call, failed, prompt, usage>>

\* Variant: the refusal comes one call late.
WithinBudgetLate(a) == failed[a] <= FailedCallLimit

\* before_call_message: whether the budget lets one more program run.
WithinBudget(a) == failed[a] < FailedCallLimit

\* A worker thread takes up a call the budget allows ...
BeginProgram(a) ==
    /\ at = "streaming" /\ program[a].asked > 0 /\ WithinBudget(a)
    /\ program' = [program EXCEPT ![a].asked = @ - 1, ![a].running = @ + 1]
    /\ trace' = TraceToolCall(trace, a)
    /\ UNCHANGED <<at, sessions, result, call, failed, prompt, usage>>

\* ... or one it refuses, which has its result at once.
RefuseProgram(a) ==
    /\ at = "streaming" /\ program[a].asked > 0 /\ ~WithinBudget(a)
    /\ program' = [program EXCEPT ![a].asked = @ - 1]
    /\ trace' = TraceToolResult(TraceToolCall(trace, a), a)
    /\ UNCHANGED <<at, sessions, result, call, failed, prompt, usage>>

\* The program exits or is ended after 60 s; record counts a failure, and a
\* success clears the count.
EndProgram(a) ==
    /\ program[a].running > 0
    /\ program' = [program EXCEPT ![a].running = @ - 1]
    /\ \/ failed' = [failed EXCEPT ![a] = 0]
       \/ failed' = [failed EXCEPT ![a] = @ + 1]
    /\ trace' = TraceToolResult(trace, a)
    /\ UNCHANGED <<at, sessions, result, call, prompt, usage>>

\* The analyst answers, and its answer is traced if it parses; any exception
\* becomes its output, and analyze_trades traces both as a result.
AnalystEnds(a) ==
    /\ at = "streaming" /\ call[a] = "running" /\ NothingPendingIn(a)
    /\ \/ /\ call' = [call EXCEPT ![a] = "answered"]
          /\ trace' = TraceToolResult(TraceResponse(trace, a), Lead)
       \/ /\ call' = [call EXCEPT ![a] = "error"]
          /\ trace' = TraceToolResult(trace, Lead)
    /\ UNCHANGED <<at, sessions, result, program, failed, prompt, usage>>

Next ==
    \/ BeginRound \/ StartAttempt \/ EndRound
    \/ Connect \/ AskAnalysts \/ Answer \/ ConductorFails \/ Timeout \/ Close
    \/ \E a \in Analysts :
        \/ RefuseCall(a) \/ RaiseInCall(a) \/ BeginCall(a) \/ AnalystEnds(a)
        \/ AskTools(a) \/ ReadArtifact(a)
        \/ BeginProgram(a) \/ RefuseProgram(a) \/ EndProgram(a)

\* Fair are the clocks, of the probe, the stream and the programs, and the
\* shutdown of the loop.  No model need ever answer.
Fairness ==
    /\ WF_vars(Connect) /\ WF_vars(Timeout) /\ WF_vars(Close)
    /\ \A a \in Analysts : WF_vars(EndProgram(a))

Spec == Init /\ [][Next]_vars /\ Fairness

-----------------------------------------------------------------------------
CallStates == {"unused", "asked", "running", "answered", "error",
               "refused", "raised", "cancelled", "dropped"}
Outcomes == {"open", "accepted", "retry_required", "conductor_error"}

\* The variables have their types; a round's sessions are its attempts.
TypeOK ==
    /\ at \in {"between", "round", "connecting", "streaming", "closing"}
    /\ sessions \in Seq([reason : STRING, outcome : Outcomes, iterations : {0, 1}])
    /\ result \in [status : {"none", "ok", "conductor_error"}, error : STRING]
    /\ call \in [Analysts -> CallStates]
    /\ program \in [Analysts -> [made : Nat, reads : Nat, asked : Nat, running : Nat]]
    /\ failed \in [Analysts -> Nat]
    /\ prompt \in [Agents -> Nat]
    /\ trace \in [ids : Nat, contexts : SUBSET (Nat \X Agents), astray : BOOLEAN]
    /\ usage \in Nat

\* No tool call, tool result or response is ever filed under anything but the
\* prompt of the agent it belongs to: not those of an analyst the timeout has
\* cancelled, nor the result of a program that outlives its analyst.
EventsFindTheirPrompt == ~trace.astray

\* Programs asked for in one turn pass the budget before any of them has
\* failed, so an analyst whose programs only fail runs more of them than the
\* limit: up to one turn's calls, less one, and no more.
FailedProgramsAreBounded ==
    \A a \in Analysts : failed[a] <= FailedCallLimit + Width - 1

\* An attempt that has begun returns to its round, whether or not any agent
\* ever answers.
AttemptsEnd == UnderWay ~> at = "round"
=============================================================================
