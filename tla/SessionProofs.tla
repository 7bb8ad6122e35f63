---------------------------- MODULE SessionProofs ----------------------------
(***************************************************************************)
(* A session with the agent: what it may do and what it gets to read.  The *)
(* first part is of the conductor: whatever the agents answer, however     *)
(* many analysts, calls and attempts there are, the events of late         *)
(* programs find the prompt of their own analyst, and the failures of      *)
(* parallel programs are bounded.  The second part is of the screening,    *)
(* whose results are in the corpus of the session: the trades held out     *)
(* stay unseen, for any rules, thresholds, models and data.  The third is  *)
(* of the feature table that the screening reads: no row looks ahead.      *)
(***************************************************************************)
EXTENDS Conductor, Screening, FiniteSetTheorems, WellFoundedInduction, TLAPS

Programs == [made : Nat, reads : Nat, asked : Nat, running : Nat]
Traces == [ids : Nat, contexts : SUBSET (Nat \X Agents), astray : BOOLEAN]

Typed ==
    /\ call \in [Analysts -> CallStates]
    /\ program \in [Analysts -> Programs]
    /\ failed \in [Analysts -> Nat]
    /\ prompt \in [Agents -> Nat]
    /\ trace \in Traces

-----------------------------------------------------------------------------
(* The operations of the trace.                                            *)

\* Every id stands for one agent, and was given out.
IdsAreUnique(t) ==
    /\ \A n \in Nat, a, b \in Agents : <<n, a>> \in t.contexts /\ <<n, b>> \in t.contexts => a = b
    /\ \A n \in Nat, a \in Agents : <<n, a>> \in t.contexts => n <= t.ids

\* An event whose prompt is among the contexts is filed under its own agent, and
\* nothing else changes.
LEMMA EventIsFiled ==
    ASSUME Typed, IdsAreUnique(trace), NEW a \in Agents, <<prompt[a], a>> \in trace.contexts
    PROVE  Filed(trace, a) = trace
<1>1. prompt[a] \in Nat
  BY DEF Typed
<1>2. ParentOfEvents(trace, a) = {a}
  BY <1>1 DEF IdsAreUnique, ParentOfEvents
<1>3. Filed(trace, a) = [trace EXCEPT !.astray = @]
  BY <1>2 DEF Filed, Typed, Traces
<1> QED
  BY <1>3 DEF Typed, Traces

\* A new prompt takes an id that no context has.
LEMMA PromptIsNew ==
    ASSUME Typed, IdsAreUnique(trace), NEW a \in Agents, trace' = TraceAgentPrompt(trace, a)
    PROVE  /\ trace' \in Traces /\ IdsAreUnique(trace') /\ trace'.astray = trace.astray
           /\ trace.contexts \subseteq trace'.contexts
           /\ <<trace.ids + 1, a>> \in trace'.contexts
<1>1. /\ trace'.ids = trace.ids + 1 /\ trace'.astray = trace.astray
      /\ trace'.contexts = trace.contexts \cup {<<trace.ids + 1, a>>}
      /\ trace' \in Traces
  <2> DEFINE t == [trace EXCEPT !.ids = @ + 1]
  <2>1. t \in Traces /\ t.ids = trace.ids + 1 /\ t.astray = trace.astray
        /\ t.contexts = trace.contexts
    BY DEF Typed, Traces
  <2>2. trace' = [t EXCEPT !.contexts = @ \cup {<<t.ids, a>>}]
    BY DEF TraceAgentPrompt, Remembered
  <2> HIDE DEF t
  <2>3. <<t.ids, a>> \in Nat \X Agents
    BY <2>1 DEF Traces
  <2> QED
    BY <2>1, <2>2, <2>3 DEF Traces
<1>2. trace.ids \in Nat
  BY DEF Typed, Traces
<1>3. \A n \in Nat, b \in Agents :
        <<n, b>> \in trace'.contexts => <<n, b>> \in trace.contexts \/ (n = trace.ids + 1 /\ b = a)
  BY <1>1
<1>4. \A n \in Nat, b \in Agents : <<n, b>> \in trace.contexts => n # trace.ids + 1
  BY <1>2 DEF IdsAreUnique
<1>5. \A n \in Nat, b \in Agents : <<n, b>> \in trace.contexts => n <= trace.ids + 1
  BY <1>2 DEF IdsAreUnique
<1>6. IdsAreUnique(trace')
  BY <1>1, <1>2, <1>3, <1>4, <1>5 DEF IdsAreUnique
<1> QED
  BY <1>1, <1>6

-----------------------------------------------------------------------------
(* Prompts.                                                                *)

Speaking(a) == call[a] \in {"running", "cancelled"}
Busy(a) == program[a].reads > 0 \/ program[a].asked > 0 \/ program[a].running > 0

\* Whoever may still file an event has a prompt of this attempt.
Prompted ==
    /\ UnderWay => <<prompt[Lead], Lead>> \in trace.contexts
    /\ \A a \in Analysts : Speaking(a) => <<prompt[a], a>> \in trace.contexts
    /\ \A a \in Analysts : Busy(a) => Speaking(a)
    /\ at \in {"between", "round", "connecting"} =>
          \A a \in Analysts : call[a] = "unused" /\ ~Busy(a)

Inv == Typed /\ IdsAreUnique(trace) /\ Prompted /\ EventsFindTheirPrompt

LEMMA InitInv == Init => Inv
BY DEF Init, Inv, Typed, Traces, Programs, IdsAreUnique, Prompted, UnderWay, Busy, Speaking,
       EventsFindTheirPrompt, Idle, NoPrograms, CallStates

\* The steps of the round around an attempt.
LEMMA RoundStepsPrompted ==
    ASSUME Inv, BeginRound \/ StartAttempt \/ EndRound \/ Close PROVE Inv'
<1>1. CASE BeginRound \/ EndRound
  <2>1. /\ trace'.contexts = {} /\ trace'.astray = trace.astray /\ trace' \in Traces
        /\ trace'.ids \in Nat
    <3>1. CASE BeginRound
      <4> DEFINE t == [trace EXCEPT !.ids = 0]
      <4>1. t \in Traces /\ t.astray = trace.astray
        BY DEF Inv, Typed, Traces
      <4>2. trace' = [t EXCEPT !.contexts = {}]
        BY <3>1 DEF BeginRound, ResetForRound
      <4> HIDE DEF t
      <4> QED
        BY <4>1, <4>2 DEF Traces
    <3>2. CASE EndRound
      BY <3>2 DEF Inv, Typed, Traces, EndRound, EndHypothesis
    <3> QED
      BY <1>1, <3>1, <3>2
  <2>2. /\ UNCHANGED <<call, program, failed, prompt>> /\ at \in {"between", "round"}
        /\ at' \in {"between", "round"}
    BY <1>1 DEF BeginRound, EndRound, agents
  <2>3. Typed' /\ IdsAreUnique(trace')
    BY <2>1, <2>2 DEF Inv, Typed, IdsAreUnique
  <2>4. Prompted'
    BY <2>2 DEF Inv, Prompted, UnderWay, Busy, Speaking
  <2> QED
    BY <2>1, <2>3, <2>4 DEF Inv, EventsFindTheirPrompt
<1>2. CASE StartAttempt
  <2>1. /\ at = "round" /\ at' = "connecting" /\ UNCHANGED agents
        /\ prompt' = [prompt EXCEPT ![Lead] = trace.ids + 1]
        /\ trace' = TraceAgentPrompt(trace, Lead)
    BY <1>2 DEF StartAttempt
  <2>2. Lead \in Agents /\ trace.ids + 1 \in Nat
    BY DEF Agents, Inv, Typed, Traces
  <2>3. /\ trace' \in Traces /\ IdsAreUnique(trace') /\ trace'.astray = trace.astray
        /\ <<trace.ids + 1, Lead>> \in trace'.contexts
    BY <2>1, <2>2, PromptIsNew DEF Inv
  <2>4. prompt' \in [Agents -> Nat] /\ prompt'[Lead] = trace.ids + 1
    BY <2>1, <2>2 DEF Inv, Typed
  <2> QED
    BY <2>1, <2>3, <2>4
    DEF Inv, Typed, Prompted, UnderWay, Busy, Speaking, EventsFindTheirPrompt, agents
<1>3. CASE Close
  <2>1. /\ at' = "round" /\ UNCHANGED trace
        /\ call' = [a \in Analysts |-> "unused"]
        /\ program' = [a \in Analysts |-> [made |-> 0, reads |-> 0, asked |-> 0, running |-> 0]]
        /\ failed' = [a \in Analysts |-> 0] /\ prompt' = [a \in Agents |-> 0]
    BY <1>3 DEF Close, Idle, NoPrograms
  <2>2. Typed'
    BY <2>1 DEF Inv, Typed, CallStates, Programs
  <2>3. ~UnderWay' /\ \A a \in Analysts : call'[a] = "unused" /\ ~Speaking(a)'
    BY <2>1 DEF UnderWay, Speaking
  <2>4. \A a \in Analysts : ~Busy(a)'
    BY <2>1 DEF Busy
  <2>5. Prompted'
    BY <2>3, <2>4 DEF Prompted
  <2>6. IdsAreUnique(trace') /\ EventsFindTheirPrompt'
    BY <2>1 DEF Inv, IdsAreUnique, EventsFindTheirPrompt
  <2> QED
    BY <2>2, <2>5, <2>6 DEF Inv
<1> QED
  BY <1>1, <1>2, <1>3

\* The steps of the conductor itself.
LEMMA LeadStepsPrompted ==
    ASSUME Inv, Connect \/ AskAnalysts \/ Answer \/ ConductorFails \/ Timeout PROVE Inv'
<1>1. Lead \in Agents
  BY DEF Agents
<1>2. UNCHANGED <<prompt, trace, failed>>
  <2>1. CASE Answer
    <3>1. UnderWay /\ trace' = Filed(trace, Lead) /\ UNCHANGED <<prompt, failed>>
      BY <2>1 DEF Answer, UnderWay, TraceResponse, agents
    <3> QED
      BY <1>1, <3>1, EventIsFiled DEF Inv, Prompted
  <2> QED
    BY <2>1 DEF Connect, AskAnalysts, ConductorFails, Timeout, agents
<1>3. CASE Connect \/ Answer \/ ConductorFails
  <2>1. /\ UNCHANGED agents /\ at \in {"connecting", "streaming"}
        /\ at' \in {"streaming", "closing"}
    BY <1>3 DEF Connect, Answer, ConductorFails, Final, Outputs, Return
  <2> QED
    BY <1>2, <2>1
    DEF Inv, Typed, Prompted, UnderWay, Busy, Speaking, EventsFindTheirPrompt, IdsAreUnique, agents
<1>4. CASE AskAnalysts
  <2>1. PICK S \in SUBSET {a \in Analysts : call[a] = "unused"} :
          call' = [a \in Analysts |-> IF a \in S THEN "asked" ELSE call[a]]
    BY <1>4 DEF AskAnalysts
  <2>2. UNCHANGED <<at, program>> /\ at = "streaming"
    BY <1>4 DEF AskAnalysts
  <2>3. \A a \in Analysts : Speaking(a)' <=> Speaking(a)
    BY <2>1 DEF Speaking
  <2>4. Typed'
    BY <1>2, <2>1, <2>2 DEF Inv, Typed, CallStates
  <2> QED
    BY <1>2, <2>2, <2>3, <2>4
    DEF Inv, Prompted, UnderWay, Busy, EventsFindTheirPrompt, IdsAreUnique
<1>5. CASE Timeout
  <2>1. /\ at = "streaming" /\ at' = "closing"
        /\ call' = [a \in Analysts |-> Cancelled(call[a])]
        /\ program' = [a \in Analysts |-> [program[a] EXCEPT !.reads = 0, !.asked = 0]]
    BY <1>5 DEF Timeout, Return
  <2>2. \A a \in Analysts : /\ program'[a].reads = 0 /\ program'[a].asked = 0
                            /\ program'[a].running = program[a].running
                            /\ program'[a] \in Programs
    BY <2>1 DEF Inv, Typed, Programs
  <2>3. \A a \in Analysts : Cancelled(call[a]) \in CallStates
                            /\ (Cancelled(call[a]) \in {"running", "cancelled"} <=> Speaking(a))
    BY DEF Inv, Typed, CallStates, Cancelled, Speaking
  <2>4. Typed'
    BY <1>2, <2>1, <2>2, <2>3 DEF Inv, Typed
  <2>5. \A a \in Analysts : call'[a] = Cancelled(call[a])
    BY <2>1
  <2>6. \A a \in Analysts : Speaking(a)' <=> Speaking(a)
    BY <2>3, <2>5 DEF Speaking
  <2>7. \A a \in Analysts : Busy(a)' => Busy(a)
    BY <2>2 DEF Busy
  <2>8. Prompted'
    BY <1>2, <2>1, <2>6, <2>7 DEF Inv, Prompted, UnderWay
  <2> QED
    BY <1>2, <2>4, <2>8 DEF Inv, EventsFindTheirPrompt, IdsAreUnique
<1> QED
  BY <1>3, <1>4, <1>5

\* What an analyst's step files under the conductor or under itself changes nothing.
LEMMA NothingGoesAstray ==
    ASSUME Inv, UnderWay
    PROVE  /\ Filed(trace, Lead) = trace
           /\ \A a \in Analysts : Speaking(a) => Filed(trace, a) = trace
<1>1. Lead \in Agents /\ \A a \in Analysts : a \in Agents
  BY DEF Agents
<1>2. Filed(trace, Lead) = trace
  BY <1>1, EventIsFiled DEF Inv, Prompted
<1>3. ASSUME NEW a \in Analysts, Speaking(a) PROVE Filed(trace, a) = trace
  BY <1>1, <1>3, EventIsFiled DEF Inv, Prompted
<1> QED
  BY <1>2, <1>3

\* An analyst's step that leaves the prompts and the trace alone.
LEMMA QuietAnalystStep ==
    ASSUME Inv, UNCHANGED <<prompt, trace, at>>, at \notin {"between", "round", "connecting"},
           call' \in [Analysts -> CallStates], program' \in [Analysts -> Programs],
           failed' \in [Analysts -> Nat],
           \A a \in Analysts : (Speaking(a)' => Speaking(a)) /\ (Busy(a)' => Speaking(a)')
    PROVE  Inv'
<1>1. Typed'
  BY DEF Inv, Typed
<1>2. Prompted'
  BY DEF Inv, Prompted, UnderWay
<1> QED
  BY <1>1, <1>2 DEF Inv, EventsFindTheirPrompt, IdsAreUnique

\* The call of an analyst: taken up, refused, raising, ended.
LEMMA CallStepsPrompted ==
    ASSUME Inv, NEW a \in Analysts,
           RefuseCall(a) \/ RaiseInCall(a) \/ BeginCall(a) \/ AnalystEnds(a)
    PROVE  Inv'
<1>1. UnderWay /\ at = "streaming" /\ a # Lead /\ a \in Agents /\ Lead \in Agents
  BY ConstantsAssumption
  DEF RefuseCall, RaiseInCall, BeginCall, AnalystEnds, UnderWay, Agents
<1>2. Filed(trace, Lead) = trace
  BY <1>1, NothingGoesAstray
<1>3. UNCHANGED <<at, program, failed>>
  BY DEF RefuseCall, RaiseInCall, BeginCall, AnalystEnds
<1>4. CASE RefuseCall(a) \/ RaiseInCall(a)
  <2>1. PICK s \in {"refused", "raised"} :
          call[a] = "asked" /\ call' = [call EXCEPT ![a] = s] /\ UNCHANGED <<prompt, trace>>
    BY <1>2, <1>4 DEF RefuseCall, RaiseInCall, TraceToolCall
  <2>2. call' \in [Analysts -> CallStates]
    BY <2>1 DEF Inv, Typed, CallStates
  <2>3. \A b \in Analysts : (Speaking(b)' <=> Speaking(b)) /\ (Busy(b)' <=> Busy(b))
    BY <1>3, <2>1 DEF Inv, Typed, Speaking, Busy
  <2> QED
    BY <1>1, <1>3, <2>1, <2>2, <2>3, QuietAnalystStep DEF Inv, Prompted, Typed
<1>5. CASE AnalystEnds(a)
  <2>1. /\ Speaking(a) /\ NothingPendingIn(a)
        /\ Filed(trace, a) = trace
    BY <1>1, <1>5, NothingGoesAstray DEF AnalystEnds, Speaking
  <2>2. PICK s \in {"answered", "error"} :
          call' = [call EXCEPT ![a] = s] /\ UNCHANGED <<prompt, trace>>
    BY <1>2, <1>5, <2>1 DEF AnalystEnds, TraceToolResult, TraceResponse
  <2>3. call' \in [Analysts -> CallStates]
    BY <2>2 DEF Inv, Typed, CallStates
  <2>4. ~Busy(a)'
    BY <1>3, <2>1 DEF Busy, NothingPendingIn
  <2>5. \A b \in Analysts : b # a => (Speaking(b)' <=> Speaking(b)) /\ (Busy(b)' <=> Busy(b))
    BY <1>3, <2>2 DEF Inv, Typed, Speaking, Busy
  <2>6. \A b \in Analysts : (Speaking(b)' => Speaking(b)) /\ (Busy(b)' => Speaking(b)')
    BY <2>1, <2>4, <2>5 DEF Inv, Prompted
  <2> QED
    BY <1>1, <1>3, <2>2, <2>3, <2>6, QuietAnalystStep DEF Inv, Typed
<1>6. CASE BeginCall(a)
  <2>1. /\ call[a] = "asked" /\ call' = [call EXCEPT ![a] = "running"]
        /\ prompt' = [prompt EXCEPT ![a] = trace.ids + 1]
        /\ trace' = TraceAgentPrompt(trace, a)
    BY <1>2, <1>6 DEF BeginCall, TraceToolCall
  <2>2. trace.ids + 1 \in Nat
    BY DEF Inv, Typed, Traces
  <2>3. /\ trace' \in Traces /\ IdsAreUnique(trace') /\ trace'.astray = trace.astray
        /\ trace.contexts \subseteq trace'.contexts
        /\ <<trace.ids + 1, a>> \in trace'.contexts
    BY <1>1, <2>1, PromptIsNew DEF Inv
  <2>4. /\ prompt' \in [Agents -> Nat] /\ prompt'[a] = trace.ids + 1
        /\ prompt'[Lead] = prompt[Lead]
        /\ \A b \in Analysts : b # a => prompt'[b] = prompt[b]
    BY <1>1, <2>1, <2>2 DEF Inv, Typed, Agents
  <2>5. Typed'
    BY <1>3, <2>1, <2>3, <2>4 DEF Inv, Typed, CallStates
  <2>6. /\ call'[a] = "running" /\ ~Speaking(a)
        /\ \A b \in Analysts : b # a => (Speaking(b)' <=> Speaking(b))
    BY <2>1 DEF Inv, Typed, Speaking
  <2>7. \A b \in Analysts : Busy(b)' <=> Busy(b)
    BY <1>3 DEF Busy
  <2>8. \A b \in Analysts : Busy(b)' => Speaking(b)'
    BY <2>6, <2>7 DEF Inv, Prompted
  <2>9. \A b \in Analysts : Speaking(b)' => <<prompt'[b], b>> \in trace'.contexts
    BY <2>3, <2>4, <2>6 DEF Inv, Prompted
  <2>10. Prompted'
    BY <1>1, <1>3, <2>3, <2>4, <2>8, <2>9 DEF Inv, Prompted, UnderWay
  <2> QED
    BY <2>3, <2>5, <2>10 DEF Inv, EventsFindTheirPrompt
<1> QED
  BY <1>4, <1>5, <1>6

\* What a step of an analyst's tools does to its counters: a turn is asked for when
\* nothing is pending, a program begins within the budget, another call only ends, or
\* a program ends and its outcome is recorded.
LEMMA ToolCounters ==
    ASSUME Typed, NEW a \in Analysts,
           AskTools(a) \/ ReadArtifact(a) \/ BeginProgram(a) \/ RefuseProgram(a) \/ EndProgram(a)
    PROVE  /\ program' \in [Analysts -> Programs]
           /\ \A b \in Analysts : b # a => program'[b] = program[b]
           /\ \/ /\ program[a].running = 0 /\ program'[a].running = 0
                 /\ program'[a].asked <= Width /\ UNCHANGED failed
              \/ /\ program'[a].running = program[a].running + 1 /\ failed[a] < FailedCallLimit
                 /\ program'[a].asked = program[a].asked - 1 /\ UNCHANGED failed
              \/ /\ program'[a].running = program[a].running
                 /\ program'[a].asked <= program[a].asked /\ UNCHANGED failed
              \/ /\ program[a].running > 0 /\ program'[a].running = program[a].running - 1
                 /\ program'[a].asked = program[a].asked
                 /\ \/ failed' = [failed EXCEPT ![a] = 0]
                    \/ failed' = [failed EXCEPT ![a] = @ + 1]
<1>1. program \in [Analysts -> Programs] /\ program[a] \in Programs
  BY DEF Typed
<1>2. CASE AskTools(a)
  <2>1. PICK reads, runs \in 0..Width :
          /\ reads + runs \in 1..Width
          /\ program' = [program EXCEPT ![a].made = @ + reads + runs,
                                        ![a].reads = reads, ![a].asked = runs]
    BY <1>2 DEF AskTools
  <2>2. reads \in Nat /\ runs \in Nat /\ runs <= Width
    BY ConstantsAssumption
  <2> DEFINE p1 == [program EXCEPT ![a].made = @ + reads + runs]
             p2 == [p1 EXCEPT ![a].reads = reads]
  <2>3. /\ p1 \in [Analysts -> Programs] /\ p1[a].running = program[a].running
        /\ \A b \in Analysts : b # a => p1[b] = program[b]
    BY <1>1, <2>2 DEF Programs
  <2>4. p2 = [p1 EXCEPT ![a].reads = reads]
    OBVIOUS
  <2>5. program' = [p2 EXCEPT ![a].asked = runs]
    BY <2>1
  <2> HIDE DEF p1
  <2>6. /\ p2 \in [Analysts -> Programs] /\ p2[a].running = program[a].running
        /\ \A b \in Analysts : b # a => p2[b] = program[b]
    BY <2>2, <2>3, <2>4 DEF Programs
  <2> HIDE DEF p2
  <2>7. /\ program' \in [Analysts -> Programs] /\ program'[a].running = program[a].running
        /\ program'[a].asked = runs
        /\ \A b \in Analysts : b # a => program'[b] = program[b]
    BY <2>2, <2>5, <2>6 DEF Programs
  <2>8. program[a].running = 0 /\ UNCHANGED failed
    BY <1>2 DEF AskTools, NothingPendingIn
  <2> QED
    BY <2>2, <2>7, <2>8
<1>3. CASE ReadArtifact(a)
  <2>1. /\ program' = [program EXCEPT ![a].reads = @ - 1] /\ program[a].reads > 0
        /\ UNCHANGED failed
    BY <1>3 DEF ReadArtifact
  <2>2. /\ program' \in [Analysts -> Programs] /\ program'[a].running = program[a].running
        /\ program'[a].asked = program[a].asked
        /\ \A b \in Analysts : b # a => program'[b] = program[b]
    BY <1>1, <2>1 DEF Programs
  <2> QED
    BY <1>1, <2>1, <2>2 DEF Programs
<1>4. CASE BeginProgram(a)
  <2>1. /\ program' = [program EXCEPT ![a].asked = @ - 1, ![a].running = @ + 1]
        /\ program[a].asked > 0 /\ UNCHANGED failed /\ failed[a] < FailedCallLimit
    BY <1>4 DEF BeginProgram, WithinBudget
  <2> DEFINE p1 == [program EXCEPT ![a].asked = @ - 1]
  <2>2. /\ p1 \in [Analysts -> Programs] /\ p1[a].running = program[a].running
        /\ p1[a].asked = program[a].asked - 1
        /\ \A b \in Analysts : b # a => p1[b] = program[b]
    BY <1>1, <2>1 DEF Programs
  <2>3. program' = [p1 EXCEPT ![a].running = @ + 1]
    BY <2>1
  <2> HIDE DEF p1
  <2>4. /\ program' \in [Analysts -> Programs]
        /\ program'[a].running = program[a].running + 1
        /\ program'[a].asked = program[a].asked - 1
        /\ \A b \in Analysts : b # a => program'[b] = program[b]
    BY <2>2, <2>3 DEF Programs
  <2> QED
    BY <2>1, <2>4
<1>5. CASE RefuseProgram(a)
  <2>1. /\ program' = [program EXCEPT ![a].asked = @ - 1] /\ program[a].asked > 0
        /\ UNCHANGED failed
    BY <1>5 DEF RefuseProgram
  <2>2. /\ program' \in [Analysts -> Programs] /\ program'[a].asked <= program[a].asked
        /\ program'[a].running = program[a].running
        /\ \A b \in Analysts : b # a => program'[b] = program[b]
    BY <1>1, <2>1 DEF Programs
  <2> QED
    BY <2>1, <2>2
<1>6. CASE EndProgram(a)
  <2>1. /\ program' = [program EXCEPT ![a].running = @ - 1] /\ program[a].running > 0
        /\ \/ failed' = [failed EXCEPT ![a] = 0]
           \/ failed' = [failed EXCEPT ![a] = @ + 1]
    BY <1>6 DEF EndProgram
  <2>2. /\ program' \in [Analysts -> Programs] /\ program'[a].asked = program[a].asked
        /\ program'[a].running = program[a].running - 1
        /\ \A b \in Analysts : b # a => program'[b] = program[b]
    BY <1>1, <2>1 DEF Programs
  <2> QED
    BY <2>1, <2>2
<1> QED
  BY <1>2, <1>3, <1>4, <1>5, <1>6

\* The tools of an analyst, also those that outlive it.
LEMMA ToolStepsPrompted ==
    ASSUME Inv, NEW a \in Analysts,
           AskTools(a) \/ ReadArtifact(a) \/ BeginProgram(a) \/ RefuseProgram(a) \/ EndProgram(a)
    PROVE  Inv'
<1>1. UNCHANGED <<at, call, prompt>> /\ failed' \in [Analysts -> Nat]
  <2>1. UNCHANGED <<at, call, prompt>>
    BY DEF AskTools, ReadArtifact, BeginProgram, RefuseProgram, EndProgram
  <2>2. \/ UNCHANGED failed \/ failed' = [failed EXCEPT ![a] = 0]
        \/ failed' = [failed EXCEPT ![a] = @ + 1]
    BY ToolCounters DEF Inv
  <2>3. failed' \in [Analysts -> Nat]
    BY <2>2 DEF Inv, Typed
  <2> QED
    BY <2>1, <2>3
<1>2. Speaking(a) /\ at \notin {"between", "round", "connecting"}
  BY DEF AskTools, ReadArtifact, BeginProgram, RefuseProgram, EndProgram, Speaking,
         Inv, Prompted, Busy
<1>3. Filed(trace, a) = trace
  BY <1>2, EventIsFiled DEF Inv, Prompted, Agents
<1>4. UNCHANGED trace
  BY <1>3 DEF AskTools, ReadArtifact, BeginProgram, RefuseProgram, EndProgram,
              TraceToolCall, TraceToolResult
<1>6. program' \in [Analysts -> Programs] /\ \A b \in Analysts : b # a => program'[b] = program[b]
  BY ToolCounters DEF Inv
<1>7. \A b \in Analysts : Speaking(b)' <=> Speaking(b)
  BY <1>1 DEF Speaking
<1>8. \A b \in Analysts : b # a => (Busy(b)' <=> Busy(b))
  BY <1>6 DEF Busy
<1>9. \A b \in Analysts : Busy(b)' => Speaking(b)'
  BY <1>2, <1>7, <1>8 DEF Inv, Prompted
<1> QED
  BY <1>1, <1>2, <1>4, <1>6, <1>7, <1>9, QuietAnalystStep DEF Inv, Typed

\* Every step of the conductor, and of stuttering, keeps the invariant.
LEMMA StepInv == ASSUME Inv, [Next]_vars PROVE Inv'
<1>1. CASE UNCHANGED vars
  BY <1>1 DEF vars, Inv, Typed, IdsAreUnique, Prompted, UnderWay, Busy, Speaking,
              EventsFindTheirPrompt
<1>2. CASE Next
  BY <1>2, RoundStepsPrompted, LeadStepsPrompted, CallStepsPrompted, ToolStepsPrompted DEF Next
<1> QED
  BY <1>1, <1>2

\* No event of an agent is ever filed under the prompt of another, or under none:
\* an analyst has a prompt of this attempt for as long as it, or a program that
\* outlives it, may still file one.
THEOREM EventsTheorem == Spec => []EventsFindTheirPrompt
<1>1. Inv => EventsFindTheirPrompt
  BY DEF Inv
<1> QED
  BY InitInv, StepInv, <1>1, PTL DEF Spec

\* The variables the prompts and budgets live in have their types.
THEOREM TypesTheorem == Spec => []Typed
<1>1. Inv => Typed
  BY DEF Inv
<1> QED
  BY InitInv, StepInv, <1>1, PTL DEF Spec

-----------------------------------------------------------------------------
(* The budget of failed programs.                                          *)

\* Programs that may still fail are those of one turn, and a program begins only
\* below the limit: when those that run have all failed, the bound is reached at most.
Budgeted ==
    \A a \in Analysts :
        /\ program[a].asked + program[a].running <= Width
        /\ program[a].running > 0 =>
              failed[a] + program[a].running <= FailedCallLimit + Width - 1
        /\ failed[a] <= FailedCallLimit + Width - 1

LEMMA InitBudgeted == Init => Budgeted
BY ConstantsAssumption DEF Init, Budgeted, NoPrograms

LEMMA StepBudgeted == ASSUME Typed, Budgeted, [Next]_vars PROVE Budgeted'
<1>1. /\ program \in [Analysts -> Programs] /\ failed \in [Analysts -> Nat]
      /\ Width \in Nat \ {0} /\ FailedCallLimit \in Nat \ {0}
  BY ConstantsAssumption DEF Typed
<1>2. CASE UNCHANGED <<program, failed>>
  BY <1>2 DEF Budgeted
<1>3. CASE Timeout
  <2>1. /\ program' = [a \in Analysts |-> [program[a] EXCEPT !.reads = 0, !.asked = 0]]
        /\ UNCHANGED failed
    BY <1>3 DEF Timeout
  <2>2. ASSUME NEW a \in Analysts
        PROVE  program'[a].asked = 0 /\ program'[a].running = program[a].running
    BY <1>1, <2>1 DEF Programs
  <2>3. ASSUME NEW a \in Analysts
        PROVE  program[a].asked \in Nat /\ program[a].running \in Nat
    BY <1>1 DEF Programs
  <2>4. ASSUME NEW a \in Analysts
        PROVE  /\ program'[a].asked + program'[a].running <= Width
               /\ program'[a].running > 0 =>
                     failed[a] + program'[a].running <= FailedCallLimit + Width - 1
    <3>1. /\ program[a].asked + program[a].running <= Width
          /\ program[a].running > 0 =>
                failed[a] + program[a].running <= FailedCallLimit + Width - 1
      BY DEF Budgeted
    <3> QED
      BY <1>1, <2>2, <2>3, <3>1
  <2> QED
    BY <2>1, <2>4 DEF Budgeted
<1>4. CASE Close
  BY <1>1, <1>4 DEF Close, NoPrograms, Budgeted
<1>5. ASSUME NEW a \in Analysts,
             AskTools(a) \/ ReadArtifact(a) \/ BeginProgram(a) \/ RefuseProgram(a) \/ EndProgram(a)
      PROVE  Budgeted'
  <2>1. ASSUME NEW b \in Analysts
        PROVE  /\ program[b].asked \in Nat /\ program[b].running \in Nat
               /\ failed[b] \in Nat
    BY <1>1 DEF Programs
  <2>2. /\ program' \in [Analysts -> Programs]
        /\ program'[a].asked \in Nat /\ program'[a].running \in Nat
    BY <1>5, ToolCounters DEF Programs
  <2>3. \A b \in Analysts : b # a => program'[b] = program[b] /\ failed'[b] = failed[b]
    BY <1>1, <1>5, ToolCounters
  <2>4. /\ program'[a].asked + program'[a].running <= Width
        /\ program'[a].running > 0 =>
              failed'[a] + program'[a].running <= FailedCallLimit + Width - 1
        /\ failed'[a] <= FailedCallLimit + Width - 1
    <3>1. /\ program[a].asked + program[a].running <= Width
          /\ program[a].running > 0 =>
                failed[a] + program[a].running <= FailedCallLimit + Width - 1
          /\ failed[a] <= FailedCallLimit + Width - 1
      BY DEF Budgeted
    <3>2. failed'[a] = failed[a] \/ failed'[a] = 0 \/ failed'[a] = failed[a] + 1
      BY <1>1, <1>5, ToolCounters
    <3>3. CASE UNCHANGED failed
      <4>1. \/ program'[a].running = 0 /\ program'[a].asked <= Width
            \/ /\ program'[a].running = program[a].running + 1 /\ failed[a] < FailedCallLimit
               /\ program'[a].asked = program[a].asked - 1
            \/ /\ program'[a].running = program[a].running
               /\ program'[a].asked <= program[a].asked
            \/ /\ program'[a].running = program[a].running - 1
               /\ program'[a].asked = program[a].asked
        BY <1>5, ToolCounters
      <4> QED
        BY <1>1, <2>1, <2>2, <3>1, <3>3, <4>1
    <3>4. CASE failed' # failed
      <4>1. /\ program[a].running > 0 /\ program'[a].running = program[a].running - 1
            /\ program'[a].asked = program[a].asked
        BY <1>5, <3>4, ToolCounters
      <4> QED
        BY <1>1, <2>1, <2>2, <3>1, <3>2, <4>1
    <3> QED
      BY <3>3, <3>4
  <2> QED
    BY <2>3, <2>4 DEF Budgeted
<1> QED
  BY <1>2, <1>3, <1>4, <1>5
  DEF Next, vars, agents, BeginRound, StartAttempt, EndRound, Connect, AskAnalysts, Answer,
      ConductorFails, RefuseCall, RaiseInCall, BeginCall, AnalystEnds

\* However the programs of parallel calls interleave, an analyst sees no more
\* failures in a row than the limit and one turn's calls, less one, allow.
THEOREM FailuresTheorem == Spec => []FailedProgramsAreBounded
<1>1. Inv /\ Budgeted /\ [Next]_vars => Inv' /\ Budgeted'
  BY StepInv, StepBudgeted DEF Inv
<1>2. Budgeted => FailedProgramsAreBounded
  BY DEF Budgeted, FailedProgramsAreBounded
<1> QED
  BY InitInv, InitBudgeted, <1>1, <1>2, PTL DEF Spec

-----------------------------------------------------------------------------
(* The screening.                                                          *)

\* The two worlds differ in held out trades alone; there are none before the
\* table is built, and no trade is entered after.
OutcomesAgree ==
    /\ DOMAIN world = Worlds
    /\ PeriodOver => ~forming
    /\ \/ world["this"].losses = {} /\ world["other"].losses = {}
       \/ PeriodOver /\ world["other"].losses = world["this"].losses \ HeldOut

\* All that a world holds beside its losses and the scores of its models.
Agree(a, b) ==
    /\ a.factors = b.factors
    /\ a.pending = b.pending
    /\ a.screened = b.screened
    /\ a.verdicts = b.verdicts

\* Worlds with the same verdicts hold the same, and only from there they go on.
WorldsAgree == SettledAlike => Agree(world["this"], world["other"])

\* The fields of a world, each of which a step may set.
Fields == {"losses", "factors", "pending", "score", "skills", "verdicts", "screened", "raised"}
IsSequence(s) == \E S : s \in Seq(S)
WorldsAreRecords ==
    \A w \in Worlds : DOMAIN world[w] = Fields /\ IsSequence(world[w].verdicts)

Unseen == OutcomesAgree /\ WorldsAgree /\ WorldsAreRecords

\* All that is measured of the losses is which training rows are among them.
LEMMA SameMeasure ==
    ASSUME NEW rule, NEW a, NEW b, a \cap Training = b \cap Training
    PROVE  Measured(rule, a) = Measured(rule, b)
<1>1. Flagged(rule, Training) \subseteq Training
  BY DEF Flagged
<1> DEFINE flags == IF IsBad(rule) THEN {} ELSE Flagged(rule, Training)
<1>2. flags \subseteq Training
  BY <1>1
<1> HIDE DEF flags
<1>3. a \cap flags = b \cap flags
  BY <1>2
<1> QED
  BY <1>3 DEF Measured, flags

LEMMA SameScreen ==
    ASSUME NEW rule, NEW fs, NEW a, NEW b, a \cap Training = b \cap Training
    PROVE  FullScreen(rule, fs, a) = FullScreen(rule, fs, b)
  BY SameMeasure DEF FullScreen

LEMMA SamePair ==
    ASSUME NEW rule, NEW competitor, NEW fs, NEW a, NEW b, a \cap Training = b \cap Training
    PROVE  ScreenPair(rule, competitor, fs, a) = ScreenPair(rule, competitor, fs, b)
<1>1. FullScreen(rule, fs, a) = FullScreen(rule, fs, b)
  BY SameScreen
<1>2. FullScreen(competitor, fs, a) = FullScreen(competitor, fs, b)
  BY SameScreen
<1> QED
  BY <1>1, <1>2 DEF ScreenPair

LEMMA SamePrediction ==
    ASSUME NEW fs, NEW t, NEW a, NEW b, a \cap Training = b \cap Training
    PROVE  PredictsLoss(fs, t, a) = PredictsLoss(fs, t, b)
<1>1. Training \cap a = Training \cap b /\ Training \ a = Training \ b
  OBVIOUS
<1> QED
  BY <1>1 DEF PredictsLoss

LEMMA SameResiduals ==
    ASSUME NEW fs, NEW a, NEW b, a \cap Training = b \cap Training
    PROVE  Residuals(fs, a) = Residuals(fs, b)
<1>1. \A t \in Training : PredictsLoss(fs, t, a) = PredictsLoss(fs, t, b)
  BY SamePrediction
<1>2. \A t \in Training : (t \in a) = (t \in b)
  OBVIOUS
<1> QED
  BY <1>1, <1>2 DEF Residuals

\* The worlds agree on the training rows.
LEMMA SameTraining ==
    ASSUME OutcomesAgree
    PROVE  world["this"].losses \cap Training = world["other"].losses \cap Training
  BY DEF OutcomesAgree, Training

LEMMA InitUnseen == ScreeningInit => Unseen
<1>1. SUFFICES ASSUME ScreeningInit PROVE Unseen
  OBVIOUS
<1>2. DOMAIN world = Worlds /\ world["this"] = World /\ world["other"] = World
  BY <1>1 DEF ScreeningInit, Worlds
<1>3. /\ World.losses = {} /\ World.verdicts = <<>>
      /\ DOMAIN World = Fields
  BY DEF World, Fields
<1>4. IsSequence(<<>>)
  <2>1. <<>> \in Seq({})
    OBVIOUS
  <2> QED
    BY <2>1 DEF IsSequence
<1>5. PeriodOver => ~forming
  BY <1>1 DEF ScreeningInit, MarketInit
<1> QED
  BY <1>2, <1>3, <1>4, <1>5
  DEF Unseen, OutcomesAgree, WorldsAgree, WorldsAreRecords, Agree, Worlds

\* Once the period is over no trade is entered; before that no table is complete.
LEMMA MarketKeepsTrades ==
    ASSUME OutcomesAgree, Market, PeriodOver \/ Tabled'
    PROVE  trades' = trades /\ HeldOut' = HeldOut
<1>1. trades' = trades
  <2>1. CASE CloseBar \/ Enter
    <3>1. forming /\ days' = days
      BY <2>1 DEF CloseBar, Enter
    <3> QED
      BY <3>1 DEF OutcomesAgree, Tabled, PeriodOver
  <2>2. CASE OpenBar \/ EndDay \/ BuildTable
    BY <2>2 DEF OpenBar, EndDay, BuildTable
  <2> QED
    BY <2>1, <2>2 DEF Market
<1> QED
  BY <1>1 DEF HeldOut

LEMMA MarketEndsFormed ==
    ASSUME OutcomesAgree, Market
    PROVE  (PeriodOver => ~forming)'
<1>1. CASE OpenBar
  BY <1>1 DEF OpenBar, PeriodOver
<1>2. CASE CloseBar
  BY <1>2 DEF CloseBar
<1>3. CASE Enter
  BY <1>3 DEF Enter, OutcomesAgree, PeriodOver
<1>4. CASE EndDay
  BY <1>4 DEF EndDay
<1>5. CASE BuildTable
  BY <1>5 DEF BuildTable, OutcomesAgree, PeriodOver
<1> QED
  BY <1>1, <1>2, <1>3, <1>4, <1>5 DEF Market

LEMMA BacktestUnseen == ASSUME Unseen, Backtest PROVE Unseen'
<1>1. OutcomesAgree /\ WorldsAgree /\ WorldsAreRecords
  BY DEF Unseen
<1>2. Market
  BY DEF Backtest
<1>3. PeriodOver => PeriodOver'
  <2>1. PeriodOver => days' = days
    BY <1>2 DEF Market, OpenBar, CloseBar, Enter, EndDay, BuildTable
  <2> QED
    BY <2>1 DEF PeriodOver
<1>4. CASE Tabled'
  <2>1. PICK losses \in SUBSET trades :
          world' = [w \in Worlds |->
              [world[w] EXCEPT !.losses = IF w = "this" THEN losses ELSE losses \ HeldOut]]
    BY <1>4 DEF Backtest
  <2>2. world'["this"] = [world["this"] EXCEPT !.losses = losses]
        /\ world'["other"] = [world["other"] EXCEPT !.losses = losses \ HeldOut]
    BY <2>1 DEF Worlds
  <2>3. /\ DOMAIN world["this"] = Fields /\ DOMAIN world["other"] = Fields
        /\ {"losses", "factors", "pending", "screened", "verdicts"} \subseteq Fields
    BY <1>1 DEF WorldsAreRecords, Worlds, Fields
  <2>4. HeldOut' = HeldOut /\ PeriodOver'
    BY <1>1, <1>2, <1>4, MarketKeepsTrades DEF Tabled
  <2>5. world'["this"].losses = losses /\ world'["other"].losses = losses \ HeldOut
    BY <2>2, <2>3
  <2>6. OutcomesAgree'
    BY <1>1, <1>2, <2>1, <2>4, <2>5, MarketEndsFormed DEF OutcomesAgree
  <2>7. \A f \in Fields \ {"losses"} :
            world'["this"][f] = world["this"][f] /\ world'["other"][f] = world["other"][f]
    BY <2>2, <2>3
  <2>8. WorldsAgree'
    BY <1>1, <2>7 DEF WorldsAgree, SettledAlike, Agree, Fields
  <2>9. WorldsAreRecords'
    BY <1>1, <2>2, <2>3 DEF WorldsAreRecords, Worlds
  <2> QED
    BY <2>6, <2>8, <2>9 DEF Unseen
<1>5. CASE ~Tabled'
  <2>1. world' = world
    BY <1>5 DEF Backtest
  <2>2. CASE PeriodOver
    <3>1. HeldOut' = HeldOut
      BY <1>1, <1>2, <2>2, MarketKeepsTrades
    <3> QED
      BY <1>1, <1>2, <1>3, <2>1, <3>1, MarketEndsFormed
      DEF Unseen, OutcomesAgree, WorldsAgree, WorldsAreRecords, SettledAlike, Agree
  <2>3. CASE ~PeriodOver
    BY <1>1, <1>2, <2>1, <2>3, MarketEndsFormed
    DEF Unseen, OutcomesAgree, WorldsAgree, WorldsAreRecords, SettledAlike, Agree
  <2> QED
    BY <2>2, <2>3
<1> QED
  BY <1>4, <1>5

\* A step that leaves the market and the losses of the worlds alone.
LEMMA LossesStay ==
    ASSUME Unseen, UNCHANGED market, DOMAIN world' = Worlds,
           \A w \in Worlds : world'[w].losses = world[w].losses
    PROVE  OutcomesAgree'
  BY DEF Unseen, OutcomesAgree, market, PeriodOver, HeldOut, Worlds

\* Screenings of the same rule against the same model, in worlds that agree on the
\* training rows, differ in the score of the model at most.
LEMMA SameScreening ==
    ASSUME NEW a, NEW b, Agree(a, b), a.losses \cap Training = b.losses \cap Training,
           DOMAIN a = Fields, DOMAIN b = Fields,
           NEW rule, NEW competitor, NEW compiled
    PROVE  Agree(Screened(a, rule, competitor, compiled), Screened(b, rule, competitor, compiled))
<1> DEFINE pair == ScreenPair(rule, competitor, a.factors, a.losses)
           factor == [rule |-> rule,
                      direction |-> IF Excess(pair[1]) >= 0 THEN "loss" ELSE "win",
                      status |-> "candidate", lesson |-> None]
           extended == Append(a.factors, factor)
           passes == pair[1].verdict = "pass"
           scored == passes /\ HeldOut # {}
           score(s) == Skill(extended, s.losses)
           step(s) == [s EXCEPT !.screened = pair, !.raised = passes /\ ~scored,
                          !.pending = IF scored /\ compiled THEN factor ELSE None,
                          !.score = IF scored /\ compiled THEN score(s) ELSE None,
                          !.factors = IF scored /\ ~compiled THEN extended ELSE @,
                          !.skills = IF scored /\ ~compiled THEN Append(@, score(s)) ELSE @]
<1>1. ScreenPair(rule, competitor, b.factors, b.losses) = pair /\ b.factors = a.factors
  BY SamePair DEF Agree
<1>2. Screened(a, rule, competitor, compiled) = step(a)
  BY DEF Screened
<1>3. Screened(b, rule, competitor, compiled) = step(b)
  BY <1>1 DEF Screened
<1> HIDE DEF pair, factor, extended, passes, scored, score
<1>4. Agree(step(a), step(b))
  BY DEF Agree, Fields
<1> QED
  BY <1>2, <1>3, <1>4

\* A screening decides nothing of what is on record, nor how a trade ended.
LEMMA ScreenedKeeps ==
    ASSUME NEW s, DOMAIN s = Fields, NEW rule, NEW competitor, NEW compiled
    PROVE  LET t == Screened(s, rule, competitor, compiled)
           IN  DOMAIN t = Fields /\ t.losses = s.losses /\ t.verdicts = s.verdicts
<1>1. ASSUME NEW screened, NEW raised, NEW pending, NEW score, NEW factors, NEW skills
      PROVE  LET t == [s EXCEPT !.screened = screened, !.raised = raised, !.pending = pending,
                                !.score = score, !.factors = factors, !.skills = skills]
             IN  DOMAIN t = Fields /\ t.losses = s.losses /\ t.verdicts = s.verdicts
  BY DEF Fields
<1> QED
  BY <1>1 DEF Screened

LEMMA ScreenUnseen == ASSUME Unseen, Screen PROVE Unseen'
<1>1. PICK rule \in Rules, competitor \in Rules \cup {None}, compiled \in BOOLEAN :
        world' = [w \in Worlds |-> Screened(world[w], rule, competitor, compiled)]
  BY DEF Screen
<1>2. \A w \in Worlds : /\ DOMAIN world[w] = Fields /\ IsSequence(world[w].verdicts)
                        /\ world'[w] = Screened(world[w], rule, competitor, compiled)
  BY <1>1 DEF Unseen, WorldsAreRecords
<1>3. \A w \in Worlds : /\ DOMAIN world'[w] = Fields /\ world'[w].losses = world[w].losses
                        /\ world'[w].verdicts = world[w].verdicts
  BY <1>2, ScreenedKeeps
<1>4. OutcomesAgree'
  BY <1>1, <1>3, LossesStay DEF Screen
<1>5. world["this"].losses \cap Training = world["other"].losses \cap Training
  BY SameTraining DEF Unseen
<1>6. Agree(world["this"], world["other"])
  BY DEF Screen, Unseen, WorldsAgree
<1>7. Agree(world'["this"], world'["other"])
  BY <1>2, <1>5, <1>6, SameScreening DEF Worlds
<1> QED
  BY <1>2, <1>3, <1>4, <1>7 DEF Unseen, WorldsAgree, WorldsAreRecords

\* What is put on record last can be read there.
LEMMA LastOnRecord ==
    ASSUME NEW s, IsSequence(s), NEW a, NEW b
    PROVE  /\ IsSequence(Append(s, a))
           /\ Append(s, a) = Append(s, b) => a = b
<1>1. PICK S : s \in Seq(S)
  BY DEF IsSequence
<1> DEFINE T == S \cup {a, b}
<1>2. s \in Seq(T)
  BY <1>1
<1> HIDE DEF T
<1>3. a \in T /\ b \in T
  BY DEF T
<1>4. Append(s, a) \in Seq(T) /\ Len(s) \in Nat
  BY <1>2, <1>3
<1>5. Append(s, a)[Len(s) + 1] = a /\ Append(s, b)[Len(s) + 1] = b
  BY <1>2, <1>3
<1> QED
  BY <1>4, <1>5 DEF IsSequence

\* Harvests of worlds that agree: they still do if they came to the same verdict.
LEMMA SameHarvest ==
    ASSUME NEW a, NEW b, Agree(a, b), DOMAIN a = Fields, DOMAIN b = Fields,
           IsSequence(a.verdicts), NEW v, NEW u,
           Harvested(a, v).verdicts = Harvested(b, u).verdicts
    PROVE  Agree(Harvested(a, v), Harvested(b, u))
<1> DEFINE on(s, x) == [rule |-> s.pending.rule, status |-> x.status, lesson |-> x.lesson]
           status(x) == IF x.status = "supported" THEN "harvested" ELSE "refuted"
           factor(s, x) == [s.pending EXCEPT !.status = status(x), !.lesson = x.lesson]
<1>1. /\ Harvested(a, v).verdicts = Append(a.verdicts, on(a, v))
      /\ Harvested(b, u).verdicts = Append(b.verdicts, on(b, u))
  BY DEF Harvested, Recorded, Fields
<1>2. a.factors = b.factors /\ a.pending = b.pending /\ a.verdicts = b.verdicts
  BY DEF Agree
<1>3. on(a, v) = on(b, u)
  <2> HIDE DEF on
  <2> QED
    BY <1>1, <1>2, LastOnRecord
<1>4. v.status = u.status /\ v.lesson = u.lesson
  BY <1>3
<1>5. factor(a, v) = factor(b, u) /\ on(a, v) = on(a, v)
  BY <1>2, <1>4
<1>6. Harvested(a, v) =
        IF v.status = "inconclusive" THEN Recorded(a, a.pending.rule, v)
        ELSE [Recorded(a, a.pending.rule, v) EXCEPT
                 !.pending = None, !.score = None,
                 !.factors = Merged(@, factor(a, v)), !.skills = Append(@, a.score)]
  BY DEF Harvested
<1>7. Harvested(b, u) =
        IF u.status = "inconclusive" THEN Recorded(b, b.pending.rule, u)
        ELSE [Recorded(b, b.pending.rule, u) EXCEPT
                 !.pending = None, !.score = None,
                 !.factors = Merged(@, factor(b, u)), !.skills = Append(@, b.score)]
  BY DEF Harvested
<1> HIDE DEF factor, on
<1>8. Agree(Recorded(a, a.pending.rule, v), Recorded(b, b.pending.rule, u))
  BY <1>2, <1>4 DEF Recorded, Agree, Fields
<1>9. /\ DOMAIN Recorded(a, a.pending.rule, v) = Fields
      /\ DOMAIN Recorded(b, b.pending.rule, u) = Fields
  BY DEF Recorded
<1> QED
  BY <1>4, <1>5, <1>6, <1>7, <1>8, <1>9 DEF Agree, Fields

\* The same of walkforwards of one rule.
LEMMA SameWalk ==
    ASSUME NEW a, NEW b, Agree(a, b), DOMAIN a = Fields, DOMAIN b = Fields,
           IsSequence(a.verdicts), NEW rule, NEW v, NEW u,
           Walked(a, rule, v).verdicts = Walked(b, rule, u).verdicts
    PROVE  Agree(Walked(a, rule, v), Walked(b, rule, u))
<1> DEFINE on(x) == [rule |-> rule, status |-> x.status, lesson |-> x.lesson]
           demoted(f, x) == [f EXCEPT !.status = "demoted", !.lesson = x.lesson]
           walked(fs, x) ==
               [i \in DOMAIN fs |-> IF fs[i].rule = rule THEN demoted(fs[i], x) ELSE fs[i]]
<1>1. /\ Walked(a, rule, v).verdicts = Append(a.verdicts, on(v))
      /\ Walked(b, rule, u).verdicts = Append(b.verdicts, on(u))
  BY DEF Walked, Recorded, Fields
<1>2. a.factors = b.factors /\ a.verdicts = b.verdicts
  BY DEF Agree
<1>3. on(v) = on(u)
  <2> HIDE DEF on
  <2> QED
    BY <1>1, <1>2, LastOnRecord
<1>4. v.status = u.status /\ v.lesson = u.lesson
  BY <1>3
<1>5. walked(a.factors, v) = walked(b.factors, u)
  BY <1>2, <1>4
<1>6. Walked(a, rule, v) =
        IF v.status # "demoted" THEN Recorded(a, rule, v)
        ELSE [Recorded(a, rule, v) EXCEPT !.factors = walked(@, v)]
  BY DEF Walked
<1>7. Walked(b, rule, u) =
        IF u.status # "demoted" THEN Recorded(b, rule, u)
        ELSE [Recorded(b, rule, u) EXCEPT !.factors = walked(@, u)]
  BY DEF Walked
<1> HIDE DEF walked, on
<1>8. Agree(Recorded(a, rule, v), Recorded(b, rule, u))
  BY <1>2, <1>4 DEF Recorded, Agree, Fields
<1>9. /\ DOMAIN Recorded(a, rule, v) = Fields /\ Recorded(a, rule, v).factors = a.factors
      /\ DOMAIN Recorded(b, rule, u) = Fields /\ Recorded(b, rule, u).factors = b.factors
  BY DEF Recorded, Fields
<1> QED
  BY <1>4, <1>5, <1>6, <1>7, <1>8, <1>9 DEF Agree, Fields

\* A harvest adds to the record, and changes no trade's end.
LEMMA HarvestedKeeps ==
    ASSUME NEW s, DOMAIN s = Fields, IsSequence(s.verdicts), NEW v
    PROVE  LET t == Harvested(s, v)
           IN  DOMAIN t = Fields /\ t.losses = s.losses /\ IsSequence(t.verdicts)
<1> DEFINE on == [rule |-> s.pending.rule, status |-> v.status, lesson |-> v.lesson]
           r == Recorded(s, s.pending.rule, v)
<1>1. DOMAIN r = Fields /\ r.losses = s.losses /\ r.verdicts = Append(s.verdicts, on)
  BY DEF Recorded, Fields
<1>2. IsSequence(r.verdicts)
  <2> HIDE DEF on, r
  <2> QED
    BY <1>1, LastOnRecord
<1>3. PICK factor : Harvested(s, v) =
        IF v.status = "inconclusive" THEN r
        ELSE [r EXCEPT !.pending = None, !.score = None,
                       !.factors = Merged(@, factor), !.skills = Append(@, s.score)]
  BY DEF Harvested
<1> HIDE DEF r
<1> QED
  BY <1>1, <1>2, <1>3 DEF Fields

LEMMA WalkedKeeps ==
    ASSUME NEW s, DOMAIN s = Fields, IsSequence(s.verdicts), NEW rule, NEW v
    PROVE  LET t == Walked(s, rule, v)
           IN  DOMAIN t = Fields /\ t.losses = s.losses /\ IsSequence(t.verdicts)
<1> DEFINE on == [rule |-> rule, status |-> v.status, lesson |-> v.lesson]
           r == Recorded(s, rule, v)
<1>1. DOMAIN r = Fields /\ r.losses = s.losses /\ r.verdicts = Append(s.verdicts, on)
  BY DEF Recorded, Fields
<1>2. IsSequence(r.verdicts)
  <2> HIDE DEF on, r
  <2> QED
    BY <1>1, LastOnRecord
<1>3. \/ Walked(s, rule, v) = r
      \/ \E fs : Walked(s, rule, v) = [r EXCEPT !.factors = fs]
  BY DEF Walked
<1> HIDE DEF r
<1> QED
  BY <1>1, <1>2, <1>3 DEF Fields

LEMMA HarvestUnseen == ASSUME Unseen, Harvest PROVE Unseen'
<1>1. PICK v \in [Worlds -> [status : {"supported", "refuted", "inconclusive"}, lesson : Lessons]] :
        world' = [w \in Worlds |-> Harvested(world[w], v[w])]
  BY DEF Harvest
<1>2. \A w \in Worlds : /\ DOMAIN world[w] = Fields /\ IsSequence(world[w].verdicts)
                        /\ world'[w] = Harvested(world[w], v[w])
  BY <1>1 DEF Unseen, WorldsAreRecords
<1>3. \A w \in Worlds : /\ DOMAIN world'[w] = Fields /\ world'[w].losses = world[w].losses
                        /\ IsSequence(world'[w].verdicts)
  BY <1>2, HarvestedKeeps
<1>4. OutcomesAgree'
  BY <1>1, <1>3, LossesStay DEF Harvest
<1>5. WorldsAreRecords'
  BY <1>3 DEF WorldsAreRecords
<1>6. Agree(world["this"], world["other"])
  BY DEF Harvest, Unseen, WorldsAgree
<1>7. ASSUME SettledAlike' PROVE Agree(world'["this"], world'["other"])
  BY <1>2, <1>6, <1>7, SameHarvest DEF Worlds, SettledAlike
<1> QED
  BY <1>4, <1>5, <1>7 DEF Unseen, WorldsAgree, Agree

LEMMA WalkforwardUnseen == ASSUME Unseen, Walkforward PROVE Unseen'
<1>1. PICK i \in DOMAIN world["this"].factors,
           v \in [Worlds -> [status : {"graduated", "demoted"}, lesson : Lessons]] :
        world' = [w \in Worlds |-> Walked(world[w], world["this"].factors[i].rule, v[w])]
  BY DEF Walkforward
<1> DEFINE rule == world["this"].factors[i].rule
<1>2. \A w \in Worlds : /\ DOMAIN world[w] = Fields /\ IsSequence(world[w].verdicts)
                        /\ world'[w] = Walked(world[w], rule, v[w])
  BY <1>1 DEF Unseen, WorldsAreRecords
<1> HIDE DEF rule
<1>3. \A w \in Worlds : /\ DOMAIN world'[w] = Fields /\ world'[w].losses = world[w].losses
                        /\ IsSequence(world'[w].verdicts)
  BY <1>2, WalkedKeeps
<1>4. OutcomesAgree'
  BY <1>1, <1>3, LossesStay DEF Walkforward
<1>5. WorldsAreRecords'
  BY <1>3 DEF WorldsAreRecords
<1>6. Agree(world["this"], world["other"])
  BY DEF Walkforward, Unseen, WorldsAgree
<1>7. ASSUME SettledAlike' PROVE Agree(world'["this"], world'["other"])
  BY <1>2, <1>6, <1>7, SameWalk DEF Worlds, SettledAlike
<1> QED
  BY <1>4, <1>5, <1>7 DEF Unseen, WorldsAgree, Agree

LEMMA NextUnseen == Unseen /\ [ScreeningNext]_screeningVars => Unseen'
<1>1. SUFFICES ASSUME Unseen, [ScreeningNext]_screeningVars PROVE Unseen'
  OBVIOUS
<1>2. CASE UNCHANGED screeningVars
  <2>1. UNCHANGED <<days, forming, trades, world>>
    BY <1>2 DEF screeningVars, market
  <2> QED
    BY <1>1, <2>1
    DEF Unseen, OutcomesAgree, WorldsAgree, WorldsAreRecords, SettledAlike, Agree,
        PeriodOver, HeldOut
<1> QED
  BY <1>1, <1>2, BacktestUnseen, ScreenUnseen, HarvestUnseen, WalkforwardUnseen
  DEF ScreeningNext

\* What a session reads is the same in the two worlds as long as the verdicts are, and
\* the residuals as long as the active factors are, whatever the rules, the thresholds
\* and the data.
THEOREM HoldoutTheorem == ScreeningSpec => []HoldoutStaysUnseen
<1>1. Unseen => HoldoutStaysUnseen
  <2> SUFFICES ASSUME Unseen PROVE HoldoutStaysUnseen
    OBVIOUS
  <2> DEFINE this == world["this"]
             other == world["other"]
  <2>1. this.losses \cap Training = other.losses \cap Training
    BY SameTraining DEF Unseen
  <2>2. ASSUME ActiveOf(this.factors) = ActiveOf(other.factors)
        PROVE  ResidualSummary(this) = ResidualSummary(other)
    <3>1. Residuals(ActiveOf(this.factors), this.losses)
            = Residuals(ActiveOf(other.factors), other.losses)
      BY <2>1, <2>2, SameResiduals
    <3> QED
      BY <3>1 DEF ResidualSummary
  <2>3. ASSUME this.verdicts = other.verdicts
        PROVE  Corpus(this) = Corpus(other)
    <3>1. Agree(this, other)
      BY <2>3 DEF Unseen, WorldsAgree, SettledAlike
    <3>2. ResidualSummary(this) = ResidualSummary(other)
      BY <2>2, <3>1 DEF Agree
    <3>3. RejectionFeedback(this) = RejectionFeedback(other)
      BY <3>1 DEF Agree, RejectionFeedback
    <3> QED
      BY <3>1, <3>2, <3>3 DEF Corpus, Agree
  <2> QED
    BY <2>2, <2>3 DEF HoldoutStaysUnseen
<1> QED
  BY <1>1, InitUnseen, NextUnseen, PTL DEF ScreeningSpec

-----------------------------------------------------------------------------
(* The feature table.                                                      *)

\* The greatest of some days before another is one of them.
LEMMA GreatestDay ==
    ASSUME NEW S \in SUBSET Nat, NEW n \in Nat, S # {}, \A d \in S : d < n
    PROVE  Max(S) \in S
<1> DEFINE Ahead == {m \in Nat : \A d \in S : d < m}
<1>1. Ahead # {} /\ Ahead \subseteq Nat
  OBVIOUS
<1>2. PICK m \in Ahead : \A k \in Nat : k < m => k \notin Ahead
  <2>1. PICK m \in Ahead : \A k \in Ahead : ~(<<k, m>> \in OpToRel(<, Nat))
    BY <1>1, NatLessThanWellFounded, WFMin
  <2> QED
    BY <2>1 DEF OpToRel
<1>3. m \in Nat /\ \A d \in S : d < m
  BY DEF Ahead
<1>4. m - 1 \in Nat /\ m - 1 \notin Ahead
  <2>1. m # 0
    <3>1. PICK d \in S : TRUE
      OBVIOUS
    <3>2. d \in Nat /\ d < m
      BY <1>3, <3>1
    <3> QED
      BY <3>2
  <2>2. m - 1 \in Nat /\ m - 1 < m
    BY <1>3, <2>1
  <2> QED
    BY <1>2, <2>2
<1>5. PICK d \in S : ~(d < m - 1)
  BY <1>4
<1>6. \A e \in S : d >= e
  BY <1>2, <1>4, <1>5
<1> QED
  BY <1>6 DEF Max

\* The bars before t come first: as many as they are, they are the first of all bars.
LEMMA PriorBarsComeFirst ==
    ASSUME NEW bs, IsFiniteSet(bs), NEW t, t.day \in Nat, t.slot \in Nat,
           \A b \in bs : b.day \in Nat /\ b.slot \in Nat
    PROVE  /\ Cardinality(PriorBars(bs, t)) \in 0 .. Cardinality(bs)
           /\ FirstBars(bs, Cardinality(PriorBars(bs, t))) = PriorBars(bs, t)
<1> DEFINE P == PriorBars(bs, t)
           n == Cardinality(P)
           Of(b) == {c \in bs : Before(c, b)}
<1>1. P \subseteq bs /\ \A b \in bs : b \in P <=> Before(b, t)
  BY DEF PriorBars, Earlier
<1> HIDE DEF P
<1>2. IsFiniteSet(P) /\ n \in Nat /\ n <= Cardinality(bs) /\ Cardinality(bs) \in Nat
  BY <1>1, FS_Subset, FS_CardinalityType
<1>3. ASSUME NEW b \in P
      PROVE  Cardinality(Of(b)) < n
  <2>1. Of(b) \subseteq P \ {b}
    BY <1>1 DEF Before
  <2>2. IsFiniteSet(P \ {b}) /\ Cardinality(P \ {b}) = n - 1
    BY <1>2, FS_RemoveElement
  <2>3. Cardinality(Of(b)) <= n - 1 /\ IsFiniteSet(Of(b))
    BY <2>1, <2>2, FS_Subset
  <2> QED
    BY <1>2, <2>3, FS_CardinalityType
<1>4. ASSUME NEW b \in bs \ P
      PROVE  ~(Cardinality(Of(b)) < n)
  <2>1. P \subseteq Of(b)
    BY <1>1 DEF Before
  <2>2. IsFiniteSet(Of(b))
    BY FS_Subset
  <2>3. n <= Cardinality(Of(b)) /\ Cardinality(Of(b)) \in Nat
    BY <2>1, <2>2, FS_Subset, FS_CardinalityType
  <2> QED
    BY <1>2, <2>3
<1>5. FirstBars(bs, n) = P
  BY <1>1, <1>3, <1>4 DEF FirstBars, Place
<1> QED
  BY <1>2, <1>5 DEF P

\* What an entry may know: the bars before it, the open of its day and the
\* labels of the days before it.
SameKnowledge(bs, l, t, cs, m, u) ==
    /\ t.day = u.day /\ t.slot = u.slot /\ t.price = u.price
    /\ PriorBars(bs, t) = PriorBars(cs, u)
    /\ Opening(DayBars(bs, t.day)).open = Opening(DayBars(cs, t.day)).open
    /\ LabelBefore(l, t) = LabelBefore(m, u)
    /\ \A d \in LabelBefore(l, t) : l[d] = m[d]

\* A chart's bars, at days and slots that count from 1.
IsChart(bs) == IsFiniteSet(bs) /\ \A b \in bs : b.day \in Nat /\ b.slot \in Nat

\* The days before the entry are the same, each with its bars.
LEMMA SameDays ==
    ASSUME NEW bs, NEW cs, NEW l, NEW m, NEW t, NEW u, SameKnowledge(bs, l, t, cs, m, u),
           t.day \in Nat, IsChart(bs), IsChart(cs)
    PROVE  /\ PriorDays(bs, t) = PriorDays(cs, u)
           /\ PriorDays(bs, t) # {} => Max(PriorDays(bs, t)) \in PriorDays(bs, t)
           /\ \A d \in PriorDays(bs, t) : /\ DayBars(bs, d) = DayBars(cs, d)
                                          /\ DayRange(bs, d) = DayRange(cs, d)
<1>1. \A b : b \in bs /\ b.day < t.day => b \in cs
  BY DEF SameKnowledge, PriorBars, Earlier, Before
<1>2. \A b : b \in cs /\ b.day < t.day => b \in bs
  BY DEF SameKnowledge, PriorBars, Earlier, Before
<1>3. PriorDays(bs, t) = PriorDays(cs, u)
  BY <1>1, <1>2 DEF PriorDays, SameKnowledge
<1>4. PriorDays(bs, t) \in SUBSET Nat /\ \A d \in PriorDays(bs, t) : d < t.day
  BY DEF PriorDays, IsChart
<1>5. PriorDays(bs, t) # {} => Max(PriorDays(bs, t)) \in PriorDays(bs, t)
  BY <1>4, GreatestDay
<1>6. ASSUME NEW d \in PriorDays(bs, t)
      PROVE  DayBars(bs, d) = DayBars(cs, d)
  BY <1>1, <1>2, <1>4 DEF DayBars
<1>7. \A d \in PriorDays(bs, t) : DayRange(bs, d) = DayRange(cs, d)
  BY <1>6 DEF DayRange, DailyBar
<1> QED
  BY <1>3, <1>5, <1>6, <1>7

\* Every column is made of that alone.
LEMMA SameRow ==
    ASSUME NEW bs, NEW cs, NEW l, NEW m, NEW t, NEW u, SameKnowledge(bs, l, t, cs, m, u),
           t.day \in Nat, t.slot \in Nat, IsChart(bs), IsChart(cs), DOMAIN l \subseteq Nat
    PROVE  Row(bs, l, t) = Row(cs, m, u)
<1> DEFINE days1 == PriorDays(bs, t)
<1>1. /\ days1 = PriorDays(cs, u)
      /\ days1 # {} => Max(days1) \in days1
      /\ \A d \in days1 : DayBars(bs, d) = DayBars(cs, d) /\ DayRange(bs, d) = DayRange(cs, d)
  BY SameDays
<1>2. PriorBars(bs, t) = PriorBars(cs, u) /\ t.day = u.day /\ t.slot = u.slot /\ t.price = u.price
  BY DEF SameKnowledge
<1> HIDE DEF days1
<1>3. Gap(bs, t) = Gap(cs, u)
  <2>1. days1 # {} => DailyBar(bs, Max(days1)) = DailyBar(cs, Max(days1))
    BY <1>1 DEF DailyBar
  <2>2. DailyBar(bs, t.day).open = DailyBar(cs, u.day).open
    BY <1>2 DEF DailyBar, SameKnowledge
  <2> QED
    BY <1>1, <2>1, <2>2 DEF Gap, days1
<1>4. PriorDayRange(bs, t) = PriorDayRange(cs, u)
  BY <1>1 DEF PriorDayRange, days1
<1>5. VolPctile(bs, t) = VolPctile(cs, u)
  <2>1. LastOf(days1 \ {Max(days1)}, Window) \subseteq days1
    BY DEF LastOf
  <2> DEFINE past == LastOf(days1 \ {Max(days1)}, Window)
  <2>2. [d \in past |-> DayRange(bs, d)] = [d \in past |-> DayRange(cs, d)]
    BY <1>1, <2>1
  <2> QED
    BY <1>1, <2>2 DEF VolPctile, days1
<1>6. BarsSinceOpen(bs, t) = BarsSinceOpen(cs, u) /\ EntryBarRange(bs, t) = EntryBarRange(cs, u)
  BY <1>2 DEF BarsSinceOpen, EntryBarRange
<1>7. RegimeLabel(l, t) = RegimeLabel(m, u)
  <2>1. LabelBefore(l, t) \in SUBSET Nat /\ \A d \in LabelBefore(l, t) : d < t.day
    BY DEF LabelBefore
  <2>2. LabelBefore(l, t) # {} => Max(LabelBefore(l, t)) \in LabelBefore(l, t)
    BY <2>1, GreatestDay
  <2> QED
    BY <2>2 DEF RegimeLabel, SameKnowledge
<1>8. DistToEma(bs, t) = DistToEma(cs, u)
  <2> DEFINE n == Cardinality(PriorBars(bs, t))
  <2>1. n = Cardinality(PriorBars(cs, u)) /\ u.day \in Nat /\ u.slot \in Nat
    BY <1>2
  <2>2. n \in 0 .. Cardinality(bs) /\ FirstBars(bs, n) = PriorBars(bs, t)
    BY PriorBarsComeFirst DEF IsChart
  <2>3. n \in 0 .. Cardinality(cs) /\ FirstBars(cs, n) = PriorBars(cs, u)
    BY <2>1, PriorBarsComeFirst DEF IsChart
  <2> HIDE DEF n
  <2>4. n # 0 => Ema(bs)[n] = Ema(cs)[n]
    BY <1>2, <2>2, <2>3 DEF Ema
  <2> QED
    BY <1>2, <2>1, <2>4 DEF DistToEma, n
<1>9. OrWidthPctile(bs, t) = OrWidthPctile(cs, u)
  <2> DEFINE w1 == [d \in LastOf(PriorDays(bs, t), Window) |-> OrWidth(DayBars(bs, d))]
             w2 == [d \in LastOf(PriorDays(cs, u), Window) |-> OrWidth(DayBars(cs, d))]
             Rank(current, w) ==
                IF current = NaN THEN NaN
                ELSE Share(current, [d \in {e \in DOMAIN w : w[e] # NaN} |-> w[d]])
  <2>1. LastOf(days1, Window) \subseteq days1
    BY DEF LastOf
  <2>2. w1 = w2
    <3>1. /\ w1 = [d \in LastOf(days1, Window) |-> OrWidth(DayBars(bs, d))]
          /\ w2 = [d \in LastOf(days1, Window) |-> OrWidth(DayBars(cs, d))]
      BY <1>1 DEF days1
    <3>2. \A d \in LastOf(days1, Window) : OrWidth(DayBars(bs, d)) = OrWidth(DayBars(cs, d))
      BY <1>1, <2>1
    <3> QED
      BY <3>1, <3>2
  <2>3. OrWidth(DayBars(PriorBars(bs, t), t.day)) = OrWidth(DayBars(PriorBars(cs, u), u.day))
    BY <1>2
  <2>4. OrWidthPctile(bs, t) = Rank(OrWidth(DayBars(PriorBars(bs, t), t.day)), w1)
    BY Zenon DEF OrWidthPctile
  <2>5. OrWidthPctile(cs, u) = Rank(OrWidth(DayBars(PriorBars(cs, u), u.day)), w2)
    BY Zenon DEF OrWidthPctile
  <2> HIDE DEF w1, w2, Rank
  <2> QED
    BY <2>2, <2>3, <2>4, <2>5
<1> QED
  BY <1>3, <1>4, <1>5, <1>6, <1>7, <1>8, <1>9 DEF Row

-----------------------------------------------------------------------------
\* The day that trades and its bars so far.
MarketTyped ==
    /\ days \in Seq(DayShapes) /\ today \in DayShapes
    /\ bar \in 0 .. Len(today.bars) /\ forming \in BOOLEAN
    /\ forming => bar < Len(today.bars)
    /\ PeriodOver => ~forming

\* A trade was entered at a bar that has opened.
Entered(t) ==
    /\ t.day \in 1 .. Len(days) + 1 /\ t.slot \in Nat \ {0}
    /\ t.day = Len(days) + 1 => t.slot <= bar + (IF forming THEN 1 ELSE 0)
    /\ t.day <= Len(days) => t.slot <= Len(days[t.day].bars)

\* Each row of the moment is the row that can be made now: the invariant, as the
\* table is built at the end.
TradesKnow == \A t \in trades : Entered(t) /\ t.known = Row(Bars, Labels, t)
TableKnows == \A t \in DOMAIN table : t \in trades /\ table[t] = t.known

Known == MarketTyped /\ TradesKnow /\ TableKnows

\* Where a bar is that there is to see.
LEMMA BarIsSeen ==
    ASSUME NEW b
    PROVE  b \in Bars <=>
              \/ \E d \in 1 .. Len(days) : \E s \in 1 .. Len(days[d].bars) :
                    b = BarAt(d, s, days[d].bars[s])
              \/ \E s \in 1 .. bar : b = BarAt(Len(days) + 1, s, today.bars[s])
              \/ forming /\ b = BarAt(Len(days) + 1, bar + 1, Opened(today.bars[bar + 1]))
  BY DEF Bars, BarsOver, BarsToday, BarsOf

\* The bars of a day are counted.
LEMMA ShapesHaveBars ==
    ASSUME NEW shape \in DayShapes
    PROVE  Len(shape.bars) \in Nat
  BY FeaturesAssumption

\* There are finitely many bars, at numbered days and slots.
LEMMA BarsAreAChart == MarketTyped => IsChart(Bars)
<1> SUFFICES ASSUME MarketTyped PROVE IsChart(Bars)
  OBVIOUS
<1>1. Len(days) \in Nat /\ bar \in Nat /\ \A d \in 1 .. Len(days) : days[d] \in DayShapes
  BY ShapesHaveBars DEF MarketTyped
<1>2. \A b \in Bars : b.day \in Nat /\ b.slot \in Nat
  <2>1. ASSUME NEW b \in Bars PROVE b.day \in Nat /\ b.slot \in Nat
    <3>1. \E d \in 1 .. Len(days) + 1, s \in Nat : \E k : b = BarAt(d, s, k)
      <4>1. CASE \E d \in 1 .. Len(days) :
                    \E s \in 1 .. Len(days[d].bars) : b = BarAt(d, s, days[d].bars[s])
        BY <1>1, <4>1
      <4>2. CASE \E s \in 1 .. bar : b = BarAt(Len(days) + 1, s, today.bars[s])
        <5>1. PICK s \in 1 .. bar : b = BarAt(Len(days) + 1, s, today.bars[s])
          BY <4>2
        <5>2. s \in Nat /\ Len(days) + 1 \in 1 .. Len(days) + 1
          BY <1>1
        <5> QED
          BY <5>1, <5>2
      <4>3. CASE b = BarAt(Len(days) + 1, bar + 1, Opened(today.bars[bar + 1]))
        BY <1>1, <4>3
      <4> QED
        BY <4>1, <4>2, <4>3, BarIsSeen
    <3> QED
      BY <1>1, <3>1 DEF BarAt
  <2> QED
    BY <2>1
<1>3. ASSUME NEW d, NEW shape, NEW n \in Nat
      PROVE  IsFiniteSet(BarsOf(d, shape, n))
  <2> DEFINE f == [s \in 1 .. n |-> BarAt(d, s, shape.bars[s])]
  <2>1. f \in Surjection(1 .. n, BarsOf(d, shape, n))
    BY DEF Surjection, BarsOf
  <2> QED
    BY <2>1, FS_Interval, FS_Surjection
<1>4. IsFiniteSet(BarsOver)
  <2> DEFINE f == [d \in 1 .. Len(days) |-> BarsOf(d, days[d], Len(days[d].bars))]
             T == {BarsOf(d, days[d], Len(days[d].bars)) : d \in 1 .. Len(days)}
  <2>1. f \in Surjection(1 .. Len(days), T)
    BY DEF Surjection
  <2>2. IsFiniteSet(T)
    BY <1>1, <2>1, FS_Interval, FS_Surjection
  <2>3. \A S \in T : IsFiniteSet(S)
    BY <1>1, <1>3, ShapesHaveBars
  <2>4. IsFiniteSet(UNION T)
    BY <2>2, <2>3, FS_UNION
  <2> QED
    BY <2>4 DEF BarsOver
<1>5. IsFiniteSet(BarsToday)
  <2>1. IsFiniteSet(BarsOf(Len(days) + 1, today, bar))
    BY <1>1, <1>3
  <2> DEFINE x == BarAt(Len(days) + 1, bar + 1, Opened(today.bars[bar + 1]))
             T == {BarAt(Len(days) + 1, s, Opened(today.bars[s])) :
                      s \in IF forming THEN {bar + 1} ELSE {}}
  <2>2. BarsToday = BarsOf(Len(days) + 1, today, bar) \cup T
    BY DEF BarsToday
  <2>3. T = {} \/ T = {x}
    OBVIOUS
  <2> HIDE DEF T, x
  <2>4. IsFiniteSet(T)
    BY <2>3, FS_EmptySet, FS_Singleton
  <2> QED
    BY <2>1, <2>2, <2>4, FS_Union
<1>6. IsFiniteSet(Bars)
  BY <1>4, <1>5, FS_Union DEF Bars
<1> QED
  BY <1>2, <1>6 DEF IsChart

\* The open of a day that has opened is that of its first bar.
LEMMA OpenOfTheDay ==
    MarketTyped =>
    \A d \in 1 .. Len(days) + 1 :
       /\ d <= Len(days) => Len(days[d].bars) # 0
       /\ d = Len(days) + 1 => bar # 0 \/ forming
       => Opening(DayBars(Bars, d)).open
            = (IF d = Len(days) + 1 THEN today ELSE days[d]).bars[1].open
<1> SUFFICES ASSUME MarketTyped, NEW d \in 1 .. Len(days) + 1,
                    d <= Len(days) => Len(days[d].bars) # 0,
                    d = Len(days) + 1 => bar # 0 \/ forming
             PROVE  Opening(DayBars(Bars, d)).open
                      = (IF d = Len(days) + 1 THEN today ELSE days[d]).bars[1].open
  OBVIOUS
<1> DEFINE open == (IF d = Len(days) + 1 THEN today ELSE days[d]).bars[1].open
           of == DayBars(Bars, d)
<1>1. Len(days) \in Nat /\ bar \in Nat /\ \A e \in 1 .. Len(days) : Len(days[e].bars) \in Nat
  BY ShapesHaveBars DEF MarketTyped
<1>2. ASSUME NEW b \in Bars, b.day = d
      PROVE  b.slot \in Nat \ {0} /\ (b.slot = 1 => b.open = open)
  <2>1. CASE \E e \in 1 .. Len(days) :
                \E s \in 1 .. Len(days[e].bars) : b = BarAt(e, s, days[e].bars[s])
    <3>1. PICK e \in 1 .. Len(days) :
              \E s \in 1 .. Len(days[e].bars) : b = BarAt(e, s, days[e].bars[s])
      BY <2>1
    <3>2. PICK s \in 1 .. Len(days[e].bars) : b = BarAt(e, s, days[e].bars[s])
      BY <3>1
    <3>3. b.day = e /\ b.slot = s /\ b.open = days[e].bars[s].open
      BY <3>2 DEF BarAt
    <3> QED
      BY <1>1, <1>2, <3>3
  <2>2. CASE \E s \in 1 .. bar : b = BarAt(Len(days) + 1, s, today.bars[s])
    <3>1. PICK s \in 1 .. bar : b = BarAt(Len(days) + 1, s, today.bars[s])
      BY <2>2
    <3>2. b.day = Len(days) + 1 /\ b.slot = s /\ b.open = today.bars[s].open
      BY <3>1 DEF BarAt
    <3> QED
      BY <1>1, <1>2, <3>2
  <2>3. CASE b = BarAt(Len(days) + 1, bar + 1, Opened(today.bars[bar + 1]))
    <3>2. b.day = Len(days) + 1 /\ b.slot = bar + 1 /\ b.open = today.bars[bar + 1].open
      BY <2>3 DEF BarAt, Opened
    <3> QED
      BY <1>1, <1>2, <3>2
  <2> QED
    BY <2>1, <2>2, <2>3, BarIsSeen
<1>3. \E b \in of : b.slot = 1
  <2>1. CASE d <= Len(days)
    <3> DEFINE b == BarAt(d, 1, days[d].bars[1])
    <3>1. 1 \in 1 .. Len(days[d].bars) /\ d \in 1 .. Len(days)
      BY <1>1, <2>1
    <3>2. b \in Bars
      BY <3>1, BarIsSeen
    <3>3. b.day = d /\ b.slot = 1
      BY DEF BarAt
    <3> QED
      BY <3>2, <3>3 DEF DayBars
  <2>2. CASE d = Len(days) + 1 /\ bar # 0
    <3> DEFINE b == BarAt(d, 1, today.bars[1])
    <3>1. 1 \in 1 .. bar
      BY <1>1, <2>2
    <3>2. b \in Bars
      BY <2>2, <3>1, BarIsSeen
    <3>3. b.day = d /\ b.slot = 1
      BY DEF BarAt
    <3> QED
      BY <3>2, <3>3 DEF DayBars
  <2>3. CASE d = Len(days) + 1 /\ bar = 0 /\ forming
    <3> DEFINE b == BarAt(d, 1, Opened(today.bars[1]))
    <3>2. b \in Bars
      BY <2>3, BarIsSeen
    <3>3. b.day = d /\ b.slot = 1
      BY DEF BarAt
    <3> QED
      BY <3>2, <3>3 DEF DayBars
  <2> QED
    BY <1>1, <2>1, <2>2, <2>3
<1>4. \A b \in of : b.slot \in Nat \ {0} /\ (b.slot = 1 => b.open = open)
  BY <1>2 DEF DayBars
<1> HIDE DEF of, open
<1>5. \E b \in of : \A c \in of : b.slot <= c.slot
  BY <1>3, <1>4
<1>6. Opening(of) \in of /\ \A c \in of : Opening(of).slot <= c.slot
  BY <1>5 DEF Opening
<1>7. Opening(of).slot = 1
  BY <1>3, <1>4, <1>6
<1> QED
  BY <1>4, <1>6, <1>7 DEF of, open

\* A step of the market changes what there is to see at one place only, where no
\* trade was entered before.
LEMMA BarsGoOn ==
    ASSUME MarketTyped, Market, NEW b, b.day # Len(days) + 1 \/ b.slot # bar + 1
    PROVE  b \in Bars' <=> b \in Bars
<1>1. Len(days) \in Nat /\ bar \in Nat
  BY DEF MarketTyped
<1> DEFINE L == Len(days)
           Complete == BarsOf(L + 1, today, bar)
<1>2. ASSUME NEW n, NEW o PROVE BarAt(L + 1, bar + 1, o) # b
  BY DEF BarAt
<1>3. CASE OpenBar
  <2>1. BarsOver' = BarsOver /\ UNCHANGED <<days, today, bar>> /\ forming' = TRUE /\ forming = FALSE
    BY <1>3 DEF OpenBar, BarsOver, MarketTyped
  <2>2. b \in BarsToday' <=> b \in Complete
    BY <1>2, <2>1 DEF BarsToday
  <2>3. b \in BarsToday <=> b \in Complete
    BY <2>1 DEF BarsToday
  <2> QED
    BY <2>1, <2>2, <2>3 DEF Bars
<1>4. CASE CloseBar
  <2>1. /\ BarsOver' = BarsOver /\ UNCHANGED <<days, today>> /\ bar' = bar + 1
        /\ forming' = FALSE /\ forming = TRUE
    BY <1>4 DEF CloseBar, BarsOver, MarketTyped
  <2>2. BarsToday' = BarsOf(L + 1, today, bar + 1)
    BY <2>1 DEF BarsToday
  <2>3. b \in BarsOf(L + 1, today, bar + 1) <=> b \in Complete
    <3>1. ASSUME NEW s \in 1 .. bar + 1, b = BarAt(L + 1, s, today.bars[s])
          PROVE  s \in 1 .. bar
      <4>1. s # bar + 1
        BY <1>2, <3>1
      <4> QED
        BY <1>1, <4>1
    <3>2. 1 .. bar \subseteq 1 .. bar + 1
      BY <1>1
    <3> QED
      BY <3>1, <3>2 DEF BarsOf
  <2>4. b \in BarsToday <=> b \in Complete
    BY <1>2, <2>1 DEF BarsToday
  <2> QED
    BY <2>1, <2>2, <2>3, <2>4 DEF Bars
<1>5. CASE EndDay
  <2>1. /\ days' = Append(days, today) /\ bar' = 0 /\ forming' = FALSE /\ forming = FALSE
        /\ bar = Len(today.bars)
    BY <1>5 DEF EndDay, MarketTyped
  <2>2. Len(days') = L + 1 /\ days'[L + 1] = today /\ \A d \in 1 .. L : days'[d] = days[d]
    BY <2>1 DEF MarketTyped
  <2>3. BarsOver' = BarsOver \cup BarsOf(L + 1, today, Len(today.bars))
    <3>1. BarsOver' = UNION {BarsOf(d, days'[d], Len(days'[d].bars)) : d \in 1 .. L + 1}
      BY <2>2 DEF BarsOver
    <3>2. 1 .. L + 1 = (1 .. L) \cup {L + 1}
      BY <1>1
    <3>3. BarsOver = UNION {BarsOf(d, days'[d], Len(days'[d].bars)) : d \in 1 .. L}
      BY <2>2 DEF BarsOver
    <3> QED
      BY <2>2, <3>1, <3>2, <3>3
  <2>4. BarsToday = BarsOf(L + 1, today, Len(today.bars))
    BY <2>1 DEF BarsToday
  <2>5. BarsToday' = {}
    BY <2>1 DEF BarsToday, BarsOf
  <2> QED
    BY <2>3, <2>4, <2>5 DEF Bars
<1>6. CASE Enter \/ BuildTable
  BY <1>6 DEF Enter, BuildTable, Bars, BarsOver, BarsToday
<1> QED
  BY <1>3, <1>4, <1>5, <1>6 DEF Market

\* The market keeps its types.
LEMMA MarketStepTyped == ASSUME MarketTyped, Market PROVE MarketTyped'
<1>1. Len(days) \in Nat /\ bar \in Nat /\ Len(today.bars) \in Nat
  BY ShapesHaveBars DEF MarketTyped
<1>2. CASE OpenBar
  BY <1>1, <1>2 DEF OpenBar, MarketTyped, PeriodOver
<1>3. CASE CloseBar
  <2>1. bar < Len(today.bars) /\ bar' = bar + 1 /\ forming' = FALSE /\ UNCHANGED <<days, today>>
    BY <1>3 DEF CloseBar, MarketTyped
  <2>2. bar' \in 0 .. Len(today'.bars)
    BY <1>1, <2>1
  <2> QED
    BY <2>1, <2>2 DEF MarketTyped
<1>4. CASE EndDay
  <2>1. /\ days' \in Seq(DayShapes) /\ today' \in DayShapes /\ bar' = 0 /\ forming' = FALSE
    BY <1>4 DEF EndDay, MarketTyped
  <2>2. bar' \in 0 .. Len(today'.bars)
    <3>1. Len(today'.bars) \in Nat
      BY <2>1, ShapesHaveBars
    <3> QED
      BY <2>1, <3>1
  <2> QED
    BY <2>1, <2>2 DEF MarketTyped
<1>5. CASE Enter \/ BuildTable
  BY <1>5 DEF Enter, BuildTable, MarketTyped, PeriodOver
<1> QED
  BY <1>2, <1>3, <1>4, <1>5 DEF Market

\* A bar that has opened stays one.
LEMMA StaysEntered ==
    ASSUME MarketTyped, Market, NEW t, Entered(t)
    PROVE  Entered(t)'
<1>1. Len(days) \in Nat /\ bar \in Nat
  BY DEF MarketTyped
<1>2. CASE OpenBar \/ CloseBar
  BY <1>1, <1>2 DEF OpenBar, CloseBar, Entered, MarketTyped
<1>4. CASE EndDay
  <2>1. /\ days' = Append(days, today) /\ forming = FALSE /\ bar = Len(today.bars)
    BY <1>4 DEF EndDay, MarketTyped
  <2>2. Len(days') = Len(days) + 1 /\ days'[Len(days) + 1] = today
        /\ \A d \in 1 .. Len(days) : days'[d] = days[d]
    BY <2>1 DEF MarketTyped
  <2>3. /\ t.day \in 1 .. Len(days) + 1 /\ t.slot \in Nat \ {0}
        /\ t.day = Len(days) + 1 => t.slot <= bar
        /\ t.day <= Len(days) => t.slot <= Len(days[t.day].bars)
    BY <1>1, <2>1 DEF Entered
  <2> QED
    BY <1>1, <2>1, <2>2, <2>3 DEF Entered
<1>5. CASE Enter \/ BuildTable
  BY <1>5 DEF Enter, BuildTable, Entered
<1> QED
  BY <1>2, <1>4, <1>5 DEF Market

\* What an entry may know is never changed: neither by the bar that forms, nor by a
\* label that is published, nor by the days to come.
LEMMA KnowledgeStays ==
    ASSUME MarketTyped, Market, NEW t, Entered(t)
    PROVE  SameKnowledge(Bars, Labels, t, Bars', Labels', t)
<1>1. /\ Len(days) \in Nat /\ bar \in Nat /\ t.day \in 1 .. Len(days) + 1
      /\ t.slot \in Nat \ {0}
  BY DEF MarketTyped, Entered
<1>2. \/ days' = days /\ today' = today
      \/ days' = Append(days, today) /\ bar = Len(today.bars)
  BY DEF Market, OpenBar, CloseBar, EndDay, Enter, BuildTable
<1>3. PriorBars(Bars, t) = PriorBars(Bars', t)
  <2>1. ASSUME NEW b, Before(b, t) PROVE b \in Bars' <=> b \in Bars
    <3>1. t.day = Len(days) + 1 => t.slot \in Nat /\ t.slot <= bar + 1
      BY <1>1 DEF Entered
    <3>2. b.day # Len(days) + 1 \/ b.slot # bar + 1
      BY <1>1, <2>1, <3>1 DEF Before
    <3> QED
      BY <3>2, BarsGoOn
  <2> QED
    BY <2>1 DEF PriorBars, Earlier
<1>4. Opening(DayBars(Bars, t.day)).open = Opening(DayBars(Bars', t.day)).open
  <2> DEFINE shape == IF t.day = Len(days) + 1 THEN today ELSE days[t.day]
  <2>1. Opening(DayBars(Bars, t.day)).open = shape.bars[1].open
    <3>1. /\ t.day <= Len(days) => Len(days[t.day].bars) # 0
          /\ t.day = Len(days) + 1 => bar # 0 \/ forming
      BY <1>1, ShapesHaveBars DEF Entered, MarketTyped
    <3> QED
      BY <1>1, <3>1, OpenOfTheDay
  <2>2. MarketTyped' /\ Entered(t)'
    BY MarketStepTyped, StaysEntered
  <2>3. /\ t.day \in 1 .. Len(days') + 1
        /\ t.day <= Len(days') => Len(days'[t.day].bars) # 0
        /\ t.day = Len(days') + 1 => bar' # 0 \/ forming'
    BY <1>1, <2>2, ShapesHaveBars DEF Entered, MarketTyped
  <2>4. Opening(DayBars(Bars', t.day)).open
          = (IF t.day = Len(days') + 1 THEN today' ELSE days'[t.day]).bars[1].open
    <3>1. (MarketTyped =>
           \A d \in 1 .. Len(days) + 1 :
              /\ d <= Len(days) => Len(days[d].bars) # 0
              /\ d = Len(days) + 1 => bar # 0 \/ forming
              => Opening(DayBars(Bars, d)).open
                   = (IF d = Len(days) + 1 THEN today ELSE days[d]).bars[1].open)'
      BY OpenOfTheDay, PTL
    <3> QED
      BY <2>2, <2>3, <3>1
  <2>5. shape = IF t.day = Len(days') + 1 THEN today' ELSE days'[t.day]
    BY <1>1, <1>2 DEF MarketTyped
  <2> HIDE DEF shape
  <2> QED
    BY <2>1, <2>4, <2>5
<1>5. /\ LabelBefore(Labels, t) = LabelBefore(Labels', t)
      /\ \A d \in LabelBefore(Labels, t) : Labels[d] = Labels'[d]
  <2>1. LabelBefore(Labels, t) = {d \in 1 .. Len(days) : d < t.day}
    BY DEF LabelBefore, Labels
  <2>2. LabelBefore(Labels', t) = {d \in 1 .. Len(days') : d < t.day}
    BY DEF LabelBefore, Labels
  <2>3. Len(days') \in Nat /\ Len(days') >= Len(days) /\ \A d \in 1 .. Len(days) : days'[d] = days[d]
    BY <1>2 DEF MarketTyped
  <2>4. \A d \in 1 .. Len(days) : Labels[d] = days[d].label /\ Labels'[d] = days'[d].label
    BY <1>1, <2>3 DEF Labels
  <2> QED
    BY <1>1, <2>1, <2>2, <2>3, <2>4
<1> QED
  BY <1>3, <1>4, <1>5 DEF SameKnowledge

\* At first nothing was entered.
LEMMA InitKnown == ScreeningInit => Known
<1>1. SUFFICES ASSUME ScreeningInit PROVE Known
  OBVIOUS
<1>2. /\ days = <<>> /\ today \in DayShapes /\ bar = 0 /\ forming = FALSE
      /\ trades = {} /\ table = <<>>
  BY <1>1 DEF ScreeningInit, MarketInit
<1>3. MarketTyped
  <2>1. Len(today.bars) \in Nat
    BY <1>2, ShapesHaveBars
  <2>2. days \in Seq(DayShapes)
    BY <1>2
  <2>3. bar \in 0 .. Len(today.bars)
    BY <1>2, <2>1
  <2> QED
    BY <1>2, <2>2, <2>3 DEF MarketTyped
<1>4. TradesKnow /\ TableKnows
  BY <1>2 DEF TradesKnow, TableKnows
<1> QED
  BY <1>3, <1>4 DEF Known

\* A row that was right when its trade was entered is right after every step.
LEMMA RowsStay ==
    ASSUME MarketTyped, Market, NEW t, Entered(t)
    PROVE  Row(Bars, Labels, t) = Row(Bars', Labels', t)
<1>1. IsChart(Bars) /\ IsChart(Bars')
  <2>1. IsChart(Bars)
    BY BarsAreAChart
  <2>2. MarketTyped'
    BY MarketStepTyped
  <2>3. (MarketTyped => IsChart(Bars))'
    BY BarsAreAChart, PTL
  <2> QED
    BY <2>1, <2>2, <2>3
<1>2. t.day \in Nat /\ t.slot \in Nat
  BY DEF Entered, MarketTyped
<1>3. DOMAIN Labels \subseteq Nat
  BY DEF Labels
<1> QED
  BY <1>1, <1>2, <1>3, KnowledgeStays, SameRow

\* An entry adds one trade, whose row is that of the moment.
LEMMA EntryKnows ==
    ASSUME MarketTyped, Enter
    PROVE  \E new : /\ trades' = trades \cup {new}
                    /\ Entered(new) /\ new.known = Row(Bars, Labels, new)
<1> DEFINE t == [day |-> Len(days) + 1, slot |-> bar + 1, price |-> today.bars[bar + 1].open]
           new == [day |-> t.day, slot |-> t.slot, price |-> t.price,
                   known |-> Row(Bars, Labels, t)]
<1>1. trades' = trades \cup {new}
  BY DEF Enter
<1>2. /\ new.day = t.day /\ new.slot = t.slot /\ new.price = t.price
      /\ new.known = Row(Bars, Labels, t)
  OBVIOUS
<1>3. Len(days) \in Nat /\ bar \in Nat /\ forming /\ t.day = Len(days) + 1 /\ t.slot = bar + 1
  BY DEF MarketTyped, Enter
<1> HIDE DEF t, new
<1>4. Entered(new)
  BY <1>2, <1>3 DEF Entered
<1>5. Row(Bars, Labels, t) = Row(Bars, Labels, new)
  <2>1. SameKnowledge(Bars, Labels, t, Bars, Labels, new)
    BY <1>2 DEF SameKnowledge, PriorBars, Earlier, Before, LabelBefore
  <2>2. DOMAIN Labels \subseteq Nat
    BY DEF Labels
  <2> QED
    BY <1>3, <2>1, <2>2, BarsAreAChart, SameRow
<1> QED
  BY <1>1, <1>2, <1>4, <1>5

\* Every step of the market, and the building of the table, keeps the rows.
LEMMA MarketKnows == ASSUME Known, Market PROVE Known'
<1>1. MarketTyped /\ TradesKnow /\ TableKnows
  BY DEF Known
<1>2. \A t \in trades : Entered(t)' /\ t.known = Row(Bars', Labels', t)
  BY <1>1, StaysEntered, RowsStay DEF TradesKnow
<1>3. TradesKnow' /\ trades \subseteq trades'
  <2>1. CASE Enter
    <3>1. PICK new : /\ trades' = trades \cup {new}
                     /\ Entered(new) /\ new.known = Row(Bars, Labels, new)
      BY <1>1, <2>1, EntryKnows
    <3>2. Entered(new)' /\ new.known = Row(Bars', Labels', new)
      BY <1>1, <3>1, StaysEntered, RowsStay
    <3> QED
      BY <1>2, <3>1, <3>2 DEF TradesKnow
  <2>2. CASE ~Enter
    <3>1. trades' = trades
      BY <2>2 DEF Market, OpenBar, CloseBar, EndDay, BuildTable
    <3> QED
      BY <1>2, <3>1 DEF TradesKnow
  <2> QED
    BY <2>1, <2>2
<1>4. TableKnows'
  <2>1. CASE BuildTable
    <3>1. table' = [t \in trades |-> Row(Bars, Labels, t)]
      BY <2>1 DEF BuildTable
    <3> QED
      BY <1>1, <1>3, <3>1 DEF TableKnows, TradesKnow
  <2>2. CASE ~BuildTable
    <3>1. table' = table
      BY <2>2 DEF Market, OpenBar, CloseBar, EndDay, Enter
    <3> QED
      BY <1>1, <1>3, <3>1 DEF TableKnows
  <2> QED
    BY <2>1, <2>2
<1> QED
  BY <1>1, <1>3, <1>4, MarketStepTyped DEF Known

\* The table holds nothing that was not known at the entry, for any days, any
\* trades and any length of the windows.
THEOREM LookTheorem == ScreeningSpec => []NoLookAhead
<1>1. Known /\ [ScreeningNext]_screeningVars => Known'
  <2> SUFFICES ASSUME Known, [ScreeningNext]_screeningVars PROVE Known'
    OBVIOUS
  <2>1. CASE Backtest
    BY <2>1, MarketKnows DEF Backtest
  <2>2. CASE Screen \/ Harvest \/ Walkforward \/ UNCHANGED screeningVars
    <3>1. UNCHANGED <<days, today, bar, forming, trades, table>>
      BY <2>2 DEF Screen, Harvest, Walkforward, screeningVars, market
    <3>2. Bars' = Bars /\ Labels' = Labels
      BY <3>1 DEF Bars, BarsOver, BarsToday, Labels
    <3> QED
      BY <3>1, <3>2
      DEF Known, MarketTyped, TradesKnow, TableKnows, Entered, PeriodOver
  <2> QED
    BY <2>1, <2>2 DEF ScreeningNext
<1>2. Known => NoLookAhead
  BY DEF Known, TableKnows, NoLookAhead
<1> QED
  BY InitKnown, <1>1, <1>2, PTL DEF ScreeningSpec
==============================================================================
