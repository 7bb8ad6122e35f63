------------------------------ MODULE Builder ------------------------------
(***************************************************************************)
(* build_missing_primitives of compiler_builder.py: a coding agent works in *)
(* a copy of the source tree until the generated config and the code pass  *)
(* a deterministic verification, with one retry.                           *)
(*                                                                         *)
(* The module follows the one config file of a round directory, its copy   *)
(* in the workspace, and the implementation the two trees hold.  A config  *)
(* is the thesis it was written for and how good it is; an implementation  *)
(* is the thesis it implements.  The layout is the one where the runtime   *)
(* directory lies inside the source tree.                                  *)
(***************************************************************************)
EXTENDS Naturals

CONSTANTS
    Theses,         \* theses a build is asked for in one round directory
    Nothing,        \* no config, no thesis
    RetryLimit,     \* BUILDER_IMPLEMENTATION_RETRY_LIMIT
    MaxBuilds       \* bound: calls of build_missing_primitives

VARIABLES
    source,         \* the source tree: its config and the implementation in it
    workspace,      \* the copy of it that the agent works in
    promotions,     \* builder-promotions/<thesis>: what its files implement
    build,          \* the call in progress: thesis, attempt, last result
    written,        \* what the agent of this attempt wrote, Nothing for what it left alone
    pc,             \* where the call is
    builds          \* calls so far

builderVars == <<source, workspace, promotions, build, written, pc, builds>>

ASSUME BuilderAssumption ==
    Nothing \notin Theses /\ RetryLimit \in Nat /\ MaxBuilds \in Nat

-----------------------------------------------------------------------------
GeneratedConfigs == [of : Theses, quality : {"unloadable", "deviant", "exact"}]
Trees == [config : GeneratedConfigs \cup {Nothing}, code : Theses \cup {Nothing}]
EmptyTree == [config |-> Nothing, code |-> Nothing]

\* _validate_generated_config_in_fresh_python
Loads(config) == config.quality # "unloadable"

\* verify_builder_implementation_contract: the config has the thesis's changes and
\* no others, and the runtime code reads its keys, emits its diagnostics, has its
\* data and is covered by tests.
\* Variant: the config alone is looked at.
ConfigMeets(tree, thesis) == tree.config.of = thesis /\ tree.config.quality = "exact"
CodeMeets(tree, thesis) == tree.code = thesis
MeetsContract(tree, thesis) == ConfigMeets(tree, thesis) /\ CodeMeets(tree, thesis)

\* _validated_generated_config_result and the answers where there is no config.
Verdict(tree, thesis) ==
    IF tree.config = Nothing THEN "missing_config"
    ELSE IF ~Loads(tree.config) THEN "validation_failed"
    ELSE IF ~MeetsContract(tree, thesis) THEN "contract_failed"
    ELSE "completed"

Results == {"none", "missing_config", "validation_failed", "contract_failed", "completed", "failed"}
ShouldRetry(result) == result \in {"validation_failed", "contract_failed"}

\* _ensure_workspace_generated_config.  The config lies under runtime/, which the
\* snapshot of promotable files leaves out, so that a config in the source tree
\* always looks new and replaces the one in the workspace.
WithSourceConfig(tree) ==
    IF source.config # Nothing THEN [tree EXCEPT !.config = source.config] ELSE tree

BuilderInit ==
    /\ source \in [config : {Nothing}, code : Theses \cup {Nothing}]
    /\ workspace = EmptyTree
    /\ promotions = [t \in Theses |-> Nothing]
    /\ build = [thesis |-> Nothing, attempt |-> 0, result |-> "none"]
    /\ written = [config |-> Nothing, code |-> Nothing, at |-> "workspace"]
    /\ pc = "idle" /\ builds = 0

-----------------------------------------------------------------------------
\* _compile_runtime_config_contract: an execution of the round that compiled a
\* thesis without code changes left its config in the directory.
ResearchCompiles ==
    /\ pc = "idle" /\ builds < MaxBuilds
    /\ \E t \in Theses : source' = [source EXCEPT !.config = [of |-> t, quality |-> "exact"]]
    /\ builds' = builds + 1
    /\ UNCHANGED <<workspace, promotions, build, written, pc>>

\* No artifacts of the round, an unknown family or a contract without primitives.
Refuse(t) ==
    /\ pc = "idle" /\ builds < MaxBuilds
    /\ builds' = builds + 1
    /\ build' = [thesis |-> t, attempt |-> 0, result |-> "failed"]
    /\ pc' = "answered"
    /\ UNCHANGED <<source, workspace, promotions, written>>

\* The files of an approved promotion over a copy of the source tree.
Seeds == {source.code} \cup ({promotions[u] : u \in Theses} \ {Nothing})

\* A fresh copy of the source tree, seeded.
Dispatch(t) ==
    /\ pc = "idle" /\ builds < MaxBuilds
    /\ builds' = builds + 1
    /\ build' = [thesis |-> t, attempt |-> 0, result |-> "none"]
    /\ \E code \in Seeds :
        workspace' = WithSourceConfig([config |-> Nothing, code |-> code])
    /\ pc' = "prepared"
    /\ UNCHANGED <<source, promotions, written>>

\* _record_builder_promotion_candidate: the files in which the workspace differs from
\* the source tree.
\* Variant: the files the agent wrote.
WrittenFiles == written.code
ChangedFiles == IF workspace.code = source.code THEN Nothing ELSE workspace.code
Promote == promotions' = [promotions EXCEPT ![build.thesis] = ChangedFiles]

\* "config already exists": judged before any agent is asked.
JudgeExisting ==
    /\ pc = "prepared"
    /\ workspace.config # Nothing
    /\ UNCHANGED <<source, workspace, written, builds>>
    /\ LET result == Verdict(workspace, build.thesis) IN
       /\ build' = [build EXCEPT !.result = result]
       /\ IF result = "completed"
          THEN Promote /\ pc' = "answered"
          ELSE UNCHANGED promotions /\ pc' = "attempt"

NothingExists ==
    /\ pc = "prepared"
    /\ workspace.config = Nothing
    /\ pc' = "attempt"
    /\ UNCHANGED <<source, workspace, promotions, build, written, builds>>

NoCli ==
    /\ pc = "attempt" /\ build.attempt = 0
    /\ build' = [build EXCEPT !.result = IF @ = "none" THEN "failed" ELSE @]
    /\ pc' = "answered"
    /\ UNCHANGED <<source, workspace, promotions, written, builds>>

\* The tree with what the agent wrote in it.
Left(tree, config, code) ==
    [config |-> IF config = Nothing THEN tree.config ELSE config,
     code |-> IF code = Nothing THEN tree.code ELSE code]

\* Variant: the attempt is not counted.
SameAttempt == build.attempt
NextAttempt == build.attempt + 1

\* The agent writes a config, code, both or neither, in the workspace or, where the
\* CLI has no sandbox, in the source tree; it may do so and time out.
AgentWorks ==
    /\ pc = "attempt"
    /\ \E config \in GeneratedConfigs \cup {Nothing}, code \in {build.thesis, Nothing},
          at \in {"workspace", "source"} :
        /\ written' = [config |-> config, code |-> code, at |-> at]
        /\ workspace' = IF at = "workspace" THEN Left(workspace, config, code) ELSE workspace
        /\ source' = IF at = "source" THEN Left(source, config, code) ELSE source
    /\ build' = [build EXCEPT !.attempt = NextAttempt]
    /\ pc' = "collect"
    /\ UNCHANGED <<promotions, builds>>

\* _sync_root_promotable_changes_into_workspace
\* Variant: the workspace as it is.
UnsyncedWorkspace == workspace
SyncedWorkspace ==
    IF written.at = "source" /\ written.code # Nothing
    THEN [workspace EXCEPT !.code = source.code] ELSE workspace

\* What changed in the source tree, then its config, then the verdict.
Collect ==
    /\ pc = "collect"
    /\ workspace' = WithSourceConfig(SyncedWorkspace)
    /\ build' = [build EXCEPT !.result = Verdict(workspace', build.thesis)]
    /\ pc' = IF build'.result = "completed" THEN "publish" ELSE "decide"
    /\ UNCHANGED <<source, promotions, written, builds>>

\* The config goes to the source tree, then the changed files to the promotion.
Publish ==
    /\ pc = "publish"
    /\ source' = [source EXCEPT !.config = workspace.config]
    /\ pc' = "promote"
    /\ UNCHANGED <<workspace, promotions, build, written, builds>>

RecordPromotion ==
    /\ pc = "promote"
    /\ Promote
    /\ pc' = "answered"
    /\ UNCHANGED <<source, workspace, build, written, builds>>

RetriesLeft == ShouldRetry(build.result) /\ build.attempt <= RetryLimit
Decide ==
    /\ pc = "decide"
    /\ pc' = IF RetriesLeft THEN "attempt" ELSE "answered"
    /\ UNCHANGED <<source, workspace, promotions, build, written, builds>>

\* The controller has taken the answer.
Return ==
    /\ pc = "answered"
    /\ pc' = "idle"
    /\ UNCHANGED <<source, workspace, promotions, build, written, builds>>

\* An exception, which the controller takes for an answer, or the death of the process.
Abort ==
    /\ pc \notin {"idle", "answered"}
    /\ build' = [build EXCEPT !.result = "failed"]
    /\ pc' = "idle"
    /\ UNCHANGED <<source, workspace, promotions, written, builds>>

Works ==
    \/ JudgeExisting \/ NothingExists \/ AgentWorks \/ Collect \/ Publish \/ RecordPromotion
    \/ Decide \/ Return
BuilderNext ==
    \/ Works \/ ResearchCompiles \/ NoCli \/ Abort
    \/ \E t \in Theses : Refuse(t) \/ Dispatch(t)

BuilderSpec == BuilderInit /\ [][BuilderNext]_builderVars
BuilderFairSpec == BuilderSpec /\ WF_builderVars(Works)

-----------------------------------------------------------------------------
(* Type invariant of the two trees and the call of                         *)
(* build_missing_primitives.                                               *)
BuilderTypeOK ==
    /\ source \in Trees /\ workspace \in Trees
    /\ written \in [config : GeneratedConfigs \cup {Nothing}, code : Theses \cup {Nothing},
                   at : {"workspace", "source"}]
    /\ promotions \in [Theses -> Theses \cup {Nothing}]
    /\ build \in [thesis : Theses \cup {Nothing}, attempt : 0 .. RetryLimit + 1, result : Results]
    /\ pc \in {"idle", "prepared", "attempt", "collect", "publish", "promote", "decide", "answered"}
    /\ builds \in 0 .. MaxBuilds

(* A completed answer is a config for the thesis the builder was called    *)
(* for, the same in the round directory and in the execution root, with    *)
(* the implementation in the execution root: whatever earlier builds,      *)
(* seeds and compilations left in the two trees.                           *)
CompletedIsBuilt ==
    pc = "answered" /\ build.result = "completed" =>
        /\ workspace = [config |-> [of |-> build.thesis, quality |-> "exact"], code |-> build.thesis]
        /\ source.config = workspace.config

(* The implementation a completed answer runs on can be reviewed: it is in *)
(* the promotion of its thesis or was in the source tree already.          *)
ImplementationIsOnRecord ==
    pc = "answered" /\ build.result = "completed" =>
        build.thesis \in {promotions[build.thesis], source.code}

Delivered ==
    written.config # Nothing /\ ConfigMeets(written, build.thesis) /\ written.code = build.thesis
GoodWorkCompletes == pc \in {"publish", "decide"} /\ Delivered => build.result = "completed"

(* An agent that writes an exact config and the implementation has         *)
(* completed its build, unless the round directory holds the config of     *)
(* another thesis.                                                         *)
OwnGoodWorkCompletes ==
    source.config \in {Nothing} \cup [of : {build.thesis}, quality : {"exact"}] => GoodWorkCompletes

(* A build ends: one retry, then the answer.                               *)
BuildEnds == pc # "idle" ~> pc = "idle"
=============================================================================
