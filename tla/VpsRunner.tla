----------------------------- MODULE VpsRunner -----------------------------
(***************************************************************************)
(* Deployments to one VPS by vps_runner.py: the activity probe, the Git    *)
(* status, the checkout of a release, the environment, and the two remote  *)
(* commands that prepare the launch state and run the controller.          *)
(*                                                                         *)
(* A session is one invocation of main.  A remote command outlives the     *)
(* session that started it: a timeout or a lost connection ends the        *)
(* session only.  Steps of the remote shell commands of several sessions   *)
(* interleave.                                                             *)
(***************************************************************************)
CONSTANTS
    Sessions,       \* invocations of the runner
    Shas,           \* commits a requested ref may resolve to
    Deps,           \* [Shas -> fingerprints of pyproject.toml]
    None,           \* no commit, no fingerprint, no session
    Overlap,        \* environment: whether sessions may run at the same time
    Forced          \* environment: whether operators pass --force

ASSUME ConstantsAssumption ==
    /\ None \notin Sessions /\ None \notin Shas
    /\ \A sha \in Shas : Deps[sha] # None
    /\ Overlap \in BOOLEAN /\ Forced \in BOOLEAN

VARIABLES
    cloned,         \* repo-cache exists
    legacy,         \* HEAD of a checkout in remote_dir itself, or None
    release,        \* releases/<sha>: absent, shared links alone, or whole
    current,        \* target of the link current
    venv,           \* the .venv all releases share: its interpreter, what is installed
                    \* in it, its mark, and whether a removal has taken files of it
    envFile,        \* AUTORESEARCH_RESOLVED_SHA in the uploaded runtime environment
    prepared,       \* the session whose prepare command wrote the state file last
    session,        \* [Sessions -> where main is and the commit it deploys]
    remote          \* [Sessions -> the remote command it started last]

vars == <<cloned, legacy, release, current, venv, envFile, prepared, session, remote>>
host == <<cloned, legacy, release, current, venv, envFile, prepared>>

-----------------------------------------------------------------------------
Fingerprints == {Deps[sha] : sha \in Shas} \cup {None}
Venvs == [exists : BOOLEAN, deps : Fingerprints, mark : Fingerprints, torn : BOOLEAN]
NoVenv == [exists |-> FALSE, deps |-> None, mark |-> None, torn |-> FALSE]
NoSession == [at |-> "idle", sha |-> None]
NoCommand == [kind |-> "none", at |-> "none", knows |-> None]

Command(kind, at) == [NoCommand EXCEPT !.kind = kind, !.at = at]
At(s, kind, at) == remote[s].kind = kind /\ remote[s].at = at
InBootstrap(s, at) == remote[s].kind \in {"prepare", "run"} /\ remote[s].at = at
GoOn(s, at) == remote' = [remote EXCEPT ![s].at = at]

Ended(c) == c.at \in {"none", "done", "failed"}
Live == {s \in Sessions : session[s].at \notin {"idle", "ended"}}

\* The family's controller in the process list: the remote shells that prepare
\* and run it carry its command line, also before they reach the controller.
\* Variant: only a controller that already runs is seen.
RunningControllers == {s \in Sessions : At(s, "run", "running")}
ProcessRunning == {s \in Sessions : remote[s].kind \in {"prepare", "run"} /\ ~Ended(remote[s])}

Init ==
    /\ cloned \in BOOLEAN
    /\ legacy \in Shas \cup {None}
    /\ release = [sha \in Shas |-> "absent"]
    /\ current = None /\ venv = NoVenv /\ envFile = None /\ prepared = None
    /\ session = [s \in Sessions |-> NoSession]
    /\ remote = [s \in Sessions |-> NoCommand]

-----------------------------------------------------------------------------
(* main, up to the checkout.                                               *)

Leave(s) ==
    /\ session' = [session EXCEPT ![s].at = "ended"]
    /\ UNCHANGED <<host, remote>>

Start(s) ==
    /\ session[s].at = "idle"
    /\ Overlap \/ Live = {}
    /\ session' = [session EXCEPT ![s].at = "configure"]
    /\ UNCHANGED <<host, remote>>

\* The environment, with the defaults of a local .env, names the host, a directory
\* on it dedicated to autoresearch, the repository and a plain ref.
Configured(s) ==
    /\ session[s].at = "configure"
    /\ session' = [session EXCEPT ![s].at = "connect"]
    /\ UNCHANGED <<host, remote>>

\* A variable is missing or refused.
ConfigRefused(s) == session[s].at = "configure" /\ Leave(s)

Connect(s) ==
    /\ session[s].at = "connect"
    /\ session' = [session EXCEPT ![s].at = IF Forced THEN "status" ELSE "probe"]
    /\ UNCHANGED <<host, remote>>

\* The host is not reached, or its key is not a known one.
ConnectFails(s) == session[s].at = "connect" /\ Leave(s)

\* On a host with no checkout the probe does not look at the processes.
Probe(s) ==
    /\ session[s].at = "probe"
    /\ LET active == (cloned \/ legacy # None) /\ ProcessRunning # {} IN
       session' = [session EXCEPT ![s].at = IF active THEN "ended" ELSE "status"]
    /\ UNCHANGED <<host, remote>>

\* The status command reports a release as current only if it holds a .git, which
\* git archive does not write; so that only a legacy checkout is ever current.
ReportedCurrent == IF cloned THEN None ELSE legacy

\* The runtime environment is uploaded and the prepare command started.
LaunchPrepare(s, sha) ==
    /\ session' = [session EXCEPT ![s] = [at |-> "env", sha |-> sha]]
    /\ UNCHANGED remote

Status(s) ==
    /\ session[s].at = "status"
    /\ \/ /\ ReportedCurrent # None                     \* _should_skip_git_prepare
          /\ LaunchPrepare(s, ReportedCurrent)
       \/ /\ \E sha \in Shas : sha # ReportedCurrent    \* the ref resolves to another commit
          /\ session' = [session EXCEPT ![s].at = "checkout"]
          /\ remote' = [remote EXCEPT ![s] = Command("git", "fetch")]
    /\ UNCHANGED host

-----------------------------------------------------------------------------
(* build_git_prepare_command on the host.                                  *)

GitFetch(s) ==
    /\ At(s, "git", "fetch")
    /\ cloned' = TRUE
    /\ \E sha \in Shas :
        remote' = [remote EXCEPT ![s].knows = sha,
                                 ![s].at = IF release[sha] = "absent" THEN "extract" ELSE "link"]
    /\ UNCHANGED <<legacy, release, current, venv, envFile, prepared, session>>

\* git archive into a directory named after the shell's pid.
\* Variant: straight into the release directory.
ExtractInPlace(s) ==
    /\ At(s, "git", "extract")
    /\ release' = [release EXCEPT ![remote[s].knows] = IF @ = "absent" THEN "links" ELSE @]
    /\ GoOn(s, "move")
    /\ UNCHANGED <<cloned, legacy, current, venv, envFile, prepared, session>>
GitExtract(s) ==
    /\ At(s, "git", "extract")
    /\ GoOn(s, "move")
    /\ UNCHANGED <<host, session>>

\* mv of a directory onto an existing one moves into it and changes none of its files.
GitMove(s) ==
    /\ At(s, "git", "move")
    /\ release' = [release EXCEPT ![remote[s].knows] = IF @ = "absent" THEN "whole" ELSE @]
    /\ GoOn(s, "link")
    /\ UNCHANGED <<cloned, legacy, current, venv, envFile, prepared, session>>

GitLink(s) ==
    /\ At(s, "git", "link")
    /\ current' = remote[s].knows
    /\ GoOn(s, "done")
    /\ UNCHANGED <<cloned, legacy, release, venv, envFile, prepared, session>>

\* parse_resolved_sha: the commit the checkout itself resolved.
GitAnswer(s) ==
    /\ session[s].at = "checkout"
    /\ At(s, "git", "done")
    /\ LaunchPrepare(s, remote[s].knows)
    /\ UNCHANGED host

-----------------------------------------------------------------------------
(* materialize_remote_runtime_env, then the prepare command.               *)

\* AUTORESEARCH_RESOLVED_SHA is one of the persisted keys: the environment of the
\* operator's machine may name the commit of an older run.
RenderedShas == Shas \cup {None}

UploadEnv(s) ==
    /\ session[s].at = "env"
    /\ envFile' \in RenderedShas
    /\ session' = [session EXCEPT ![s].at = "auth"]
    /\ UNCHANGED <<cloned, legacy, release, current, venv, prepared, remote>>

\* The login of the local Codex goes with it or, whatever fails, does not.
UploadAuth(s) ==
    /\ session[s].at = "auth"
    /\ session' = [session EXCEPT ![s].at = "prepare"]
    /\ remote' = [remote EXCEPT ![s] = Command("prepare", "source")]
    /\ UNCHANGED host

\* The commit is exported after the file has been sourced.
\* Variant: before it.
SourcedSha(s) == IF envFile = None THEN session[s].sha ELSE envFile
ExportedSha(s) == session[s].sha

\* cd into the release fails where there is none; the prepare command makes it.
SourceEnv(s) ==
    /\ InBootstrap(s, "source")
    /\ remote' = [remote EXCEPT
          ![s].knows = ExportedSha(s),
          ![s].at = IF remote[s].kind = "prepare" THEN "links"
                    ELSE IF release[session[s].sha] = "absent" THEN "failed" ELSE "deps"]
    /\ UNCHANGED <<host, session>>

\* _render_release_symlink_bootstrap: mkdir with parents, so that a release that was
\* not checked out comes to hold the shared links and nothing else.
LinkShared(s) ==
    /\ At(s, "prepare", "links")
    /\ release' = [release EXCEPT ![session[s].sha] = IF @ = "absent" THEN "links" ELSE @]
    /\ GoOn(s, "deps")
    /\ UNCHANGED <<cloned, legacy, current, venv, envFile, prepared, session>>

\* The fingerprint of a directory without pyproject.toml is one of its own that
\* nothing can be installed for.
Fingerprint(s) == IF release[session[s].sha] = "whole" THEN Deps[session[s].sha] ELSE None

\* A virtual environment with the mark of other dependencies is to be removed.
CheckDeps(s) ==
    /\ InBootstrap(s, "deps")
    /\ GoOn(s, IF venv.mark \notin {None, Fingerprint(s)} THEN "clear" ELSE "venv")
    /\ UNCHANGED <<host, session>>

\* rm -rf takes the interpreter, the packages and the mark, which is a file of the same
\* directory, one after the other in the order the directory lists them.
RemovePart(s) ==
    /\ InBootstrap(s, "clear")
    /\ venv' \in {[venv EXCEPT !.torn = TRUE, !.exists = FALSE],
                  [venv EXCEPT !.torn = TRUE, !.deps = None],
                  [venv EXCEPT !.torn = TRUE, !.mark = None]}
    /\ GoOn(s, "clear")
    /\ UNCHANGED <<cloned, legacy, release, current, envFile, prepared, session>>

RemovalEnds(s) ==
    /\ InBootstrap(s, "clear")
    /\ venv' = NoVenv
    /\ GoOn(s, "venv")
    /\ UNCHANGED <<cloned, legacy, release, current, envFile, prepared, session>>

MakeVenv(s) ==
    /\ InBootstrap(s, "venv")
    /\ venv' = [venv EXCEPT !.exists = TRUE]
    /\ GoOn(s, IF venv.mark # None /\ venv.mark = Fingerprint(s) THEN "controller" ELSE "install")
    /\ UNCHANGED <<cloned, legacy, release, current, envFile, prepared, session>>

\* pip install -e . needs a project to install and the interpreter to run it.  It takes
\* for installed what the metadata left in a torn environment lists.
\* Variant: the mark is written whether or not the installation succeeds.
InstallAndMark(s) ==
    /\ InBootstrap(s, "install")
    /\ \E deps \in {Fingerprint(s), venv.deps} : venv' = [venv EXCEPT !.deps = deps]
    /\ GoOn(s, "mark")
    /\ UNCHANGED <<cloned, legacy, release, current, envFile, prepared, session>>
PipInstall(s) ==
    /\ InBootstrap(s, "install")
    /\ IF Fingerprint(s) # None /\ venv.exists
       THEN /\ \E deps \in {Fingerprint(s)} \cup (IF venv.torn THEN {None} ELSE {}) :
                venv' = [venv EXCEPT !.deps = deps]
            /\ GoOn(s, "mark")
       ELSE GoOn(s, "failed") /\ UNCHANGED venv
    /\ UNCHANGED <<cloned, legacy, release, current, envFile, prepared, session>>

MarkDeps(s) ==
    /\ InBootstrap(s, "mark")
    /\ venv' = IF venv.exists THEN [venv EXCEPT !.mark = Fingerprint(s)] ELSE venv
    /\ GoOn(s, IF venv.exists THEN "controller" ELSE "failed")
    /\ UNCHANGED <<cloned, legacy, release, current, envFile, prepared, session>>

CanStart(s) == release[session[s].sha] = "whole" /\ venv.exists

\* autoresearch_controller.py --prepare-launch-state-only writes the state file.
PrepareState(s) ==
    /\ At(s, "prepare", "controller")
    /\ prepared' = IF CanStart(s) THEN s ELSE prepared
    /\ GoOn(s, IF CanStart(s) THEN "done" ELSE "failed")
    /\ UNCHANGED <<cloned, legacy, release, current, venv, envFile, session>>

PrepareAnswer(s) ==
    /\ session[s].at = "prepare"
    /\ At(s, "prepare", "done")
    /\ session' = [session EXCEPT ![s].at = "run"]
    /\ remote' = [remote EXCEPT ![s] = Command("run", "source")]
    /\ UNCHANGED host

RunController(s) ==
    /\ At(s, "run", "controller")
    /\ GoOn(s, IF CanStart(s) THEN "running" ELSE "failed")
    /\ UNCHANGED <<host, session>>

ControllerEnds(s) ==
    /\ At(s, "run", "running")
    /\ GoOn(s, "done")
    /\ UNCHANGED <<host, session>>

-----------------------------------------------------------------------------
(* Failures.                                                               *)

\* A remote command fails at any of its steps: network, disk, pip, a killed process.
RemoteFails(s) ==
    /\ ~Ended(remote[s])
    /\ GoOn(s, "failed")
    /\ UNCHANGED <<host, session>>

\* The probe, the status or the checkout fails, answers with nothing that can be
\* parsed, or is given up after its time limit: the command itself goes on.
CheckFails(s) == session[s].at \in {"probe", "status", "checkout"} /\ Leave(s)

UploadFails(s) == session[s].at = "env" /\ Leave(s)

\* The prepare command has failed or has ended without a result that says ok.
PrepareRefused(s) == session[s].at = "prepare" /\ Ended(remote[s]) /\ Leave(s)

\* The channel is closed on a command that reports nothing in time, or that lingers
\* after its success marker; either way the exit code is that of a timeout.
PrepareTimesOut(s) == session[s].at = "prepare" /\ Leave(s)

\* The stream of the run ends with its command or breaks before it.
RunStreamEnds(s) == session[s].at = "run" /\ Leave(s)

Next == \E s \in Sessions :
    \/ Start(s) \/ Configured(s) \/ ConfigRefused(s) \/ Connect(s) \/ ConnectFails(s)
    \/ Probe(s) \/ Status(s) \/ CheckFails(s)
    \/ GitFetch(s) \/ GitExtract(s) \/ GitMove(s) \/ GitLink(s) \/ GitAnswer(s)
    \/ UploadEnv(s) \/ UploadFails(s) \/ UploadAuth(s) \/ SourceEnv(s) \/ LinkShared(s)
    \/ CheckDeps(s) \/ RemovePart(s) \/ RemovalEnds(s)
    \/ MakeVenv(s) \/ PipInstall(s) \/ MarkDeps(s)
    \/ PrepareState(s) \/ PrepareAnswer(s) \/ PrepareRefused(s) \/ PrepareTimesOut(s)
    \/ RunController(s) \/ ControllerEnds(s) \/ RunStreamEnds(s) \/ RemoteFails(s)

Spec == Init /\ [][Next]_vars

-----------------------------------------------------------------------------
(* Type invariant of the host, the sessions and the remote commands of     *)
(* vps_runner.main.                                                        *)
TypeOK ==
    /\ cloned \in BOOLEAN
    /\ legacy \in Shas \cup {None} /\ current \in Shas \cup {None}
    /\ release \in [Shas -> {"absent", "links", "whole"}]
    /\ venv \in Venvs
    /\ envFile \in Shas \cup {None}
    /\ prepared \in Sessions \cup {None}
    /\ session \in [Sessions ->
         [at : {"idle", "configure", "connect", "probe", "status", "checkout", "env", "auth",
                "prepare", "run", "ended"},
          sha : Shas \cup {None}]]
    /\ remote \in [Sessions ->
         [kind : {"none", "git", "prepare", "run"},
          at : {"none", "fetch", "extract", "move", "link", "source", "links", "deps", "clear", "venv",
                "install", "mark", "controller", "running", "done", "failed"},
          knows : Shas \cup {None}]]

(* Without --force no two sessions prepare or run the family's controller  *)
(* at the same time on the one state file: the activity probe sees the     *)
(* commands that sessions now gone have left running.                      *)
OneController == \A s, t \in ProcessRunning : s = t

(* A release directory that exists holds the whole commit: main reports a  *)
(* warm checkout for a commit that is already on the host, and later       *)
(* deployments take an existing directory as it is.                        *)
ReleasesAreWhole == \A sha \in Shas : release[sha] # "links"

(* On a host without a checkout of the older layout every release is       *)
(* whole, whatever checkout died or ran beside another.                    *)
CheckedOutReleasesAreWhole == legacy = None => ReleasesAreWhole

(* A running controller runs the commit its session resolved: its code and *)
(* its AUTORESEARCH_RESOLVED_SHA are that commit's, the state file is the  *)
(* one its own session prepared, and its dependencies are that commit's    *)
(* whichever installation died or was marked for another commit; only an   *)
(* environment whose removal was cut short, whose mark can be left beside  *)
(* packages that are gone, may lack some.                                  *)
ControllerRunsItsLaunch == \A s \in RunningControllers :
    /\ release[session[s].sha] = "whole"
    /\ remote[s].knows = session[s].sha
    /\ venv.deps = Deps[session[s].sha] \/ (venv.torn /\ venv.deps = None)
    /\ prepared = s
=============================================================================
