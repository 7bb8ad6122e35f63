-------------------------- MODULE VpsRunnerProofs --------------------------
(***************************************************************************)
(* Releases are whole whatever sessions overlap; and where operators run   *)
(* one session at a time and do not force, there is one controller, and it *)
(* runs what its own session resolved, installed and prepared: for any     *)
(* number of sessions, commits and commands left running.                  *)
(***************************************************************************)
EXTENDS VpsRunner, TLAPS

SessionPlaces == {"idle", "configure", "connect", "probe", "status", "checkout", "env", "auth",
                  "prepare", "run", "ended"}
CommandPlaces == {"none", "fetch", "extract", "move", "link", "source", "links", "deps",
                  "clear", "venv", "install", "mark", "controller", "running", "done", "failed"}
SessionRecords == [at : SessionPlaces, sha : Shas \cup {None}]
CommandRecords ==
    [kind : {"none", "git", "prepare", "run"}, at : CommandPlaces, knows : Shas \cup {None}]

HostTyped ==
    /\ cloned \in BOOLEAN
    /\ legacy \in Shas \cup {None} /\ current \in Shas \cup {None}
    /\ release \in [Shas -> {"absent", "links", "whole"}]
    /\ venv \in Venvs
    /\ envFile \in Shas \cup {None}
    /\ prepared \in Sessions \cup {None}

\* Places of a session that has resolved its commit.
Resolved == {"env", "auth", "prepare", "run"}
Bootstrapping == {"prepare", "run"}

\* What a session or a checkout says it deploys is a commit.
KnowsCommit(s) ==
    /\ session[s].at \in Resolved \/ remote[s].kind \in Bootstrapping => session[s].sha \in Shas
    /\ remote[s].kind = "git" /\ remote[s].at \notin {"fetch", "failed"} =>
          remote[s].knows \in Shas

RecordsTyped == session \in [Sessions -> SessionRecords] /\ remote \in [Sessions -> CommandRecords]

Typed == HostTyped /\ RecordsTyped /\ \A s \in Sessions : KnowsCommit(s)

LEMMA InitTyped == Init => Typed
BY ConstantsAssumption
DEF Init, Typed, HostTyped, RecordsTyped, KnowsCommit, SessionRecords, CommandRecords,
    SessionPlaces, CommandPlaces, NoVenv, Venvs, NoSession, NoCommand, Fingerprints, Resolved,
    Bootstrapping

\* The steps of main that touch no part of the host and start no command.
LEMMA SessionStepsTyped ==
    ASSUME Typed, NEW s \in Sessions,
           Start(s) \/ Configured(s) \/ ConfigRefused(s) \/ Connect(s) \/ ConnectFails(s)
           \/ Probe(s) \/ CheckFails(s) \/ UploadFails(s) \/ PrepareRefused(s)
           \/ PrepareTimesOut(s) \/ RunStreamEnds(s)
    PROVE  Typed'
<1>1. PICK place \in {"configure", "connect", "probe", "status", "ended"} :
        /\ session' = [session EXCEPT ![s].at = place]
        /\ UNCHANGED <<host, remote>>
  BY ConstantsAssumption
  DEF Start, Configured, ConfigRefused, Connect, ConnectFails, Probe, CheckFails, UploadFails,
      PrepareRefused, PrepareTimesOut, RunStreamEnds, Leave
<1>2. HostTyped'
  BY <1>1 DEF Typed, HostTyped, host
<1>3. RecordsTyped'
  BY <1>1 DEF Typed, RecordsTyped, SessionRecords, SessionPlaces
<1>4. \A t \in Sessions : KnowsCommit(t)'
  BY <1>1 DEF Typed, RecordsTyped, SessionRecords, KnowsCommit, Resolved
<1> QED
  BY <1>2, <1>3, <1>4 DEF Typed

\* The steps by which main goes from one command to the next.
LEMMA CommandStepsTyped ==
    ASSUME Typed, NEW s \in Sessions,
           Status(s) \/ GitAnswer(s) \/ UploadEnv(s) \/ UploadAuth(s) \/ PrepareAnswer(s)
    PROVE  Typed'
<1>1. HostTyped'
  BY DEF Typed, HostTyped, Status, GitAnswer, UploadEnv, UploadAuth, PrepareAnswer, RenderedShas,
         LaunchPrepare, host
<1>2. ASSUME NEW sha \in Shas, LaunchPrepare(s, sha)
      PROVE  RecordsTyped' /\ \A t \in Sessions : KnowsCommit(t)'
  <2>1. RecordsTyped'
    BY <1>2 DEF Typed, RecordsTyped, SessionRecords, SessionPlaces, LaunchPrepare
  <2>2. \A t \in Sessions : KnowsCommit(t)'
    BY <1>2 DEF Typed, RecordsTyped, SessionRecords, KnowsCommit, LaunchPrepare
  <2> QED
    BY <2>1, <2>2
<1>3. ASSUME NEW place \in {"checkout", "auth", "prepare", "run"},
             NEW command \in CommandRecords,
             session' = [session EXCEPT ![s].at = place],
             remote' = [remote EXCEPT ![s] = command],
             place = "checkout" \/ session[s].at \in Resolved,
             command.kind = "git" => command.at = "fetch" \/ command = remote[s],
             place = "checkout" => command.kind = "git"
      PROVE  RecordsTyped' /\ \A t \in Sessions : KnowsCommit(t)'
  <2>1. RecordsTyped'
    BY <1>3 DEF Typed, RecordsTyped, SessionRecords, SessionPlaces
  <2>2. \A t \in Sessions : KnowsCommit(t)'
    BY <1>3 DEF Typed, RecordsTyped, SessionRecords, KnowsCommit, Resolved, Bootstrapping
  <2> QED
    BY <2>1, <2>2
<1>4. ASSUME NEW kind \in {"git", "prepare", "run"}, NEW place \in {"fetch", "source"}
      PROVE  /\ Command(kind, place) \in CommandRecords
             /\ Command(kind, place).kind = kind /\ Command(kind, place).at = place
  BY DEF Command, NoCommand, CommandRecords, CommandPlaces
<1>5. CASE Status(s)
  <2>1. CASE ReportedCurrent # None /\ LaunchPrepare(s, ReportedCurrent)
    BY <1>1, <1>2, <2>1 DEF Typed, HostTyped, ReportedCurrent
  <2>2. CASE /\ session' = [session EXCEPT ![s].at = "checkout"]
             /\ remote' = [remote EXCEPT ![s] = Command("git", "fetch")]
    BY <1>1, <1>3, <1>4, <2>2 DEF Typed
  <2> QED
    BY <1>5, <2>1, <2>2 DEF Status
<1>6. CASE GitAnswer(s)
  <2>1. remote[s].knows \in Shas
    BY <1>6 DEF Typed, KnowsCommit, GitAnswer, At
  <2> QED
    BY <1>1, <1>2, <1>6, <2>1 DEF Typed, GitAnswer
<1>7. CASE UploadEnv(s)
  <2>1. remote[s] \in CommandRecords /\ remote' = [remote EXCEPT ![s] = remote[s]]
    BY <1>7 DEF Typed, RecordsTyped, UploadEnv
  <2> QED
    BY <1>1, <1>3, <1>7, <2>1 DEF Typed, UploadEnv, Resolved
<1>8. CASE UploadAuth(s) \/ PrepareAnswer(s)
  BY <1>1, <1>3, <1>4, <1>8 DEF Typed, UploadAuth, PrepareAnswer, Resolved
<1> QED
  BY <1>5, <1>6, <1>7, <1>8

\* A step of a command that does not change what the command knows.
LEMMA MovesTyped ==
    ASSUME Typed, HostTyped', NEW s \in Sessions, NEW place \in CommandPlaces,
           GoOn(s, place), UNCHANGED session,
           place = "failed" \/ remote[s].kind # "git" \/ remote[s].knows \in Shas
    PROVE  Typed'
<1>1. RecordsTyped'
  BY DEF Typed, RecordsTyped, CommandRecords, GoOn
<1>2. \A t \in Sessions : KnowsCommit(t)'
  BY DEF Typed, RecordsTyped, CommandRecords, KnowsCommit, GoOn
<1> QED
  BY <1>1, <1>2 DEF Typed

\* The checkout on the host.
LEMMA GitStepsTyped ==
    ASSUME Typed, NEW s \in Sessions,
           GitFetch(s) \/ GitExtract(s) \/ GitMove(s) \/ GitLink(s)
    PROVE  Typed'
<1>1. HostTyped'
  BY DEF Typed, HostTyped, RecordsTyped, KnowsCommit, CommandRecords, GitFetch, GitExtract, GitMove,
         GitLink, At, host
<1>2. CASE GitFetch(s)
  <2>1. PICK sha \in Shas, place \in {"extract", "link"} :
          remote' = [remote EXCEPT ![s].knows = sha, ![s].at = place]
    BY <1>2 DEF GitFetch
  <2>a. [remote[s] EXCEPT !.knows = sha, !.at = place] \in CommandRecords
    BY DEF Typed, RecordsTyped, CommandRecords, CommandPlaces
  <2>2. RecordsTyped'
    BY <1>2, <2>1, <2>a DEF Typed, RecordsTyped, GitFetch
  <2>3. \A t \in Sessions : KnowsCommit(t)'
    BY <1>2, <2>1 DEF Typed, RecordsTyped, CommandRecords, KnowsCommit, GitFetch, At
  <2> QED
    BY <1>1, <2>2, <2>3 DEF Typed
<1>3. CASE GitExtract(s) \/ GitMove(s) \/ GitLink(s)
  <2>1. remote[s].knows \in Shas
    BY <1>3 DEF Typed, KnowsCommit, GitExtract, GitMove, GitLink, At
  <2> QED
    BY <1>1, <1>3, <2>1, MovesTyped DEF GitExtract, GitMove, GitLink, CommandPlaces, host
<1> QED
  BY <1>2, <1>3

\* Preparing and running on the host.
LEMMA BootstrapStepsTyped ==
    ASSUME Typed, NEW s \in Sessions,
           SourceEnv(s) \/ LinkShared(s) \/ CheckDeps(s) \/ RemovePart(s) \/ RemovalEnds(s)
           \/ MakeVenv(s) \/ PipInstall(s)
           \/ MarkDeps(s) \/ PrepareState(s) \/ RunController(s) \/ ControllerEnds(s)
           \/ RemoteFails(s)
    PROVE  Typed'
<1>1. InBootstrap(s, remote[s].at) => session[s].sha \in Shas /\ Fingerprint(s) \in Fingerprints
  BY DEF Typed, KnowsCommit, InBootstrap, Fingerprint, Fingerprints, Bootstrapping
<1>2. CASE SourceEnv(s)
  <2>1. PICK place \in {"links", "failed", "deps"} :
          remote' = [remote EXCEPT ![s].knows = session[s].sha, ![s].at = place]
    BY <1>2 DEF SourceEnv, ExportedSha
  <2>2. HostTyped'
    BY <1>2 DEF Typed, HostTyped, SourceEnv, host
  <2>a. session[s].sha \in Shas /\ UNCHANGED session
    BY <1>1, <1>2 DEF SourceEnv, InBootstrap
  <2>b. [remote[s] EXCEPT !.knows = session[s].sha, !.at = place] \in CommandRecords
    BY <2>a DEF Typed, RecordsTyped, CommandRecords, CommandPlaces
  <2>3. RecordsTyped'
    BY <2>1, <2>a, <2>b DEF Typed, RecordsTyped
  <2>4. \A t \in Sessions : KnowsCommit(t)'
    BY <1>2, <2>1 DEF Typed, RecordsTyped, CommandRecords, KnowsCommit, SourceEnv, InBootstrap
  <2> QED
    BY <2>2, <2>3, <2>4 DEF Typed
<1>3. CASE LinkShared(s) \/ PrepareState(s)
  <2>1. HostTyped'
    BY <1>3 DEF Typed, HostTyped, LinkShared, PrepareState
  <2> QED
    BY <1>3, <2>1, MovesTyped DEF LinkShared, PrepareState, At, CommandPlaces
<1>4. CASE \/ CheckDeps(s) \/ RemovePart(s) \/ RemovalEnds(s)
          \/ MakeVenv(s) \/ PipInstall(s) \/ MarkDeps(s)
  <2>a. Fingerprint(s) \in Fingerprints /\ None \in Fingerprints
    BY <1>1, <1>4
    DEF CheckDeps, RemovePart, RemovalEnds, MakeVenv, PipInstall, MarkDeps, InBootstrap,
        Fingerprints
  <2>b. venv' \in Venvs
    <3>a. CASE CheckDeps(s)
      BY <3>a DEF Typed, HostTyped, CheckDeps, host
    <3>1. CASE RemovalEnds(s)
      BY <2>a, <3>1 DEF RemovalEnds, NoVenv, Venvs
    <3>b. CASE RemovePart(s)
      <4>1. PICK exists \in BOOLEAN, deps \in Fingerprints, mark \in Fingerprints :
              venv' = [venv EXCEPT !.torn = TRUE, !.exists = exists]
              \/ venv' = [venv EXCEPT !.torn = TRUE, !.deps = deps]
              \/ venv' = [venv EXCEPT !.torn = TRUE, !.mark = mark]
        BY <2>a, <3>b DEF RemovePart
      <4> QED
        BY <4>1 DEF Typed, HostTyped, Venvs
    <3>2. CASE MakeVenv(s)
      BY <3>2 DEF Typed, HostTyped, MakeVenv, Venvs
    <3>3. CASE PipInstall(s)
      BY <2>a, <3>3 DEF Typed, HostTyped, PipInstall, Venvs
    <3>4. CASE MarkDeps(s)
      BY <2>a, <3>4 DEF Typed, HostTyped, MarkDeps, Venvs
    <3> QED
      BY <1>4, <3>a, <3>1, <3>b, <3>2, <3>3, <3>4
  <2>1. HostTyped'
    BY <1>4, <2>b
    DEF Typed, HostTyped, CheckDeps, RemovePart, RemovalEnds, MakeVenv, PipInstall, MarkDeps,
        host
  <2>2. PICK place \in CommandPlaces : GoOn(s, place)
    BY <1>4 DEF CheckDeps, RemovePart, RemovalEnds, MakeVenv, PipInstall, MarkDeps, CommandPlaces
  <2> QED
    BY <1>4, <2>1, <2>2, MovesTyped
    DEF CheckDeps, RemovePart, RemovalEnds, MakeVenv, PipInstall, MarkDeps, InBootstrap, host
<1>5. CASE RunController(s) \/ ControllerEnds(s) \/ RemoteFails(s)
  <2>1. HostTyped'
    BY <1>5 DEF Typed, HostTyped, RunController, ControllerEnds, RemoteFails, host
  <2> QED
    BY <1>5, <2>1, MovesTyped DEF RunController, ControllerEnds, RemoteFails, At, CommandPlaces
<1> QED
  BY <1>2, <1>3, <1>4, <1>5

LEMMA StepTyped == Typed /\ [Next]_vars => Typed'
<1>1. CASE UNCHANGED vars
  BY <1>1 DEF Typed, HostTyped, RecordsTyped, KnowsCommit, vars
<1>2. CASE Next
  BY <1>2, SessionStepsTyped, CommandStepsTyped, GitStepsTyped, BootstrapStepsTyped DEF Next
<1> QED
  BY <1>1, <1>2

\* Every variable keeps its type, and every session deploys a commit.
THEOREM TypeCorrect == Spec => []TypeOK
<1>1. Typed => TypeOK
  BY DEF Typed, HostTyped, RecordsTyped, TypeOK, SessionRecords, CommandRecords, SessionPlaces,
         CommandPlaces
<1> QED
  BY InitTyped, StepTyped, <1>1, PTL DEF Spec

-----------------------------------------------------------------------------
(* Releases.                                                               *)

\* A commit that is deployed, or that a checkout is about to link, is on the host.
Checked ==
    /\ \A s \in Sessions : session[s].at \in Resolved \/ remote[s].kind \in Bootstrapping =>
          release[session[s].sha] = "whole"
    /\ \A s \in Sessions : remote[s].kind = "git" /\ remote[s].at \in {"link", "done"} =>
          release[remote[s].knows] = "whole"

Whole == Typed /\ (legacy = None => ReleasesAreWhole /\ Checked)

LEMMA InitWhole == Init => Whole
BY InitTyped, ConstantsAssumption
DEF Init, Whole, ReleasesAreWhole, Checked, NoSession, NoCommand, Resolved, Bootstrapping

LEMMA LegacyStays == [Next]_vars => legacy' = legacy
BY DEF Next, vars, Start, Configured, ConfigRefused, Connect, ConnectFails, Probe, Status,
       CheckFails, GitFetch, GitExtract, GitMove, GitLink, GitAnswer, UploadEnv, UploadFails,
       UploadAuth, SourceEnv, LinkShared, CheckDeps, RemovePart, RemovalEnds, MakeVenv,
       PipInstall, MarkDeps, PrepareState, PrepareAnswer, PrepareRefused, PrepareTimesOut,
       RunController, ControllerEnds, RunStreamEnds, RemoteFails, Leave, LaunchPrepare, host

LEMMA SessionStepsChecked ==
    ASSUME Typed, Checked, ReleasesAreWhole, NEW s \in Sessions,
           Start(s) \/ Configured(s) \/ ConfigRefused(s) \/ Connect(s) \/ ConnectFails(s)
           \/ Probe(s) \/ CheckFails(s) \/ UploadFails(s) \/ PrepareRefused(s)
           \/ PrepareTimesOut(s) \/ RunStreamEnds(s)
    PROVE  ReleasesAreWhole' /\ Checked'
<1>1. PICK place \in {"configure", "connect", "probe", "status", "ended"} :
        /\ session' = [session EXCEPT ![s].at = place]
        /\ UNCHANGED <<release, remote>>
  BY ConstantsAssumption
  DEF Start, Configured, ConfigRefused, Connect, ConnectFails, Probe, CheckFails, UploadFails,
      PrepareRefused, PrepareTimesOut, RunStreamEnds, Leave, host
<1> QED
  BY <1>1 DEF Typed, RecordsTyped, SessionRecords, Checked, ReleasesAreWhole, Resolved

LEMMA CommandStepsChecked ==
    ASSUME Typed, legacy = None, Checked, ReleasesAreWhole, NEW s \in Sessions,
           Status(s) \/ GitAnswer(s) \/ UploadEnv(s) \/ UploadAuth(s) \/ PrepareAnswer(s)
    PROVE  ReleasesAreWhole' /\ Checked'
<1>1. CASE Status(s)
  <2>1. session' = [session EXCEPT ![s].at = "checkout"]
        /\ remote' = [remote EXCEPT ![s] = Command("git", "fetch")] /\ UNCHANGED release
    BY <1>1 DEF Status, ReportedCurrent, host
  <2> QED
    BY <2>1
    DEF Typed, RecordsTyped, SessionRecords, Checked, ReleasesAreWhole, Command, NoCommand,
        Resolved, Bootstrapping
<1>2. CASE GitAnswer(s)
  BY <1>2
  DEF Typed, RecordsTyped, SessionRecords, Checked, ReleasesAreWhole, GitAnswer, At,
      LaunchPrepare, host, Bootstrapping
<1>3. CASE UploadEnv(s)
  BY <1>3
  DEF Typed, RecordsTyped, SessionRecords, Checked, ReleasesAreWhole, UploadEnv, Resolved
<1>4. CASE UploadAuth(s) \/ PrepareAnswer(s)
  <2>1. PICK kind \in Bootstrapping :
          /\ remote' = [remote EXCEPT ![s] = Command(kind, "source")]
          /\ session' = [session EXCEPT ![s].at = kind]
          /\ UNCHANGED release /\ session[s].at \in Resolved
    BY <1>4 DEF UploadAuth, PrepareAnswer, host, Resolved, Bootstrapping
  <2> QED
    BY <2>1
    DEF Typed, RecordsTyped, SessionRecords, Checked, ReleasesAreWhole, Command, NoCommand,
        Resolved, Bootstrapping
<1> QED
  BY <1>1, <1>2, <1>3, <1>4

LEMMA GitStepsChecked ==
    ASSUME Typed, Checked, ReleasesAreWhole, NEW s \in Sessions,
           GitFetch(s) \/ GitExtract(s) \/ GitMove(s) \/ GitLink(s)
    PROVE  ReleasesAreWhole' /\ Checked'
<1>1. CASE GitFetch(s)
  <2>1. PICK sha \in Shas :
          remote' = [remote EXCEPT ![s].knows = sha,
                                   ![s].at = IF release[sha] = "absent" THEN "extract" ELSE "link"]
    BY <1>1 DEF GitFetch
  <2>2. UNCHANGED <<release, session>> /\ remote[s].kind = "git"
    BY <1>1 DEF GitFetch, At
  <2>3. release[sha] \in {"absent", "whole"}
    BY DEF Typed, HostTyped, ReleasesAreWhole
  <2>4. CASE release[sha] = "absent"
    BY <2>1, <2>2, <2>4
    DEF Typed, RecordsTyped, CommandRecords, Checked, ReleasesAreWhole, Bootstrapping
  <2>5. CASE release[sha] = "whole"
    BY <2>1, <2>2, <2>5
    DEF Typed, RecordsTyped, CommandRecords, Checked, ReleasesAreWhole, Bootstrapping
  <2> QED
    BY <2>3, <2>4, <2>5
<1>2. CASE GitExtract(s)
  BY <1>2
  DEF Typed, RecordsTyped, CommandRecords, Checked, ReleasesAreWhole, GitExtract, At, GoOn,
      host, Bootstrapping
<1>3. CASE GitMove(s)
  <2>1. /\ remote' = [remote EXCEPT ![s].at = "link"] /\ UNCHANGED session
        /\ remote[s].kind = "git" /\ remote[s].knows \in Shas
    BY <1>3 DEF Typed, KnowsCommit, GitMove, At, GoOn
  <2>2. \A sha \in Shas : release'[sha] = IF sha = remote[s].knows THEN "whole" ELSE release[sha]
    BY <1>3, <2>1 DEF Typed, HostTyped, ReleasesAreWhole, GitMove
  <2>3. ReleasesAreWhole'
    BY <2>2 DEF ReleasesAreWhole
  <2>4. \A sha \in Shas : release[sha] = "whole" => release'[sha] = "whole"
    BY <2>2
  <2> QED
    BY <2>1, <2>2, <2>3, <2>4
    DEF Typed, RecordsTyped, CommandRecords, KnowsCommit, Checked, Bootstrapping
<1>4. CASE GitLink(s)
  BY <1>4
  DEF Typed, RecordsTyped, CommandRecords, Checked, ReleasesAreWhole, GitLink, At, GoOn,
      Bootstrapping
<1> QED
  BY <1>1, <1>2, <1>3, <1>4

LEMMA BootstrapStepsChecked ==
    ASSUME Typed, Checked, ReleasesAreWhole, NEW s \in Sessions,
           SourceEnv(s) \/ LinkShared(s) \/ CheckDeps(s) \/ RemovePart(s) \/ RemovalEnds(s)
           \/ MakeVenv(s) \/ PipInstall(s)
           \/ MarkDeps(s) \/ PrepareState(s) \/ RunController(s) \/ ControllerEnds(s)
           \/ RemoteFails(s)
    PROVE  ReleasesAreWhole' /\ Checked'
<1>1. CASE RemoteFails(s)
  BY <1>1
  DEF Typed, RecordsTyped, CommandRecords, Checked, ReleasesAreWhole, RemoteFails, GoOn, host
<1>2. CASE ~RemoteFails(s)
  <2>1. remote[s].kind \in Bootstrapping /\ release[session[s].sha] = "whole"
        /\ session[s].sha \in Shas
    BY <1>2
    DEF Typed, KnowsCommit, Checked, SourceEnv, LinkShared, CheckDeps, RemovePart, RemovalEnds,
        MakeVenv, PipInstall, MarkDeps, PrepareState, RunController, ControllerEnds, At,
        InBootstrap, Bootstrapping
  <2>2. UNCHANGED <<release, session>>
    BY <1>2, <2>1
    DEF Typed, HostTyped, SourceEnv, LinkShared, CheckDeps, RemovePart, RemovalEnds, MakeVenv,
        PipInstall, MarkDeps, PrepareState, RunController, ControllerEnds, host
  <2>3. \A t \in Sessions :
          remote'[t].kind = remote[t].kind /\ (t # s => remote'[t] = remote[t])
    BY <1>2
    DEF Typed, RecordsTyped, CommandRecords, SourceEnv, LinkShared, CheckDeps, RemovePart,
        RemovalEnds, MakeVenv, PipInstall, MarkDeps, PrepareState, RunController, ControllerEnds,
        GoOn
  <2> QED
    BY <2>1, <2>2, <2>3 DEF Checked, ReleasesAreWhole, Bootstrapping
<1> QED
  BY <1>1, <1>2

LEMMA StepWhole == Whole /\ [Next]_vars => Whole'
<1>1. SUFFICES ASSUME Whole, [Next]_vars, legacy = None PROVE ReleasesAreWhole' /\ Checked'
  BY StepTyped, LegacyStays DEF Whole
<1>2. Typed /\ ReleasesAreWhole /\ Checked
  BY <1>1 DEF Whole
<1>3. CASE UNCHANGED vars
  BY <1>2, <1>3 DEF vars, ReleasesAreWhole, Checked
<1>4. CASE Next
  BY <1>1, <1>2, <1>4, SessionStepsChecked, CommandStepsChecked, GitStepsChecked,
     BootstrapStepsChecked DEF Next
<1> QED
  BY <1>1, <1>3, <1>4

\* On a host without a checkout of the older layout every release is whole, with any
\* number of sessions side by side, forced or not.
THEOREM ReleasesTheorem == Spec => []CheckedOutReleasesAreWhole
<1>1. Whole => CheckedOutReleasesAreWhole
  BY DEF Whole, CheckedOutReleasesAreWhole
<1> QED
  BY InitWhole, StepWhole, <1>1, PTL DEF Spec

-----------------------------------------------------------------------------
(* One controller.                                                         *)

\* Where sessions do not overlap and none is forced: a session that goes past the
\* probe has seen no process, and one that has started a command of its own knows
\* of no other.
Serial ==
    /\ \A s, t \in Live : s = t
    /\ \A s \in Sessions :
          session[s].at \in {"status", "checkout", "env", "auth"} => ProcessRunning = {}
    /\ \A s \in Sessions : session[s].at \in Bootstrapping => ProcessRunning \subseteq {s}

\* A process is on a host with a checkout, where the probe looks for it.
ProcessIsSeen ==
    /\ ProcessRunning # {} => cloned \/ legacy # None
    /\ \A s \in Sessions : session[s].at \in Resolved => cloned \/ legacy # None
    /\ \A s \in Sessions :
          remote[s].kind = "git" /\ remote[s].at \notin {"fetch", "failed"} => cloned

Single == Typed /\ Serial /\ ProcessIsSeen /\ OneController

LEMMA InitSingle == Init => Single
BY InitTyped
DEF Init, Single, Serial, ProcessIsSeen, OneController, ProcessRunning, Ended, Live, NoSession,
    NoCommand, Resolved, Bootstrapping

LEMMA SessionStepsSingle ==
    ASSUME Single, Overlap = FALSE, Forced = FALSE, NEW s \in Sessions,
           Start(s) \/ Configured(s) \/ ConfigRefused(s) \/ Connect(s) \/ ConnectFails(s)
           \/ Probe(s) \/ CheckFails(s) \/ UploadFails(s) \/ PrepareRefused(s)
           \/ PrepareTimesOut(s) \/ RunStreamEnds(s)
    PROVE  Serial' /\ ProcessIsSeen' /\ OneController'
<1>1. PICK place \in {"configure", "connect", "probe", "status", "ended"} :
        /\ session' = [session EXCEPT ![s].at = place]
        /\ UNCHANGED <<host, remote>>
        /\ session[s].at = "idle" => Live = {}
        /\ session[s].at # "ended"
        /\ place = "status" => ~((cloned \/ legacy # None) /\ ProcessRunning # {})
  BY DEF Single, Typed, Start, Configured, ConfigRefused, Connect, ConnectFails, Probe,
         CheckFails, UploadFails, PrepareRefused, PrepareTimesOut, RunStreamEnds, Leave
<1>2. ProcessRunning' = ProcessRunning /\ UNCHANGED <<cloned, legacy>>
  BY <1>1 DEF ProcessRunning, Ended, host
<1>3. \A t \in Sessions : /\ t # s => session'[t] = session[t]
                          /\ session'[s].at = place
  BY <1>1 DEF Single, Typed, RecordsTyped, SessionRecords
<1>4. place = "status" => ProcessRunning = {}
  BY <1>1 DEF Single, ProcessIsSeen
<1>5. Serial'
  <2>1. \A t, u \in Live' : t = u
    BY <1>1, <1>3 DEF Single, Serial, Live
  <2> QED
    BY <1>2, <1>3, <1>4, <2>1 DEF Single, Serial, Bootstrapping
<1>6. ProcessIsSeen'
  BY <1>1, <1>2, <1>3 DEF Single, ProcessIsSeen, Resolved
<1>7. OneController'
  BY <1>2 DEF Single, OneController
<1> QED
  BY <1>5, <1>6, <1>7

LEMMA CommandStepsSingle ==
    ASSUME Single, NEW s \in Sessions,
           Status(s) \/ GitAnswer(s) \/ UploadEnv(s) \/ UploadAuth(s) \/ PrepareAnswer(s)
    PROVE  Serial' /\ ProcessIsSeen' /\ OneController'
<1>1. CASE Status(s) \/ GitAnswer(s) \/ UploadEnv(s)
  <2>1. PICK place \in {"checkout", "env", "auth"} :
          \A t \in Sessions :
            session'[t].at = IF t = s THEN place ELSE session[t].at
    BY <1>1
    DEF Single, Typed, RecordsTyped, SessionRecords, Status, GitAnswer, UploadEnv, LaunchPrepare
  <2>2. session[s].at \in {"status", "checkout", "env"} /\ UNCHANGED <<cloned, legacy>>
        /\ (place # "checkout" => cloned \/ legacy # None)
    BY <1>1, <2>1
    DEF Single, ProcessIsSeen, Typed, RecordsTyped, SessionRecords, Status, GitAnswer, UploadEnv,
        LaunchPrepare, ReportedCurrent, At, host, Resolved
  <2>3. \A t \in Sessions :
          remote'[t] = remote[t] \/ (remote'[t].kind = "git" /\ remote'[t].at = "fetch")
    BY <1>1
    DEF Single, Typed, RecordsTyped, CommandRecords, Status, GitAnswer, UploadEnv, LaunchPrepare,
        Command, NoCommand
  <2>4. ProcessRunning = {} /\ ProcessRunning' = {}
    BY <2>2, <2>3 DEF Single, Serial, ProcessRunning, Ended
  <2>5. Live' = Live
    BY <2>1, <2>2 DEF Live
  <2> QED
    BY <2>1, <2>2, <2>3, <2>4, <2>5
    DEF Single, Serial, ProcessIsSeen, OneController, Resolved, Bootstrapping
<1>2. CASE UploadAuth(s) \/ PrepareAnswer(s)
  <2>0. PICK place \in Bootstrapping :
          /\ session' = [session EXCEPT ![s].at = place]
          /\ remote' = [remote EXCEPT ![s] = Command(place, "source")]
    BY <1>2 DEF UploadAuth, PrepareAnswer, Bootstrapping
  <2>1. \A t \in Sessions :
            /\ session'[t].at = IF t = s THEN place ELSE session[t].at
            /\ t # s => remote'[t] = remote[t]
            /\ remote'[s].kind = place
    BY <2>0
    DEF Single, Typed, RecordsTyped, SessionRecords, CommandRecords, Command, NoCommand
  <2>2. session[s].at \in {"auth", "prepare"} /\ UNCHANGED <<cloned, legacy>>
    BY <1>2 DEF UploadAuth, PrepareAnswer, host
  <2>3. ProcessRunning \subseteq {s}
    BY <2>2 DEF Single, Serial, Bootstrapping
  <2>4. ProcessRunning' \subseteq {s}
    BY <2>1, <2>3 DEF ProcessRunning, Ended
  <2>5. Live' = Live /\ s \in Live
    BY <2>1, <2>2 DEF Live, Bootstrapping
  <2>6. \A t \in Sessions \ {s} : session[t].at \in {"idle", "ended"}
    BY <2>5 DEF Single, Serial, Live
  <2>7. Serial'
    BY <2>1, <2>4, <2>5, <2>6 DEF Single, Serial, Bootstrapping
  <2>8. ProcessIsSeen'
    BY <2>1, <2>2 DEF Single, ProcessIsSeen, Resolved, Bootstrapping
  <2> QED
    BY <2>4, <2>7, <2>8 DEF OneController
<1> QED
  BY <1>1, <1>2

\* The steps of remote commands.
LEMMA RemoteStepsSingle ==
    ASSUME Single, NEW s \in Sessions,
           \/ GitFetch(s) \/ GitExtract(s) \/ GitMove(s) \/ GitLink(s)
           \/ SourceEnv(s) \/ LinkShared(s) \/ CheckDeps(s) \/ RemovePart(s) \/ RemovalEnds(s)
           \/ MakeVenv(s) \/ PipInstall(s)
           \/ MarkDeps(s) \/ PrepareState(s) \/ RunController(s) \/ ControllerEnds(s)
           \/ RemoteFails(s)
    PROVE  Serial' /\ ProcessIsSeen' /\ OneController'
<1>1. UNCHANGED <<session, legacy>> /\ (cloned => cloned')
  BY DEF GitFetch, GitExtract, GitMove, GitLink, SourceEnv, LinkShared, CheckDeps, RemovePart,
         RemovalEnds, MakeVenv, PipInstall, MarkDeps, PrepareState, RunController,
         ControllerEnds, RemoteFails, host
<1>2. \A t \in Sessions : /\ remote'[t].kind = remote[t].kind
                          /\ t # s => remote'[t] = remote[t]
  <2>1. CASE GitFetch(s)
    <3>1. PICK sha, place : remote' = [remote EXCEPT ![s].knows = sha, ![s].at = place]
      BY <2>1 DEF GitFetch
    <3> QED
      BY <3>1 DEF Single, Typed, RecordsTyped, CommandRecords
  <2>2. CASE ~GitFetch(s)
    BY <2>2
    DEF Single, Typed, RecordsTyped, CommandRecords, GitExtract, GitMove, GitLink, SourceEnv,
        LinkShared, CheckDeps, RemovePart, RemovalEnds, MakeVenv, PipInstall, MarkDeps,
        PrepareState, RunController, ControllerEnds, RemoteFails, GoOn
  <2> QED
    BY <2>1, <2>2
<1>3. ~Ended(remote[s])
  BY DEF GitFetch, GitExtract, GitMove, GitLink, SourceEnv, LinkShared, CheckDeps, RemovePart,
         RemovalEnds, MakeVenv, PipInstall, MarkDeps, PrepareState, RunController,
         ControllerEnds, RemoteFails, At, InBootstrap, Ended
<1>4. ProcessRunning' \subseteq ProcessRunning
  BY <1>2, <1>3 DEF ProcessRunning, Ended
<1>5. remote[s].kind = "git" /\ remote'[s].at \notin {"fetch", "failed"} => cloned'
  BY <1>1
  DEF Single, ProcessIsSeen, Typed, RecordsTyped, CommandRecords, GitFetch, GitExtract, GitMove,
      GitLink, SourceEnv, LinkShared, CheckDeps, RemovePart, RemovalEnds, MakeVenv, PipInstall,
      MarkDeps, PrepareState, RunController, ControllerEnds, RemoteFails, At, InBootstrap, GoOn
<1>6. Serial'
  BY <1>1, <1>4 DEF Single, Serial, Live
<1>7. ProcessIsSeen'
  BY <1>1, <1>2, <1>4, <1>5 DEF Single, ProcessIsSeen
<1>8. OneController'
  BY <1>4 DEF Single, OneController
<1> QED
  BY <1>6, <1>7, <1>8

LEMMA StepSingle == ASSUME Overlap = FALSE, Forced = FALSE PROVE Single /\ [Next]_vars => Single'
<1>1. SUFFICES ASSUME Single, [Next]_vars PROVE Serial' /\ ProcessIsSeen' /\ OneController'
  BY StepTyped DEF Single
<1>2. CASE UNCHANGED vars
  BY <1>1, <1>2
  DEF vars, Single, Serial, ProcessIsSeen, OneController, ProcessRunning, Ended, Live
<1>3. CASE Next
  BY <1>1, <1>3, SessionStepsSingle, CommandStepsSingle, RemoteStepsSingle DEF Next
<1> QED
  BY <1>1, <1>2, <1>3

\* Where operators run one session at a time and none is forced, no two sessions ever
\* prepare or run a controller at once.
THEOREM OneControllerTheorem ==
    ASSUME Overlap = FALSE, Forced = FALSE PROVE Spec => []OneController
BY InitSingle, StepSingle, PTL DEF Spec, Single

-----------------------------------------------------------------------------
(* What a controller runs.                                                 *)

\* What is installed is what a commit depends on, or an environment whose removal was
\* cut short has lost some of it.
Installed(fingerprint) == venv.deps = fingerprint \/ (venv.torn /\ venv.deps = None)

\* How far the bootstrap is with the environment of its commit.
Equipped(s) ==
    /\ remote[s].at \in {"links", "deps", "clear", "venv", "install", "mark", "controller",
                        "running"} =>
          remote[s].knows = session[s].sha
    /\ remote[s].at \in {"deps", "clear", "venv", "install", "mark", "controller", "running"} =>
          release[session[s].sha] # "absent"
    /\ remote[s].at = "venv" => venv.mark \in {None, Fingerprint(s)}
    /\ remote[s].at \in {"install", "mark"} => venv.mark = None
    /\ remote[s].at \in {"mark", "controller", "running"} =>
          Fingerprint(s) # None /\ Installed(Fingerprint(s))

\* The mark of a virtual environment is of what is installed in it.
MarkIsTrue == venv.mark # None => Installed(venv.mark)

\* The state file that a run finds is the one its session prepared.
RunFollowsPrepare ==
    /\ \A s \in Sessions : session[s].at = "prepare" /\ At(s, "prepare", "done") => prepared = s
    /\ \A s \in ProcessRunning : remote[s].kind = "run" => prepared = s

Ready ==
    /\ Single
    /\ \A s \in ProcessRunning : Equipped(s)
    /\ MarkIsTrue /\ RunFollowsPrepare

ReadyParts == (\A s \in ProcessRunning : Equipped(s)) /\ MarkIsTrue /\ RunFollowsPrepare

LEMMA InitReady == Init => Ready
BY InitSingle
DEF Init, Ready, MarkIsTrue, Installed, RunFollowsPrepare, ProcessRunning, At, NoVenv, NoSession,
    NoCommand

LEMMA SessionStepsReady ==
    ASSUME Ready, NEW s \in Sessions,
           Start(s) \/ Configured(s) \/ ConfigRefused(s) \/ Connect(s) \/ ConnectFails(s)
           \/ Probe(s) \/ CheckFails(s) \/ UploadFails(s) \/ PrepareRefused(s)
           \/ PrepareTimesOut(s) \/ RunStreamEnds(s)
    PROVE  ReadyParts'
<1>1. PICK place \in {"configure", "connect", "probe", "status", "ended"} :
        /\ session' = [session EXCEPT ![s].at = place]
        /\ UNCHANGED <<host, remote>>
  BY ConstantsAssumption
  DEF Start, Configured, ConfigRefused, Connect, ConnectFails, Probe, CheckFails, UploadFails,
      PrepareRefused, PrepareTimesOut, RunStreamEnds, Leave
<1>2. /\ ProcessRunning' = ProcessRunning
      /\ UNCHANGED <<venv, release, prepared, remote>>
  BY <1>1 DEF ProcessRunning, Ended, host
<1>3. \A t \in Sessions : /\ session'[t].sha = session[t].sha
                          /\ session'[t].at = "prepare" => session[t].at = "prepare"
  BY <1>1 DEF Ready, Single, Typed, RecordsTyped, SessionRecords
<1>4. \A t \in ProcessRunning : Equipped(t)'
  BY <1>2, <1>3 DEF Ready, Equipped, Installed, Fingerprint, ProcessRunning
<1>5. RunFollowsPrepare'
  BY <1>2, <1>3 DEF Ready, RunFollowsPrepare, At
<1> QED
  BY <1>2, <1>4, <1>5 DEF Ready, ReadyParts, MarkIsTrue, Installed

LEMMA CommandStepsReady ==
    ASSUME Ready, Single', NEW s \in Sessions,
           Status(s) \/ GitAnswer(s) \/ UploadEnv(s) \/ UploadAuth(s) \/ PrepareAnswer(s)
    PROVE  ReadyParts'
<1>1. UNCHANGED <<venv, prepared>>
  BY DEF Status, GitAnswer, UploadEnv, UploadAuth, PrepareAnswer, LaunchPrepare, host
<1>2. CASE Status(s) \/ GitAnswer(s) \/ UploadEnv(s)
  <2>1. session'[s].at \in {"checkout", "env", "auth"}
    BY <1>2
    DEF Ready, Single, Typed, RecordsTyped, SessionRecords, Status, GitAnswer, UploadEnv,
        LaunchPrepare
  <2>2. \A t \in Sessions \ {s} : session'[t] = session[t] /\ remote'[t] = remote[t]
    BY <1>2
    DEF Ready, Single, Typed, RecordsTyped, Status, GitAnswer, UploadEnv, LaunchPrepare
  <2>3. ProcessRunning' = {}
    BY <2>1 DEF Single, Serial
  <2> QED
    BY <1>1, <2>1, <2>2, <2>3 DEF Ready, ReadyParts, MarkIsTrue, Installed, RunFollowsPrepare, At
<1>3. CASE UploadAuth(s) \/ PrepareAnswer(s)
  <2>1. PICK kind \in Bootstrapping :
          /\ session' = [session EXCEPT ![s].at = kind]
          /\ remote' = [remote EXCEPT ![s] = Command(kind, "source")]
          /\ kind = "run" => session[s].at = "prepare" /\ At(s, "prepare", "done")
    BY <1>3 DEF UploadAuth, PrepareAnswer, Bootstrapping
  <2>2. /\ session'[s].at = kind /\ remote'[s].kind = kind /\ remote'[s].at = "source"
        /\ \A t \in Sessions \ {s} : session'[t] = session[t] /\ remote'[t] = remote[t]
    BY <2>1
    DEF Ready, Single, Typed, RecordsTyped, SessionRecords, CommandRecords, Command, NoCommand
  <2>3. ProcessRunning' \subseteq {s}
    BY <2>2 DEF Single, Serial
  <2>4. \A t \in ProcessRunning' : Equipped(t)'
    BY <2>2, <2>3 DEF Equipped, Installed
  <2>5. RunFollowsPrepare'
    BY <1>1, <2>1, <2>2, <2>3 DEF Ready, RunFollowsPrepare, At
  <2> QED
    BY <1>1, <2>4, <2>5 DEF Ready, ReadyParts, MarkIsTrue, Installed
<1> QED
  BY <1>2, <1>3

LEMMA GitStepsReady ==
    ASSUME Ready, NEW s \in Sessions,
           GitFetch(s) \/ GitExtract(s) \/ GitMove(s) \/ GitLink(s)
    PROVE  ReadyParts'
<1>1. UNCHANGED <<session, venv, prepared>> /\ remote[s].kind = "git"
  BY DEF GitFetch, GitExtract, GitMove, GitLink, At, host
<1>2. \A t \in Sessions \ {s} : remote'[t] = remote[t]
  BY DEF Ready, Single, Typed, RecordsTyped, GitFetch, GitExtract, GitMove, GitLink, GoOn
<1>3. remote'[s].kind = "git"
  <2>1. PICK knows, place : remote' = [remote EXCEPT ![s].knows = knows, ![s].at = place]
                            \/ remote' = [remote EXCEPT ![s].at = place]
    BY DEF GitFetch, GitExtract, GitMove, GitLink, GoOn
  <2> QED
    BY <1>1, <2>1 DEF Ready, Single, Typed, RecordsTyped, CommandRecords
<1>4. \A sha \in Shas : release[sha] # "absent" => release'[sha] = release[sha]
  BY DEF Ready, Single, Typed, HostTyped, GitFetch, GitExtract, GitMove, GitLink, host
<1>5. ProcessRunning' = ProcessRunning /\ s \notin ProcessRunning
  BY <1>1, <1>2, <1>3 DEF ProcessRunning, Ended
<1>6. \A t \in ProcessRunning : Equipped(t)'
  <2>1. TAKE t \in ProcessRunning
  <2>2. Equipped(t) /\ session[t].sha \in Shas /\ remote'[t] = remote[t]
    BY <1>2, <1>5 DEF Ready, Single, Typed, KnowsCommit, ProcessRunning, Bootstrapping
  <2>3. release[session[t].sha] # "absent" => Fingerprint(t)' = Fingerprint(t)
    BY <1>1, <1>4, <2>2 DEF Fingerprint
  <2> QED
    BY <1>1, <1>4, <2>2, <2>3 DEF Equipped, Installed
<1>7. RunFollowsPrepare'
  BY <1>1, <1>2, <1>3, <1>5 DEF Ready, RunFollowsPrepare, At, ProcessRunning
<1> QED
  BY <1>1, <1>5, <1>6, <1>7 DEF Ready, ReadyParts, MarkIsTrue, Installed

\* A step of the one process.
LEMMA BootstrapStepsReady ==
    ASSUME Ready, NEW s \in ProcessRunning,
           SourceEnv(s) \/ LinkShared(s) \/ CheckDeps(s) \/ RemovePart(s) \/ RemovalEnds(s)
           \/ MakeVenv(s) \/ PipInstall(s)
           \/ MarkDeps(s) \/ PrepareState(s) \/ RunController(s) \/ ControllerEnds(s)
           \/ RemoteFails(s)
    PROVE  ReadyParts'
<1>1. /\ s \in Sessions /\ ProcessRunning = {s} /\ Equipped(s) /\ MarkIsTrue
      /\ session[s].sha \in Shas
  BY DEF Ready, Single, OneController, ProcessRunning, Typed, KnowsCommit, Bootstrapping
<1>2. UNCHANGED session
  BY DEF SourceEnv, LinkShared, CheckDeps, RemovePart, RemovalEnds, MakeVenv, PipInstall,
         MarkDeps, PrepareState, RunController, ControllerEnds, RemoteFails, host
<1>3. PICK place \in CommandPlaces, knows \in {remote[s].knows, session[s].sha} :
        /\ remote'[s].kind = remote[s].kind /\ remote'[s].at = place /\ remote'[s].knows = knows
        /\ \A t \in Sessions \ {s} : remote'[t] = remote[t]
  <2>1. CASE SourceEnv(s)
    <3>1. PICK place \in {"links", "failed", "deps"} :
            remote' = [remote EXCEPT ![s].knows = session[s].sha, ![s].at = place]
      BY <2>1 DEF SourceEnv, ExportedSha
    <3> QED
      BY <1>1, <3>1 DEF Ready, Single, Typed, RecordsTyped, CommandRecords, CommandPlaces
  <2>2. CASE ~SourceEnv(s)
    <3>1. PICK place \in CommandPlaces : GoOn(s, place)
      BY <2>2
      DEF LinkShared, CheckDeps, RemovePart, RemovalEnds, MakeVenv, PipInstall, MarkDeps,
          PrepareState, RunController, ControllerEnds, RemoteFails, CommandPlaces
    <3> QED
      BY <1>1, <3>1 DEF Ready, Single, Typed, RecordsTyped, CommandRecords, GoOn
  <2> QED
    BY <2>1, <2>2
<1>4. ProcessRunning' \subseteq {s}
  BY <1>1, <1>3 DEF ProcessRunning, Ended
<1>5. CASE SourceEnv(s)
  <2>1. /\ UNCHANGED <<release, venv, prepared>>
        /\ remote' = [remote EXCEPT ![s].knows = session[s].sha,
              ![s].at = IF remote[s].kind = "prepare" THEN "links"
                        ELSE IF release[session[s].sha] = "absent" THEN "failed" ELSE "deps"]
    BY <1>5 DEF SourceEnv, ExportedSha, host
  <2>2. /\ remote'[s].knows = session[s].sha
        /\ remote'[s].at \in {"links", "failed", "deps"}
        /\ remote'[s].at = "deps" => release[session[s].sha] # "absent"
    <3>1. CASE remote[s].kind = "prepare"
      BY <1>1, <2>1, <3>1 DEF Ready, Single, Typed, RecordsTyped, CommandRecords
    <3>2. CASE remote[s].kind # "prepare" /\ release[session[s].sha] = "absent"
      BY <1>1, <2>1, <3>2 DEF Ready, Single, Typed, RecordsTyped, CommandRecords
    <3>3. CASE remote[s].kind # "prepare" /\ release[session[s].sha] # "absent"
      BY <1>1, <2>1, <3>3 DEF Ready, Single, Typed, RecordsTyped, CommandRecords
    <3> QED
      BY <3>1, <3>2, <3>3
  <2>3. Equipped(s)'
    BY <1>2, <2>1, <2>2 DEF Equipped, Installed
  <2>4. RunFollowsPrepare'
    BY <1>1, <1>2, <1>3, <1>4, <2>1, <2>2 DEF Ready, RunFollowsPrepare, At
  <2> QED
    BY <1>1, <1>4, <2>1, <2>3, <2>4 DEF ReadyParts, MarkIsTrue, Installed
<1>6. CASE LinkShared(s)
  <2>1. /\ UNCHANGED <<venv, prepared>> /\ remote[s].at = "links" /\ remote'[s].at = "deps"
        /\ release'[session[s].sha] # "absent" /\ remote'[s].knows = remote[s].knows
    BY <1>1, <1>6
    DEF Ready, Single, Typed, HostTyped, RecordsTyped, CommandRecords, LinkShared, At, GoOn
  <2>2. Equipped(s)'
    BY <1>1, <1>2, <2>1 DEF Equipped, Installed
  <2>3. RunFollowsPrepare'
    BY <1>1, <1>2, <1>3, <1>4, <2>1 DEF Ready, RunFollowsPrepare, At
  <2> QED
    BY <1>1, <1>4, <2>1, <2>2, <2>3 DEF ReadyParts, MarkIsTrue, Installed
<1>7. CASE \/ CheckDeps(s) \/ RemovePart(s) \/ RemovalEnds(s)
          \/ MakeVenv(s) \/ PipInstall(s) \/ MarkDeps(s)
  <2>1. /\ UNCHANGED <<release, prepared, session>>
        /\ remote'[s].knows = remote[s].knows
        /\ remote'[s].at \in {"clear", "venv", "install", "mark", "controller", "failed"}
        /\ remote[s].at \in {"deps", "clear", "venv", "install", "mark"}
    BY <1>1, <1>7
    DEF Ready, Single, Typed, RecordsTyped, CommandRecords, CheckDeps, RemovePart, RemovalEnds,
        MakeVenv, PipInstall, MarkDeps, InBootstrap, GoOn, host
  <2>2. Fingerprint(s)' = Fingerprint(s)
    BY <2>1 DEF Fingerprint
  <2>3. Equipped(s)' /\ MarkIsTrue'
    <3>1. CASE CheckDeps(s)
      BY <1>1, <2>1, <2>2, <3>1
      DEF Ready, Single, Typed, HostTyped, RecordsTyped, CommandRecords, Equipped, MarkIsTrue,
          Installed, CheckDeps, InBootstrap, GoOn, host
    <3>a. CASE RemovePart(s)
      <4>1. remote[s].at = "clear" /\ remote'[s].at = "clear"
        BY <1>1, <3>a
        DEF Ready, Single, Typed, RecordsTyped, CommandRecords, RemovePart, InBootstrap, GoOn
      <4>2. venv \in Venvs
        BY DEF Ready, Single, Typed, HostTyped
      <4>3. /\ venv'.torn
            /\ venv'.deps = venv.deps \/ venv'.deps = None
            /\ venv'.mark = venv.mark \/ venv'.mark = None
        BY <3>a, <4>2 DEF RemovePart, Venvs
      <4>4. MarkIsTrue'
        BY <1>1, <4>3 DEF MarkIsTrue, Installed
      <4> QED
        BY <1>1, <2>1, <4>1, <4>4 DEF Equipped
    <3>b. CASE RemovalEnds(s)
      BY <1>1, <2>1, <2>2, <3>b
      DEF Ready, Single, Typed, RecordsTyped, CommandRecords, Equipped, MarkIsTrue, Installed,
          RemovalEnds, InBootstrap, GoOn, NoVenv
    <3>2. CASE MakeVenv(s)
      BY <1>1, <2>1, <2>2, <3>2
      DEF Ready, Single, Typed, HostTyped, RecordsTyped, CommandRecords, Equipped, MarkIsTrue,
          Installed, MakeVenv, InBootstrap, GoOn, Venvs
    <3>3. CASE PipInstall(s)
      BY <1>1, <2>1, <2>2, <3>3
      DEF Ready, Single, Typed, HostTyped, RecordsTyped, CommandRecords, Equipped, MarkIsTrue,
          Installed, PipInstall, InBootstrap, GoOn, Venvs
    <3>4. CASE MarkDeps(s)
      BY <1>1, <2>1, <2>2, <3>4
      DEF Ready, Single, Typed, HostTyped, RecordsTyped, CommandRecords, Equipped, MarkIsTrue,
          Installed, MarkDeps, InBootstrap, GoOn, Venvs
    <3> QED
      BY <1>7, <3>1, <3>a, <3>b, <3>2, <3>3, <3>4
  <2>4. RunFollowsPrepare'
    BY <1>1, <1>2, <1>3, <1>4, <2>1 DEF Ready, RunFollowsPrepare, At
  <2> QED
    BY <1>1, <1>4, <2>3, <2>4 DEF ReadyParts
<1>8. CASE PrepareState(s)
  <2>1. /\ UNCHANGED <<release, venv>> /\ remote[s].kind = "prepare"
        /\ \/ remote'[s].at = "done" /\ prepared' = s
           \/ remote'[s].at = "failed" /\ prepared' = prepared
    BY <1>1, <1>8
    DEF Ready, Single, Typed, RecordsTyped, CommandRecords, PrepareState, At, GoOn
  <2>2. ProcessRunning' = {}
    BY <1>3, <1>4, <2>1 DEF ProcessRunning, Ended
  <2>3. \A t \in Sessions : session[t].at = "prepare" => t = s
    BY <1>1 DEF Ready, Single, Serial, Bootstrapping
  <2>4. RunFollowsPrepare'
    BY <1>2, <2>1, <2>2, <2>3 DEF RunFollowsPrepare, At
  <2> QED
    BY <1>1, <2>1, <2>2, <2>4 DEF ReadyParts, MarkIsTrue, Installed
<1>9. CASE RunController(s) \/ ControllerEnds(s) \/ RemoteFails(s)
  <2>1. /\ UNCHANGED <<release, venv, prepared>> /\ remote'[s].knows = remote[s].knows
        /\ \/ remote'[s].at = "running" /\ remote[s].at = "controller"
           \/ remote'[s].at = "done" /\ remote[s].kind = "run"
           \/ remote'[s].at = "failed"
    BY <1>1, <1>9
    DEF Ready, Single, Typed, RecordsTyped, CommandRecords, RunController, ControllerEnds,
        RemoteFails, At, GoOn, host
  <2>2. Equipped(s)'
    BY <1>1, <1>2, <2>1 DEF Equipped, Installed, Fingerprint
  <2>3. RunFollowsPrepare'
    BY <1>1, <1>2, <1>3, <1>4, <2>1 DEF Ready, RunFollowsPrepare, At
  <2> QED
    BY <1>1, <1>4, <2>1, <2>2, <2>3 DEF ReadyParts, MarkIsTrue, Installed
<1> QED
  BY <1>5, <1>6, <1>7, <1>8, <1>9

LEMMA StepReady == ASSUME Overlap = FALSE, Forced = FALSE PROVE Ready /\ [Next]_vars => Ready'
<1>1. SUFFICES ASSUME Ready, [Next]_vars PROVE Ready'
  OBVIOUS
<1>2. Single'
  BY <1>1, StepSingle DEF Ready
<1>3. CASE UNCHANGED vars
  BY <1>1, <1>2, <1>3
  DEF vars, Ready, MarkIsTrue, Installed, RunFollowsPrepare, Equipped, Fingerprint,
      ProcessRunning, Ended, At
<1>4. ASSUME NEW s \in Sessions,
             \/ SourceEnv(s) \/ LinkShared(s) \/ CheckDeps(s) \/ RemovePart(s) \/ RemovalEnds(s)
             \/ MakeVenv(s) \/ PipInstall(s) \/ MarkDeps(s)
             \/ PrepareState(s) \/ RunController(s) \/ ControllerEnds(s)
             \/ RemoteFails(s) /\ remote[s].kind \in Bootstrapping
      PROVE  ReadyParts'
  <2>1. s \in ProcessRunning
    BY <1>4
    DEF ProcessRunning, Ended, SourceEnv, LinkShared, CheckDeps, RemovePart, RemovalEnds,
        MakeVenv, PipInstall, MarkDeps, PrepareState, RunController, ControllerEnds, RemoteFails,
        At, InBootstrap, Bootstrapping
  <2> QED
    BY <1>1, <1>4, <2>1, BootstrapStepsReady
<1>5. ASSUME NEW s \in Sessions, RemoteFails(s), remote[s].kind \notin Bootstrapping
      PROVE  ReadyParts'
  <2>1. /\ UNCHANGED <<session, release, venv, prepared>>
        /\ remote'[s].kind = remote[s].kind /\ remote'[s].at = "failed"
        /\ \A t \in Sessions \ {s} : remote'[t] = remote[t]
    BY <1>1, <1>5
    DEF Ready, Single, Typed, RecordsTyped, CommandRecords, RemoteFails, GoOn, host
  <2>2. ProcessRunning' = ProcessRunning /\ s \notin ProcessRunning
    BY <1>5, <2>1 DEF ProcessRunning, Ended, Bootstrapping
  <2>3. \A t \in ProcessRunning : remote'[t] = remote[t]
    BY <2>1, <2>2 DEF ProcessRunning
  <2>4. \A t \in ProcessRunning : Equipped(t)'
    BY <1>1, <2>1, <2>3 DEF Ready, Equipped, Installed, Fingerprint
  <2>5. RunFollowsPrepare'
    BY <1>1, <2>1, <2>2, <2>3 DEF Ready, RunFollowsPrepare, At
  <2> QED
    BY <1>1, <2>1, <2>2, <2>4, <2>5 DEF Ready, ReadyParts, MarkIsTrue, Installed
<1>6. CASE Next
  <2>1. ReadyParts'
    BY <1>1, <1>2, <1>4, <1>5, <1>6, SessionStepsReady, CommandStepsReady, GitStepsReady DEF Next
  <2> QED
    BY <1>2, <2>1 DEF Ready, ReadyParts
<1> QED
  BY <1>1, <1>3, <1>6

\* Under the same conditions a running controller runs the commit, the dependencies and
\* the state file of its own session.
THEOREM LaunchTheorem ==
    ASSUME Overlap = FALSE, Forced = FALSE PROVE Spec => []ControllerRunsItsLaunch
<1>1. Ready => ControllerRunsItsLaunch
  <2>1. SUFFICES ASSUME Ready, NEW s \in RunningControllers
                 PROVE  /\ release[session[s].sha] = "whole"
                        /\ remote[s].knows = session[s].sha
                        /\ \/ venv.deps = Deps[session[s].sha]
                           \/ venv.torn /\ venv.deps = None
                        /\ prepared = s
    BY DEF ControllerRunsItsLaunch
  <2>2. s \in ProcessRunning /\ remote[s].kind = "run" /\ remote[s].at = "running"
    BY <2>1 DEF RunningControllers, ProcessRunning, At, Ended
  <2>3. Equipped(s) /\ prepared = s
    BY <2>1, <2>2 DEF Ready, RunFollowsPrepare
  <2> QED
    BY <2>2, <2>3 DEF Equipped, Installed, Fingerprint
<1> QED
  BY InitReady, StepReady, <1>1, PTL DEF Spec
=============================================================================
