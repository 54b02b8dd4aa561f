------------------------------ MODULE RunCommand ---------------------------
(***************************************************************************)
(* `aster run' and `aster resume' (crates/aster-cli/src/lib.rs): a fixture *)
(* run whose evidence is written when it has ended, then any number of     *)
(* resumes, each of which applies one resolution to one snapshot file and  *)
(* stops at the next effect; a replay (`aster replay') of the trace on disk*)
(* between them; and a crash of the process at any point.                  *)
(*                                                                         *)
(* resume_command does not use RecordSession, but what it does to a        *)
(* machine and a trace is what the session's operations do, with the next  *)
(* effect admitted at once and without declared usage; so `session' holds  *)
(* the machine and the trace in the memory of either command.              *)
(***************************************************************************)
EXTENDS FixtureRun

VARIABLES
  command,   \* run, resume or replay
  at,        \* executing, persisting, publishing or exited
  files,     \* snapshot files written so far by the command
  exit,      \* running, succeeded, failed or crashed
  disk       \* snapshot files, resume-next.json if there is one, the trace and
             \* the state file

commandVars == <<fixtureVars, command, at, files, exit, disk>>

CommandInit ==
  /\ FixtureInit
  /\ command = "run" /\ at = "executing" /\ files = 0 /\ exit = "running"
  /\ disk = [snapshots |-> <<>>, next |-> {}, trace |-> <<>>, state |-> None]
-----------------------------------------------------------------------------
KeepSession == UNCHANGED fixtureVars

Executes ==
  /\ at = "executing" /\ FixtureStep
  /\ at' = IF session'.phase \in {"completed", "failed"} THEN "persisting" ELSE at
  /\ UNCHANGED <<command, files, exit, disk>>

\* A run writes every snapshot to a file of its own.
PersistSnapshot ==
  /\ at = "persisting" /\ command = "run" /\ files < Len(session.snapshots)
  /\ files' = files + 1
  /\ disk' = [disk EXCEPT !.snapshots = Append(@, session.snapshots[files + 1])]
  /\ KeepSession
  /\ UNCHANGED <<command, at, exit>>

\* Faulty variant: an existing resume-next.json is kept.
PersistNextOnce ==
  /\ at = "persisting" /\ command = "resume" /\ files < Len(session.snapshots)
  /\ files' = files + 1
  /\ disk' = IF disk.next = {} THEN [disk EXCEPT !.next = {session.snapshots[1]}] ELSE disk
  /\ KeepSession
  /\ UNCHANGED <<command, at, exit>>

\* A resume writes its one snapshot over the one of the resume before it.
PersistNext ==
  /\ at = "persisting" /\ command = "resume" /\ files < Len(session.snapshots)
  /\ files' = files + 1
  /\ disk' = [disk EXCEPT !.next = {session.snapshots[1]}]
  /\ KeepSession
  /\ UNCHANGED <<command, at, exit>>

\* Faulty variant: the count goes one too far.
MoreFilesWritten == files > Len(session.snapshots)

AllFilesWritten == files = Len(session.snapshots)

PersistTrace ==
  /\ at = "persisting" /\ AllFilesWritten
  /\ disk' = [disk EXCEPT !.trace = session.trace]
  /\ IF session.phase = "completed"
     THEN at' = "publishing" /\ exit' = exit
     ELSE at' = "exited" /\ exit' = IF session.phase = "failed" THEN "failed" ELSE "succeeded"
  /\ KeepSession
  /\ UNCHANGED <<command, files>>

PublishState ==
  /\ at = "publishing"
  /\ disk' = [disk EXCEPT !.state = session.outcome]
  /\ at' = "exited" /\ exit' = "succeeded"
  /\ KeepSession
  /\ UNCHANGED <<command, files>>

Crash ==
  /\ at # "exited"
  /\ at' = "exited" /\ exit' = "crashed"
  /\ KeepSession
  /\ UNCHANGED <<command, files, disk>>
-----------------------------------------------------------------------------
(* aster resume *)

Files == Range(disk.snapshots) \cup disk.next

NoUsage == [d \in {} |-> 0]

\* The trace rewound to a snapshot, and the machine of the snapshot.
Rewound(trace, snapshot) ==
  [Restored(trace, snapshot) EXCEPT !.trace = snapshot.checkpoint, !.snapshots = <<>>]

\* The session after the resolution: at the next effect, which is sealed, or
\* at the end.
Resumed(trace, snapshot, request, payload, usage) ==
  LET resolved   == Resolve(Rewound(trace, snapshot), request, payload, usage)
      progressed == Progressed(resolved)
  IN  IF resolved.error THEN resolved
      ELSE IF progressed.error \/ progressed.phase = "completed" THEN progressed
      ELSE Admit(progressed, progressed.machine.pending.request, NoUsage)

\* An error ends the command before anything is written.
Resume(snapshot, request, payload, usage) ==
  /\ at = "exited" /\ restarts < MaxRestarts /\ restarts' = restarts + 1
  /\ CanRewind(disk.trace, snapshot)
  /\ command' = "resume" /\ files' = 0
  /\ session' = Resumed(disk.trace, snapshot, request, payload, usage)
  /\ IF session'.error THEN at' = "exited" /\ exit' = "failed"
     ELSE at' = "persisting" /\ exit' = "running"
  /\ UNCHANGED <<run, driverVars, disk>>

ResumeAny ==
  \E snapshot \in Files, request \in Requests, payload \in Payloads, usage \in Usages :
    Resume(snapshot, request, payload, usage)

\* aster replay: a trace that is not accepted changes nothing.
ReplayTrace ==
  /\ at = "exited" /\ Replays(disk.trace)
  /\ command' = "replay" /\ exit' = "succeeded"
  /\ \E machine \in ReplayedTo(disk.trace, Count(disk.trace, "effect_requested")) :
       disk' = [disk EXCEPT !.state = Reaction(machine).outcome]
  /\ KeepSession
  /\ UNCHANGED <<at, files>>

Gone == at = "exited" /\ UNCHANGED commandVars

CommandStep == Executes \/ PersistSnapshot \/ PersistNext \/ PersistTrace \/ PublishState

CommandNext == CommandStep \/ Crash \/ ResumeAny \/ ReplayTrace \/ Gone

\* A command is one thread and its loops return.
CommandSpec == CommandInit /\ [][CommandNext]_commandVars /\ WF_commandVars(CommandStep)
-----------------------------------------------------------------------------
(* Properties *)

\* While a run executes and writes its files its driver is accountable for
\* every answer; a resume replaces the session and has no driver.
DriverIsAccountable == command = "run" => EveryCallWasAdmitted /\ AnswersUseDistinctFixtures

\* A command that succeeds in front of an effect leaves the continuation of
\* that very effect in a file.
LeavesTheEffect ==
  exit = "succeeded" /\ Last(disk.trace) = SnapshotWritten =>
    \E snapshot \in Files : snapshot.checkpoint = Front(disk.trace)

\* The trace on disk reaches one of the files once it has a seal.
TraceIsReached ==
  Count(disk.trace, "snapshot_written") > 0 =>
    \E snapshot \in Files : CanRewind(disk.trace, snapshot)

\* What was recorded can be resumed: after a success from its last effect, and
\* whatever crashed, failed or was resumed before from some effect.  (A resume
\* that crashes may have replaced the continuation in resume-next.json by one
\* the trace does not reach.)
LatestEffectIsResumable == LeavesTheEffect /\ TraceIsReached

\* Every command ends.
CommandsEnd == <>[](at = "exited")
=============================================================================
