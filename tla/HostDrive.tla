------------------------------ MODULE HostDrive -----------------------------
(***************************************************************************)
(* The host commands of the CLI (crates/aster-cli/src/lib.rs, host_io.rs): *)
(* a process that carries the frames of one HostSession over its standard  *)
(* streams and keeps its evidence on disk, the host at the other end, and  *)
(* a crash or a resume at any point.                                       *)
(*                                                                         *)
(* Each file is replaced atomically; a persist is a sequence of such       *)
(* replacements, snapshots first, the trace last.  A failed write to disk  *)
(* ends the process where it is and is a crash here.                       *)
(*                                                                         *)
(* The host is external: it answers frames as the protocol document asks.  *)
(* It performs an effect when it is granted, and given the same grant      *)
(* again it looks up what it did (the idempotency key).  Hosts that answer *)
(* anything else are HostSession's subject.                                *)
(***************************************************************************)
EXTENDS HostSession

VARIABLES
  at,          \* where the process is in drive_host
  files,       \* snapshot files written so far by the persist in progress
  exit,        \* running, completed, failed or crashed
  disk,        \* the snapshot directory, the trace file and the state file
  to_host, from_host,   \* the frame and the reply in the pipes, or None
  performed,   \* what the host did, by grant
  entrusted    \* the grant last given to the host, not in the code

driveVars == <<hostVars, at, files, exit, disk, to_host, from_host, performed, entrusted>>

DriveInit ==
  /\ HostInit
  /\ at = "write_frame" /\ files = 0 /\ exit = "running"
  /\ disk = [snapshots |-> <<>>, trace |-> <<>>, state |-> None]
  /\ to_host = None /\ from_host = None
  /\ performed = {} /\ entrusted = None
-----------------------------------------------------------------------------
(* The process *)

KeepHost == UNCHANGED <<performed, entrusted>>
KeepSession == UNCHANGED hostVars

\* Terminal frames are the last thing written.
WriteFrame ==
  /\ at = "write_frame"
  /\ to_host' = outstanding
  /\ at'   = IF Terminal THEN "exited" ELSE "read_frame"
  /\ exit' = IF Terminal THEN Kind ELSE exit
  /\ entrusted' = IF Kind = "execute_grant" THEN outstanding.message.grant ELSE entrusted
  /\ KeepSession
  /\ UNCHANGED <<files, disk, from_host, performed>>

\* The first frame and the failed frame are given up without more ado; after
\* any other the failure is recorded before the process exits.
WriteFails ==
  /\ at = "write_frame"
  /\ IF Kind \in {"hello", "failed"}
     THEN /\ at' = "exited" /\ exit' = "failed"
          /\ KeepSession
     ELSE /\ at' = "persist_and_exit" /\ exit' = exit
          /\ EndOfInput
  /\ files' = 0
  /\ KeepHost
  /\ UNCHANGED <<disk, to_host, from_host>>

\* Faulty variant: a grant is written before its evidence is on disk.
NextStopGrantFirst(frame) ==
  IF frame.message.kind \in {"effect_preview", "execute_grant"} THEN "write_frame" ELSE "persist"

\* Where drive_host goes with the frame a reply produced.
NextStop(frame) ==
  IF frame.message.kind = "effect_preview" THEN "write_frame" ELSE "persist"

ReadFrame ==
  /\ at = "read_frame" /\ from_host # None
  /\ Reply(from_host)
  /\ from_host' = None
  /\ at' = NextStop(outstanding') /\ files' = 0
  /\ KeepHost
  /\ UNCHANGED <<exit, disk, to_host>>

\* The pipe is closed, or a line on it does not decode.
ReadFails ==
  /\ at = "read_frame"
  /\ EndOfInput
  /\ at' = "persist" /\ files' = 0
  /\ KeepHost
  /\ UNCHANGED <<exit, disk, to_host, from_host>>

Persisting == at \in {"persist", "persist_and_exit"}

\* Snapshot k replaces file k; files of an earlier, longer run stay.
PersistSnapshot ==
  /\ Persisting /\ files < Len(session.snapshots)
  /\ files' = files + 1
  /\ disk' = [disk EXCEPT !.snapshots =
                IF files' \in DOMAIN @ THEN [@ EXCEPT ![files'] = session.snapshots[files']]
                ELSE Append(@, session.snapshots[files'])]
  /\ KeepSession /\ KeepHost
  /\ UNCHANGED <<at, exit, to_host, from_host>>

\* Faulty variant: the state is published before the trace is written.
PersistStateFirst ==
  /\ Persisting /\ files = Len(session.snapshots)
  /\ disk' = IF Kind = "completed" THEN [disk EXCEPT !.state = session.outcome]
             ELSE [disk EXCEPT !.trace = session.trace]
  /\ at'   = CASE at = "persist_and_exit" -> "exited"
               [] Kind = "completed"      -> "publish_state"
               [] OTHER                   -> "write_frame"
  /\ exit' = IF at = "persist_and_exit" THEN "failed" ELSE exit
  /\ KeepSession /\ KeepHost
  /\ UNCHANGED <<files, to_host, from_host>>

PersistTrace ==
  /\ Persisting /\ files = Len(session.snapshots)
  /\ disk' = [disk EXCEPT !.trace = session.trace]
  /\ at'   = CASE at = "persist_and_exit" -> "exited"
               [] Kind = "completed"      -> "publish_state"
               [] OTHER                   -> "write_frame"
  /\ exit' = IF at = "persist_and_exit" THEN "failed" ELSE exit
  /\ KeepSession /\ KeepHost
  /\ UNCHANGED <<files, to_host, from_host>>

PublishState ==
  /\ at = "publish_state"
  /\ disk' = [disk EXCEPT !.state = session.outcome]
  /\ at' = "write_frame"
  /\ KeepSession /\ KeepHost
  /\ UNCHANGED <<files, exit, to_host, from_host>>

\* The process ends and what is in the pipes is lost.
Crash ==
  /\ at # "exited"
  /\ at' = "exited" /\ exit' = "crashed"
  /\ to_host' = None /\ from_host' = None
  /\ KeepSession /\ KeepHost
  /\ UNCHANGED <<files, disk>>

\* host-resume with any snapshot file and the trace file; it refuses a
\* snapshot the trace does not reach.
ResumeHost ==
  /\ at = "exited" /\ restarts < MaxRestarts /\ restarts' = restarts + 1
  /\ Len(disk.trace) > 0
  /\ \E n \in DOMAIN disk.snapshots :
       /\ RestoreFrom(disk.snapshots[n], disk.trace)
       /\ entrusted' = GrantFor(disk.snapshots[n])
  /\ at' = "write_frame" /\ files' = 0 /\ exit' = "running"
  /\ to_host' = None /\ from_host' = None
  /\ UNCHANGED <<disk, performed>>

ProcessStep ==
  WriteFrame \/ ReadFrame \/ PersistSnapshot \/ PersistTrace \/ PublishState
-----------------------------------------------------------------------------
(* The host *)

Sends(reply) ==
  /\ from_host' = reply /\ to_host' = None
  /\ KeepSession
  /\ UNCHANGED <<at, files, exit, disk, entrusted>>

HostAcknowledges ==
  /\ to_host # None /\ to_host.message.kind = "hello"
  /\ Sends([session_id |-> RunId, in_reply_to |-> to_host.message_id, kind |-> "hello_ack"])
  /\ UNCHANGED performed

HostDeclares(maximums) ==
  /\ to_host # None /\ to_host.message.kind = "effect_preview"
  /\ Sends([session_id |-> RunId, in_reply_to |-> to_host.message_id,
            kind |-> "effect_admission", request |-> to_host.message.request,
            maximums |-> maximums])
  /\ UNCHANGED performed

\* The effect is performed once per grant, with whatever result.
HostPerforms(payload, usage) ==
  /\ to_host # None /\ to_host.message.kind = "execute_grant"
  /\ LET grant == to_host.message.grant
     IN  /\ \A done \in performed : done.grant = grant => done.payload = payload
         /\ DOMAIN usage = DOMAIN grant.max_usage
         /\ performed' = performed \cup {[grant |-> grant, payload |-> payload]}
         /\ Sends([session_id |-> RunId, in_reply_to |-> to_host.message_id,
                   kind |-> "effect_resolution", grant |-> grant, payload |-> payload,
                   usage |-> usage])

HostStep ==
  \/ HostAcknowledges
  \/ \E maximums \in Maximums : HostDeclares(maximums)
  \/ \E payload \in Payloads, usage \in Usages : HostPerforms(payload, usage)
-----------------------------------------------------------------------------
\* A process that has exited, and is not resumed, stays as it is.
Gone == at = "exited" /\ UNCHANGED driveVars

DriveNext ==
  ProcessStep \/ HostStep \/ WriteFails \/ ReadFails \/ Crash \/ ResumeHost \/ Gone

DriveSpec == DriveInit /\ [][DriveNext]_driveVars

\* The process is scheduled, and a conforming host answers every frame.
DriveFairSpec == DriveSpec /\ WF_driveVars(ProcessStep) /\ WF_driveVars(HostStep)
-----------------------------------------------------------------------------
(* Properties *)

Resumes(snapshot) == CanRewind(disk.trace, snapshot)

\* The grant last given to the host can always be resumed: there is a
\* snapshot file that the trace file reaches and that is bound to that grant,
\* at every point of the next persist and after every crash.
GrantIsDurable ==
  entrusted # None =>
    \E n \in DOMAIN disk.snapshots :
      Resumes(disk.snapshots[n]) /\ GrantFor(disk.snapshots[n]) = entrusted

\* At most one effect is ever in doubt: of the effects performed on the way to
\* the grant last entrusted, all but that one have on disk the resolution the
\* host gave, directly behind the snapshot they were performed under.  The
\* trace also holds a later grant when an older snapshot is resumed; what was
\* performed under it is not on the way to the grant resumed.
OneEffectInDoubt ==
  \A done \in performed :
    LET sealed == Len(done.grant.checkpoint)
    IN  done.grant # entrusted /\ IsPrefix(done.grant.checkpoint, entrusted.checkpoint) =>
          /\ sealed + 2 \in DOMAIN disk.trace
          /\ IsPrefix(done.grant.checkpoint, disk.trace)
          /\ disk.trace[sealed + 2].event = "effect_resolved"
          /\ disk.trace[sealed + 2].payload = done.payload

\* A snapshot file that host-resume accepts continues the trace it is given:
\* the answers and the ledger it holds are those on the trace, even when the
\* directory still has files of an earlier life that went another way.
ResumableFilesMatchTheTrace ==
  \A n \in DOMAIN disk.snapshots :
    LET snapshot == disk.snapshots[n]
        prefix   == SubSeq(disk.trace, 1, Len(snapshot.checkpoint))
    IN  Resumes(snapshot) =>
          \E replayed \in ReplayedTo(prefix, Count(prefix, "budget_settled")) :
            /\ replayed.answers = snapshot.answers
            /\ replayed.budget = snapshot.pending.before

\* The state file changes only when a trace that replays to that very state
\* is already on disk.
PublishedStateReplays ==
  [][disk'.state # disk.state =>
       /\ Replays(disk.trace)
       /\ Last(disk.trace) = RunCompleted(disk'.state)]_driveVars

\* A conversation with a conforming host ends.
ConversationEnds == <>[](at = "exited")
=============================================================================
