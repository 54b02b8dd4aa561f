---------------------------- MODULE RecordSession ---------------------------
(***************************************************************************)
(* The record session of crates/aster-runtime/src/run.rs: it drives one    *)
(* machine, writes each boundary to a hash-chained trace (trace.rs) and    *)
(* seals a snapshot before an external effect may be performed.  Its       *)
(* callers are record_run_evidenced (a fixture driver) and HostSession.    *)
(*                                                                         *)
(* The machine is the one Machine specifies, seen from here: a             *)
(* deterministic program is a function from the answers it has been given  *)
(* to its reaction, that is, the governance evidence it produces and the   *)
(* request, outcome or error it stops at.  Its budget ledger is kept       *)
(* exactly, because the trace records it.                                  *)
(*                                                                         *)
(* The hash of a trace entry is modelled by the entries up to it, so the   *)
(* checkpoint a snapshot is bound to is a prefix of the trace.  The hash   *)
(* of a snapshot is a function of that prefix and is left out of the       *)
(* snapshot_written entry.                                                 *)
(***************************************************************************)
EXTENDS Budget, SequencesExt

CONSTANTS
  Runs,          \* programs with their limits, to record
  Requests,      \* the effects the programs request, by content
  Payloads,      \* what drivers and hosts answer with
  Maximums,      \* maps from usage dimensions to declared maximums
  Usages,        \* maps from usage dimensions to reported use
  MaxRestarts,   \* bound on the number of restores
  None

VARIABLES
  run,           \* the program and limits being recorded, never changed
  session,
  restarts

recordVars == <<run, session, restarts>>
-----------------------------------------------------------------------------
(* Programs *)

IsSequence(s) == s \in Seq(Range(s))

\* `decoded' is the evidence of decoding the last answer, `audit' that of the
\* instructions executed after it.
IsReaction(r) ==
  /\ r.step \in {"yield", "completed", "failed"}
  /\ IsSequence(r.decoded) /\ IsSequence(r.audit)
  /\ r.step = "yield" => /\ r.dimension \in CountDimensions
                         /\ r.request \in Requests
                         /\ r.expected \subseteq Payloads

\* A program reacts to every sequence of answers it can have accepted.
IsProgram(p) ==
  /\ <<>> \in DOMAIN p
  /\ \A answers \in DOMAIN p :
       /\ IsReaction(p[answers])
       /\ p[answers].step = "yield" =>
            \A payload \in p[answers].expected : Append(answers, payload) \in DOMAIN p

ASSUME RunsAssumption == \A r \in Runs : IsProgram(r.program)
\* The limits of an event are numbers of units; an omitted dimension has none.
ASSUME LimitsAssumption == \A r \in Runs : \A d \in DOMAIN r.limits : r.limits[d] \in Nat
ASSUME RestartsAssumption == MaxRestarts \in Nat
ASSUME NoneAssumption == None \notin Requests
-----------------------------------------------------------------------------
(* The machine as the session sees it *)

NewMachine ==
  [answers |-> <<>>, budget |-> NewBudget(run.limits), pending |-> None, checkpoint |-> <<>>]

Reaction(m) == run.program[m.answers]

CanYield(m) ==
  Reaction(m).step = "yield" /\ CanReserve(m.budget, Reaction(m).dimension, 1)

\* The machine after the step that yields: one unit is reserved.
Yielded(m) ==
  LET one == [d \in {Reaction(m).dimension} |-> 1]
  IN  [m EXCEPT !.budget  = Reserve(m.budget, one),
                !.pending = [request  |-> Reaction(m).request,
                             expected |-> Reaction(m).expected,
                             before   |-> m.budget,
                             held     |-> ReservationsFor(m.budget, one)]]

\* reserve_pending_usage reserves every declared maximum or none.
CanReserveUsage(m, maximums) ==
  /\ DOMAIN maximums \subseteq UsageDimensions \ DOMAIN m.pending.held
  /\ \A d \in DOMAIN maximums : CanReserve(m.budget, d, maximums[d])

UsageReserved(m, maximums) ==
  IF DOMAIN maximums = {} THEN m
  ELSE LET usage == ReservationsFor(m.budget, maximums)
       IN  [m EXCEPT !.budget       = Reserve(m.budget, maximums),
                     !.pending.held = [d \in DOMAIN m.pending.held \cup DOMAIN maximums |->
                                         IF d \in DOMAIN maximums THEN usage[d]
                                                                  ELSE m.pending.held[d]]]

UsageHeld(m) == DOMAIN m.pending.held \cap UsageDimensions
Admitted(m)  == [d \in UsageHeld(m) |-> m.pending.held[d].maximum]

\* supply settles the count, then the usage dimensions in name order, and
\* stops at the first that does not settle.
Rank(d) == IF d \in CountDimensions THEN 0 ELSE 1 + UsageRank(d)

Spent(m, usage) ==
  [d \in DOMAIN m.pending.held |->
     IF d \in CountDimensions THEN 1 ELSE IF d \in DOMAIN usage THEN usage[d] ELSE 0]

SettledDimensions(m, usage) ==
  {d \in DOMAIN m.pending.held :
     \A e \in DOMAIN m.pending.held :
       Rank(e) <= Rank(d) => CanSettle(m.budget, m.pending.held[e], Spent(m, usage)[e])}

ExpectsUsage(m, usage) == DOMAIN usage \subseteq UsageHeld(m)

AcceptsAnswer(m, payload, usage) ==
  /\ ExpectsUsage(m, usage)
  /\ SettledDimensions(m, usage) = DOMAIN m.pending.held
  /\ payload \in m.pending.expected

\* The machine after supply, which has settled even when it is refused.
Supplied(m, payload, usage) ==
  LET settled == [m EXCEPT !.budget = Settle(m.budget, m.pending.held, Spent(m, usage),
                                             SettledDimensions(m, usage))]
  IN  IF AcceptsAnswer(m, payload, usage)
      THEN [settled EXCEPT !.answers = Append(m.answers, payload), !.pending = None]
      ELSE IF ExpectsUsage(m, usage) THEN settled ELSE m
-----------------------------------------------------------------------------
(* Trace entries *)

\* run_header, event_received and fingerprints are always written together.
Header == <<[event |-> "run_header"], [event |-> "event_received"], [event |-> "fingerprints"]>>

Audits(events) == [n \in DOMAIN events |-> [event |-> "audit", about |-> events[n]]]

Requested(m) == [event |-> "effect_requested", request |-> m.pending.request]

ReservedEvidence(m) ==
  [event |-> "budget_reserved", before |-> m.pending.before, held |-> m.pending.held,
   maximums |-> Admitted(m), after |-> m.budget]

ResolvedEvidence(m, payload, usage) ==
  [event |-> "effect_resolved", request |-> m.pending.request, payload |-> payload,
   usage |-> usage]

\* budget_settlement_evidence: an unreported dimension is released whole.
Released(maximums, usage) ==
  [d \in DOMAIN maximums |-> maximums[d] - (IF d \in DOMAIN usage THEN usage[d] ELSE 0)]

SettledEvidence(maximums, usage, after) ==
  [event |-> "budget_settled", usage |-> usage, released |-> Released(maximums, usage),
   after |-> after]

SnapshotWritten == [event |-> "snapshot_written"]
StateCommitted(outcome) == [event |-> "state_committed", state |-> outcome]
RunCompleted(outcome)   == [event |-> "run_completed", outcome |-> outcome]
RunFailed == [event |-> "run_failed"]
-----------------------------------------------------------------------------
(* The operations of RecordSession, from a session to the session they     *)
(* leave.  `error' says that the call returned an error.                   *)

Started == [machine |-> NewMachine, trace |-> Header, snapshots |-> <<>>,
            phase |-> "running", outcome |-> None, error |-> FALSE]

Refused(s) == [s EXCEPT !.error = TRUE]

\* progress: step the machine until it yields, completes or fails; the
\* evidence of the steps is on the trace in every case.
Progressed(s) ==
  LET m        == s.machine
      reaction == Reaction(m)
      audited  == s.trace \o Audits(reaction.audit)
  IN  IF s.phase # "running" THEN s
      ELSE IF CanYield(m)
      THEN [s EXCEPT !.machine = Yielded(m), !.trace = Append(audited, Requested(Yielded(m))),
                     !.phase = "awaiting_admission"]
      ELSE IF reaction.step = "completed"
      THEN [s EXCEPT !.trace = audited \o <<StateCommitted(reaction.outcome),
                                            RunCompleted(reaction.outcome)>>,
                     !.phase = "completed", !.outcome = reaction.outcome]
      ELSE [s EXCEPT !.trace = audited, !.error = TRUE]

\* Faulty variant: the continuation is sealed before the usage is reserved.
AdmitSealedEarly(s, request, maximums) ==
  IF /\ s.phase = "awaiting_admission"
     /\ request = s.machine.pending.request
     /\ CanReserveUsage(s.machine, maximums)
  THEN LET reserved == UsageReserved(s.machine, maximums)
           evidence == Append(s.trace, ReservedEvidence(reserved))
           sealed   == [s.machine EXCEPT !.checkpoint = evidence]
       IN  [s EXCEPT !.machine = [reserved EXCEPT !.checkpoint = evidence],
                     !.trace = Append(evidence, SnapshotWritten),
                     !.snapshots = Append(s.snapshots, sealed), !.phase = "awaiting_resolution"]
  ELSE Refused(s)

\* admit: reserve, record the reservation, bind the continuation to the trace
\* so far, seal it, record that.
Admit(s, request, maximums) ==
  IF /\ s.phase = "awaiting_admission"
     /\ request = s.machine.pending.request
     /\ CanReserveUsage(s.machine, maximums)
  THEN LET reserved == UsageReserved(s.machine, maximums)
           evidence == Append(s.trace, ReservedEvidence(reserved))
           sealed   == [reserved EXCEPT !.checkpoint = evidence]
       IN  [s EXCEPT !.machine = sealed, !.trace = Append(evidence, SnapshotWritten),
                     !.snapshots = Append(s.snapshots, sealed), !.phase = "awaiting_resolution"]
  ELSE Refused(s)

\* resolve: the resolution is on the trace before the machine may refuse it.
Resolve(s, request, payload, usage) ==
  LET m        == s.machine
      supplied == Supplied(m, payload, usage)
      resolved == Append(s.trace, ResolvedEvidence(m, payload, usage))
  IN  IF s.phase # "awaiting_resolution" \/ request # m.pending.request THEN Refused(s)
      ELSE IF ~AcceptsAnswer(m, payload, usage)
      THEN [s EXCEPT !.machine = supplied, !.trace = resolved, !.error = TRUE]
      ELSE [s EXCEPT !.machine = supplied,
                     !.trace = resolved \o Audits(Reaction(supplied).decoded)
                                 \o <<SettledEvidence(Admitted(m), usage, supplied.budget)>>,
                     !.phase = "running"]

\* fail: the session is closed and its evidence kept.
Fail(s) == [s EXCEPT !.trace = Append(s.trace, RunFailed), !.phase = "failed", !.error = FALSE]

\* Faulty variant: only the length of the sealed prefix is compared.
CanRewindByLength(trace, snapshot) == Len(snapshot.checkpoint) <= Len(trace)

\* rewind_to: the trace must still begin with the sealed prefix, and is cut
\* back to it.
CanRewind(trace, snapshot) == IsPrefix(snapshot.checkpoint, trace)

RestoredOn(trace, snapshot, phase) ==
  [machine |-> snapshot, trace |-> Append(trace, SnapshotWritten), snapshots |-> <<snapshot>>,
   phase |-> phase, outcome |-> None, error |-> FALSE]

\* Faulty variant: the effect is to be admitted again.
RestoredUnadmitted(trace, snapshot) ==
  RestoredOn(SubSeq(trace, 1, Len(snapshot.checkpoint)), snapshot, "awaiting_admission")

\* Faulty variant: the trace is not cut back.
RestoredUncut(trace, snapshot) == RestoredOn(trace, snapshot, "awaiting_resolution")

\* restore: the session waits for the resolution of the snapshot's effect.
Restored(trace, snapshot) ==
  RestoredOn(SubSeq(trace, 1, Len(snapshot.checkpoint)), snapshot, "awaiting_resolution")
-----------------------------------------------------------------------------
RecordInit ==
  /\ run \in Runs
  /\ session = Started
  /\ restarts = 0

\* Both callers answer an error with fail and drop the session.
CallsOn == ~session.error

Ended == session.phase \in {"completed", "failed"}

Progress ==
  /\ CallsOn /\ ~Ended
  /\ session' = Progressed(session)
  /\ UNCHANGED <<run, restarts>>

\* A call out of phase, or about another request, is refused.
AdmitEffect(request, maximums) ==
  /\ CallsOn /\ ~Ended
  /\ session' = Admit(session, request, maximums)
  /\ UNCHANGED <<run, restarts>>

ResolveEffect(request, payload, usage) ==
  /\ CallsOn /\ ~Ended
  /\ session' = Resolve(session, request, payload, usage)
  /\ UNCHANGED <<run, restarts>>

FailSession ==
  /\ ~Ended
  /\ session' = Fail(session)
  /\ UNCHANGED <<run, restarts>>

\* A session may be restored from any of the snapshots it sealed, whatever
\* the trace has become.
RestoreSession ==
  /\ restarts < MaxRestarts
  /\ \E n \in DOMAIN session.snapshots :
       /\ CanRewind(session.trace, session.snapshots[n])
       /\ session' = Restored(session.trace, session.snapshots[n])
  /\ restarts' = restarts + 1
  /\ UNCHANGED run

\* The answer of a session that has ended does not change.
Over == Ended /\ UNCHANGED recordVars

RecordNext ==
  \/ Progress
  \/ \E request \in Requests :
       \/ \E maximums \in Maximums : AdmitEffect(request, maximums)
       \/ \E payload \in Payloads, usage \in Usages : ResolveEffect(request, payload, usage)
  \/ FailSession \/ RestoreSession \/ Over

RecordSpec == RecordInit /\ [][RecordNext]_recordVars
-----------------------------------------------------------------------------
(* Replay (replay_run): the machine re-executed with the recorded answers  *)

\* The entries of one kind, in the order of the trace.
Entries(trace, event) ==
  LET kept[n \in 0..Len(trace)] ==
        IF n = 0 THEN <<>>
        ELSE IF trace[n].event = event THEN Append(kept[n - 1], trace[n]) ELSE kept[n - 1]
  IN  kept[Len(trace)]

\* Replaying one effect from machine m against the recorded evidence of the
\* n-th effect: the machine it leaves, or none where replay_run diverges.
ReplayEffect(trace, m, n) ==
  LET reserved == UsageReserved(Yielded(m), Entries(trace, "budget_reserved")[n].maximums)
      answer   == Entries(trace, "effect_resolved")[n]
      supplied == Supplied(reserved, answer.payload, answer.usage)
  IN  IF /\ CanYield(m)
         /\ Requested(Yielded(m)) = Entries(trace, "effect_requested")[n]
         /\ CanReserveUsage(Yielded(m), Entries(trace, "budget_reserved")[n].maximums)
         /\ ReservedEvidence(reserved) = Entries(trace, "budget_reserved")[n]
         /\ answer.request = reserved.pending.request
         /\ AcceptsAnswer(reserved, answer.payload, answer.usage)
         /\ SettledEvidence(Admitted(reserved), answer.usage, supplied.budget)
              = Entries(trace, "budget_settled")[n]
      THEN {supplied} ELSE {}

\* The machine after the first n recorded effects, or none.
ReplayedTo(trace, count) ==
  LET machines[n \in 0..count] ==
        IF n = 0 THEN {NewMachine}
        ELSE UNION {ReplayEffect(trace, m, n) : m \in machines[n - 1]}
  IN  machines[count]

\* The governance evidence generated on the way to a machine with these
\* answers.
GeneratedAudit(answers) ==
  LET audit[n \in 0..Len(answers)] ==
        IF n = 0 THEN run.program[<<>>].audit
        ELSE audit[n - 1] \o run.program[SubSeq(answers, 1, n)].decoded
                          \o run.program[SubSeq(answers, 1, n)].audit
  IN  audit[Len(answers)]

Count(trace, event) == Len(Entries(trace, event))

\* replay_run accepts the trace and returns the recorded outcome.
Replays(trace) ==
  LET count       == Count(trace, "effect_requested")
      completions == {n \in DOMAIN trace : trace[n].event = "run_completed"}
  IN  /\ Count(trace, "budget_reserved") = count
      /\ Count(trace, "effect_resolved") = count
      /\ Count(trace, "budget_settled") = count
      /\ \E machine \in ReplayedTo(trace, count) :
           /\ Reaction(machine).step = "completed"
           /\ \E first \in completions :
                /\ \A n \in completions : first <= n
                /\ trace[first] = RunCompleted(Reaction(machine).outcome)
           /\ Entries(trace, "audit") = Audits(GeneratedAudit(machine.answers))
-----------------------------------------------------------------------------
(* Properties *)

\* A completed recording is one that replay accepts: whatever was declared,
\* answered, refused or restored on the way, the trace has exactly one
\* request, reservation, resolution and settlement per effect, and the ledger
\* and governance evidence the machine generates again.
CompletedRunReplays == session.phase = "completed" => Replays(session.trace)

\* Every sealed snapshot can be resumed from the session's trace, and what it
\* resumes is the machine that the trace up to its checkpoint describes: the
\* answers settled before it, and the recorded reservation of its effect.
SnapshotsMatchTheirTrace ==
  \A k \in DOMAIN session.snapshots :
    LET snapshot == session.snapshots[k]
        prefix   == snapshot.checkpoint
    IN  /\ CanRewind(session.trace, snapshot)
        /\ \E replayed \in ReplayedTo(prefix, Count(prefix, "budget_settled")) :
             snapshot = [UsageReserved(Yielded(replayed), Last(prefix).maximums)
                           EXCEPT !.checkpoint = prefix]
=============================================================================
