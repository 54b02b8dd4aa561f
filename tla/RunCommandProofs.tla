-------------------------- MODULE RunCommandProofs --------------------------
(***************************************************************************)
(* Equal templates answer in order, a command that succeeds in front of an *)
(* effect leaves a file to resume it from, a recorded trace reaches a file *)
(* of its run, the driver of a run is accountable for every answer, and    *)
(* what runs and resumes record replays, for every program, list of        *)
(* fixtures, number of crashes and of resumes.                             *)
(***************************************************************************)
EXTENDS RunCommand, RecordSessionProofs, WellFoundedInduction

(* Fixtures *)

LEMMA LeastExists ==
  ASSUME NEW S, S \subseteq Nat, S # {}
  PROVE  \E n \in S : \A m \in S : n <= m
<1>1. PICK n \in S : \A m \in S : <<m, n>> \notin OpToRel(<, Nat)
  BY WFMin, NatLessThanWellFounded, Zenon
<1>2. \A m \in S : ~ (m < n)
  BY <1>1 DEF OpToRel
<1>3. QED
  BY <1>2

\* Fixtures m and n have the same template.
SameTemplate(m, n) ==
  /\ fixtures[m].kind = fixtures[n].kind
  /\ fixtures[m].identity = fixtures[n].identity
  /\ fixtures[m].match = fixtures[n].match

\* Every fixture before n with its template has answered.
FirstLeft(n) ==
  \A m \in DOMAIN fixtures : m < n /\ SameTemplate(m, n) => m \in consumed

\* What is previewed is the first of its template that is left.
TemplateInv ==
  /\ fixtures \in FixtureSets
  /\ \A n \in DOMAIN fixtures : n \in consumed => FirstLeft(n)
  /\ preview # None => preview \in DOMAIN fixtures /\ FirstLeft(preview)

LEMMA Positions ==
  ASSUME fixtures \in FixtureSets
  PROVE  DOMAIN fixtures \subseteq Nat
<1>1. IsSequence(fixtures)
  BY FixturesAssumption
<1>2. QED
  BY <1>1, SequenceParts

\* FixtureDriver::preview takes the first of the templates that match.
LEMMA PreviewIsFirst ==
  ASSUME fixtures \in FixtureSets, NEW request, MatchingIndices(request) # {}
  PROVE  /\ Preview(request) \in MatchingIndices(request)
         /\ FirstLeft(Preview(request))
<1> DEFINE S == MatchingIndices(request)
           p == Preview(request)
<1>1. S \subseteq DOMAIN fixtures /\ DOMAIN fixtures \subseteq Nat
  BY Positions DEF MatchingIndices
<1>2. p \in S /\ \A m \in S : p <= m
  <2> HIDE DEF S
  <2>1. \E n \in S : \A m \in S : n <= m
    BY <1>1, LeastExists DEF S
  <2>2. p = CHOOSE n \in S : \A m \in S : n <= m
    BY DEF Preview, S
  <2>3. QED
    BY <2>1, <2>2
<1> HIDE DEF p
<1>3. ASSUME NEW m \in DOMAIN fixtures, m < p, SameTemplate(m, p), m \notin consumed
      PROVE  FALSE
  <2>1. m \in S
    BY <1>2, <1>3 DEF MatchingIndices, SameTemplate
  <2>2. p <= m /\ m \in Nat /\ p \in Nat
    BY <1>1, <1>2, <2>1
  <2>3. QED
    BY <1>3, <2>2
<1>4. QED
  BY <1>2, <1>3 DEF FirstLeft, p

LEMMA TemplateInit == CommandInit => TemplateInv
BY DEF CommandInit, FixtureInit, TemplateInv

\* Nothing is taken back.
LEMMA FirstStaysFirst ==
  ASSUME fixtures' = fixtures, consumed \subseteq consumed', NEW n, FirstLeft(n)
  PROVE  FirstLeft(n)'
BY DEF FirstLeft, SameTemplate

LEMMA TemplateKept ==
  ASSUME TemplateInv, UNCHANGED <<fixtures, consumed>>, preview' \in {preview, None}
  PROVE  TemplateInv'
BY DEF TemplateInv, FirstLeft, SameTemplate

LEMMA PreviewStep == TemplateInv /\ PreviewEffect => TemplateInv'
<1> SUFFICES ASSUME TemplateInv, PreviewEffect PROVE TemplateInv'
  OBVIOUS
<1>1. /\ MatchingIndices(Request) # {} /\ preview' = Preview(Request)
      /\ UNCHANGED <<fixtures, consumed>>
  BY DEF PreviewEffect, CanPreview
<1>2. preview' \in MatchingIndices(Request) /\ FirstLeft(preview')
  BY <1>1, PreviewIsFirst DEF TemplateInv
<1>3. preview' \in DOMAIN fixtures
  BY <1>2 DEF MatchingIndices
<1>4. FirstLeft(preview)'
  BY <1>1, <1>2 DEF FirstLeft, SameTemplate
<1>5. \A n \in DOMAIN fixtures : n \in consumed => FirstLeft(n)'
  BY <1>1 DEF TemplateInv, FirstLeft, SameTemplate
<1>6. QED
  BY <1>1, <1>3, <1>4, <1>5 DEF TemplateInv

LEMMA CallStep == TemplateInv /\ CallDriver => TemplateInv'
<1> SUFFICES ASSUME TemplateInv, CallDriver PROVE TemplateInv'
  OBVIOUS
<1>1. /\ preview \in DOMAIN fixtures /\ fixtures' = fixtures /\ preview' = None
      /\ consumed' = consumed \cup {preview}
  BY DEF CallDriver, MatchingIndices, Consumed
<1>2. FirstLeft(preview)
  BY <1>1, Positions, NoPositionAssumption DEF TemplateInv
<1>3. \A n \in DOMAIN fixtures' : n \in consumed' => FirstLeft(n)'
  <2> TAKE n \in DOMAIN fixtures'
  <2> HAVE n \in consumed'
  <2>1. FirstLeft(n)
    BY <1>1, <1>2 DEF TemplateInv
  <2>2. QED
    BY <1>1, <2>1, FirstStaysFirst
<1>4. QED
  BY <1>1, <1>3 DEF TemplateInv

LEMMA TemplateStep == TemplateInv /\ [CommandNext]_commandVars => TemplateInv'
<1> SUFFICES ASSUME TemplateInv, [CommandNext]_commandVars PROVE TemplateInv'
  OBVIOUS
<1>1. CASE Executes
  <2>1. CASE FixtureProgress
    BY <2>1, TemplateKept DEF FixtureProgress, driverVars
  <2>2. CASE PreviewEffect
    BY <2>2, PreviewStep
  <2>3. CASE CallDriver
    BY <2>3, CallStep
  <2>4. CASE GiveUp
    BY <2>4, TemplateKept DEF GiveUp
  <2>5. QED
    BY <1>1, <2>1, <2>2, <2>3, <2>4 DEF Executes, FixtureStep
<1>2. CASE \/ PersistSnapshot \/ PersistNext \/ PersistTrace \/ PublishState \/ Crash
           \/ ReplayTrace \/ Gone \/ UNCHANGED commandVars
  BY <1>2, TemplateKept
     DEF PersistSnapshot, PersistNext, PersistTrace, PublishState, Crash, ReplayTrace, Gone,
         KeepSession, commandVars, fixtureVars, driverVars
<1>3. CASE ResumeAny
  BY <1>3, TemplateKept DEF ResumeAny, Resume, driverVars
<1>4. QED
  BY <1>1, <1>2, <1>3 DEF CommandNext, CommandStep

\* FixtureDriver never lets a fixture answer before an earlier one with the
\* same template.
THEOREM TemplatesInOrder == CommandSpec => []EqualTemplatesInOrder
<1>1. TemplateInv => EqualTemplatesInOrder
  BY DEF TemplateInv, FirstLeft, SameTemplate, EqualTemplatesInOrder
<1>2. QED
  BY <1>1, TemplateInit, TemplateStep, PTL DEF CommandSpec
-----------------------------------------------------------------------------
(* Traces that have not completed *)

Completes(entry) == entry.event = "run_completed"

Open(trace) == \A n \in DOMAIN trace : ~Completes(trace[n])

Closed(trace) == Len(trace) > 0 /\ Completes(trace[Len(trace)])

LEMMA OpenExtension ==
  ASSUME NEW s, IsSequence(s), Open(s), NEW t, IsSequence(t), Open(t)
  PROVE  IsSequence(s \o t) /\ Open(s \o t)
<1>1. IsSequence(s \o t)
  BY ConcatIsSequence
<1>2. ASSUME NEW n \in DOMAIN (s \o t)
      PROVE  ~Completes((s \o t)[n])
  <2>1. /\ n \in 1..(Len(s) + Len(t)) /\ Len(s) \in Nat /\ Len(t) \in Nat
        /\ DOMAIN s = 1..Len(s) /\ DOMAIN t = 1..Len(t)
        /\ (s \o t)[n] = IF n <= Len(s) THEN s[n] ELSE t[n - Len(s)]
    BY <1>2, ConcatParts, SequenceParts
  <2>2. CASE n <= Len(s)
    BY <2>1, <2>2 DEF Open
  <2>3. CASE n > Len(s)
    <3>1. n - Len(s) \in DOMAIN t /\ (s \o t)[n] = t[n - Len(s)]
      BY <2>1, <2>3
    <3>2. QED
      BY <3>1 DEF Open
  <2>4. QED
    BY <2>1, <2>2, <2>3
<1>3. QED
  BY <1>1, <1>2 DEF Open

LEMMA OpenEntry ==
  ASSUME NEW s, IsSequence(s), Open(s), NEW e, ~Completes(e)
  PROVE  IsSequence(Append(s, e)) /\ Open(Append(s, e))
<1>1. Append(s, e) = s \o <<e>> /\ IsSequence(<<e>>)
  BY AppendConcat, SingletonIsSequence
<1>2. Open(<<e>>)
  BY DEF Open
<1>3. QED
  BY <1>1, <1>2, OpenExtension

LEMMA OpenAudits ==
  ASSUME NEW events, IsSequence(events)
  PROVE  IsSequence(Audits(events)) /\ Open(Audits(events))
BY AuditsIsSequence DEF Open, Completes, Audits

LEMMA FrontOfAppended ==
  ASSUME NEW s, IsSequence(s), NEW e
  PROVE  Front(Append(s, e)) = s
<1>1. /\ IsSequence(Append(s, e)) /\ Len(s) \in Nat /\ Len(Append(s, e)) = Len(s) + 1
      /\ \A i \in 1..Len(s) : Append(s, e)[i] = s[i]
  BY AppendIsSequence
<1>2. SubSeq(Append(s, e), 1, Len(s)) = SubSeq(s, 1, Len(s))
  BY <1>1, SamePrefix
<1>3. SubSeq(s, 1, Len(s)) = s
  BY SubSeqFull DEF IsSequence
<1>4. Len(Append(s, e)) - 1 = Len(s)
  BY <1>1
<1>5. QED
  BY <1>2, <1>3, <1>4 DEF Front

\* A trace that ends with a completion does not end with a seal.
LEMMA ClosedIsNotSealed ==
  ASSUME NEW trace, Closed(trace)
  PROVE  Last(trace) # SnapshotWritten
BY DEF Closed, Completes, Last, SnapshotWritten
-----------------------------------------------------------------------------
(* Sessions: the trace completes with the session, and no sealed           *)
(* continuation has a completion behind it.                                *)

WellEnded(s) ==
  /\ s.phase = "completed" => Closed(s.trace)
  /\ s.phase # "completed" => Open(s.trace)
  /\ \A n \in DOMAIN s.snapshots : Open(s.snapshots[n].checkpoint)

LEMMA RefusedEnds ==
  ASSUME NEW s, IsSession(s), WellEnded(s)
  PROVE  WellEnded(Refused(s))
<1>1. /\ Refused(s).trace = s.trace /\ Refused(s).phase = s.phase
      /\ Refused(s).snapshots = s.snapshots
  BY DEF IsSession, Refused
<1>2. QED
  BY <1>1 DEF WellEnded

LEMMA FailEnds ==
  ASSUME NEW s, IsSession(s), WellEnded(s), s.phase # "completed"
  PROVE  WellEnded(Fail(s))
<1>1. /\ Fail(s).trace = Append(s.trace, RunFailed) /\ Fail(s).phase = "failed"
      /\ Fail(s).snapshots = s.snapshots
  BY DEF IsSession, Fail
<1>2. Open(Append(s.trace, RunFailed))
  <2>1. ~Completes(RunFailed)
    BY DEF Completes, RunFailed
  <2>2. QED
    BY <2>1, OpenEntry DEF IsSession, WellEnded
<1>3. QED
  BY <1>1, <1>2 DEF WellEnded

LEMMA ProgressedEnds ==
  ASSUME run \in Runs, NEW s, IsSession(s), WellEnded(s), s.phase = "running"
  PROVE  WellEnded(Progressed(s))
<1> DEFINE m == s.machine
           r == Reaction(m)
           audited == s.trace \o Audits(r.audit)
           p == Progressed(s)
<1>1. /\ IsReaction(r) /\ IsSequence(s.trace) /\ Open(s.trace)
      /\ DOMAIN s = {"machine", "trace", "snapshots", "phase", "outcome", "error"}
  BY ReactionsAreReactions DEF IsSession, WellEnded
<1>2. IsSequence(audited) /\ Open(audited)
  <2>1. IsSequence(Audits(r.audit)) /\ Open(Audits(r.audit))
    BY <1>1, OpenAudits DEF IsReaction
  <2>2. QED
    BY <1>1, <2>1, OpenExtension
<1>3. CASE CanYield(m)
  <2> DEFINE e == Requested(Yielded(m))
  <2>1. ~Completes(e)
    BY DEF Completes, Requested
  <2>2. /\ p.trace = Append(audited, e) /\ p.phase = "awaiting_admission"
        /\ p.snapshots = s.snapshots
    BY <1>1, <1>3 DEF Progressed
  <2> HIDE DEF audited, e, p
  <2>3. Open(Append(audited, e))
    BY <1>2, <2>1, OpenEntry
  <2>4. WellEnded(p)
    BY <2>2, <2>3 DEF WellEnded
  <2>5. QED
    BY <2>4 DEF p
<1>4. CASE ~CanYield(m) /\ r.step = "completed"
  <2> DEFINE t == <<StateCommitted(r.outcome), RunCompleted(r.outcome)>>
  <2>1. IsSequence(t) /\ Len(t) = 2 /\ t[2].event = "run_completed"
    <3>1. t \in Seq({StateCommitted(r.outcome), RunCompleted(r.outcome)})
      OBVIOUS
    <3>2. IsSequence(t)
      BY <3>1, SeqOfRange DEF IsSequence
    <3>3. QED
      BY <3>2 DEF RunCompleted
  <2>2. /\ p.trace = audited \o t /\ p.phase = "completed"
        /\ p.snapshots = s.snapshots
    BY <1>1, <1>4 DEF Progressed
  <2> HIDE DEF audited, t, p
  <2>3. Closed(audited \o t)
    <3>1. Len(audited) \in Nat /\ Len(t) = 2
      BY <1>2, <2>1, SequenceParts
    <3>2. /\ Len(audited \o t) = Len(audited) + Len(t)
          /\ \A i \in 1..(Len(audited) + Len(t)) :
               (audited \o t)[i] = IF i <= Len(audited) THEN audited[i] ELSE t[i - Len(audited)]
      BY <1>2, <2>1, ConcatParts
    <3> DEFINE n == Len(audited) + 2
    <3>3. n \in 1..(Len(audited) + Len(t)) /\ ~(n <= Len(audited)) /\ n - Len(audited) = 2
      BY <3>1
    <3>4. (audited \o t)[n] = t[2] /\ Len(audited \o t) = n /\ n > 0
      BY <3>1, <3>2, <3>3
    <3> HIDE DEF n
    <3>5. QED
      BY <2>1, <3>4 DEF Closed, Completes
  <2>4. WellEnded(p)
    BY <2>2, <2>3 DEF WellEnded
  <2>5. QED
    BY <2>4 DEF p
<1>5. CASE ~CanYield(m) /\ r.step # "completed"
  <2>1. p.trace = audited /\ p.phase = "running" /\ p.snapshots = s.snapshots
    BY <1>1, <1>5 DEF Progressed
  <2> HIDE DEF audited, p
  <2>2. WellEnded(p)
    BY <1>2, <2>1 DEF WellEnded
  <2>3. QED
    BY <2>2 DEF p
<1>6. QED
  BY <1>3, <1>4, <1>5

\* admit: the seal is the last entry, and the continuation it seals is bound
\* to all entries before it.
LEMMA AdmitEnds ==
  ASSUME NEW s, IsSession(s), WellEnded(s), NEW request, NEW maximums
  PROVE  LET a == Admit(s, request, maximums)
         IN  /\ WellEnded(a)
             /\ ~a.error => a.trace = Append(a.machine.checkpoint, SnapshotWritten)
<1> DEFINE a == Admit(s, request, maximums)
<1>1. /\ IsSequence(s.trace) /\ IsSequence(s.snapshots)
      /\ DOMAIN s = {"machine", "trace", "snapshots", "phase", "outcome", "error"}
  BY DEF IsSession
<1>2. CASE /\ s.phase = "awaiting_admission"
           /\ request = s.machine.pending.request
           /\ CanReserveUsage(s.machine, maximums)
  <2> DEFINE reserved == UsageReserved(s.machine, maximums)
             entry == ReservedEvidence(reserved)
             evidence == Append(s.trace, entry)
             sealed == [reserved EXCEPT !.checkpoint = evidence]
             trace == Append(evidence, SnapshotWritten)
             snaps == Append(s.snapshots, sealed)
  <2>1. a = [s EXCEPT !.machine = sealed, !.trace = trace, !.snapshots = snaps,
                      !.phase = "awaiting_resolution"]
    BY <1>2 DEF Admit
  <2>2. IsSuspended(reserved)
    BY <1>2, UsageReservedIsSuspended DEF IsSession, Waiting
  <2>3. ~Completes(entry) /\ ~Completes(SnapshotWritten)
    BY DEF Completes, ReservedEvidence, SnapshotWritten
  <2>4. Open(s.trace)
    BY <1>2 DEF WellEnded
  <2> HIDE DEF reserved, entry, a
  <2>5. IsSequence(evidence) /\ Open(evidence)
    BY <1>1, <2>3, <2>4, OpenEntry
  <2> HIDE DEF evidence
  <2>6. Open(trace)
    BY <2>3, <2>5, OpenEntry
  <2>7. sealed.checkpoint = evidence
    BY <2>2 DEF IsSuspended, IsMachine
  <2> HIDE DEF sealed, trace
  <2>8. \A n \in DOMAIN snaps : Open(snaps[n].checkpoint)
    <3>1. /\ DOMAIN snaps = 1..(Len(s.snapshots) + 1) /\ DOMAIN s.snapshots = 1..Len(s.snapshots)
          /\ Len(s.snapshots) \in Nat
          /\ \A i \in 1..Len(s.snapshots) : snaps[i] = s.snapshots[i]
          /\ snaps[Len(s.snapshots) + 1] = sealed
      BY <1>1, AppendIsSequence
    <3> HIDE DEF snaps
    <3>2. ASSUME NEW n \in DOMAIN snaps PROVE Open(snaps[n].checkpoint)
      <4>1. CASE n = Len(s.snapshots) + 1
        BY <2>5, <2>7, <3>1, <4>1
      <4>2. CASE n # Len(s.snapshots) + 1
        <5>1. n \in DOMAIN s.snapshots /\ snaps[n] = s.snapshots[n]
          BY <3>1, <3>2, <4>2
        <5>2. QED
          BY <5>1 DEF WellEnded
      <4>3. QED
        BY <4>1, <4>2
    <3>3. QED
      BY <3>2
  <2> HIDE DEF snaps
  <2>9. /\ a.machine = sealed /\ a.trace = trace /\ a.snapshots = snaps
        /\ a.phase = "awaiting_resolution"
    BY <1>1, <2>1
  <2>10. WellEnded(a)
    BY <2>6, <2>8, <2>9 DEF WellEnded
  <2>11. QED
    BY <2>7, <2>9, <2>10 DEF a, trace
<1>3. CASE ~ (/\ s.phase = "awaiting_admission"
              /\ request = s.machine.pending.request
              /\ CanReserveUsage(s.machine, maximums))
  <2>1. a = Refused(s)
    BY <1>3 DEF Admit
  <2>2. Refused(s).error
    BY RefusedIsSession
  <2>3. QED
    BY <2>1, <2>2, RefusedEnds
<1>4. QED
  BY <1>2, <1>3

LEMMA ResolveEnds ==
  ASSUME run \in Runs, NEW s, IsSession(s), WellEnded(s), NEW request, NEW payload, NEW usage
  PROVE  WellEnded(Resolve(s, request, payload, usage))
<1> DEFINE m == s.machine
           supplied == Supplied(m, payload, usage)
           entry == ResolvedEvidence(m, payload, usage)
           resolved == Append(s.trace, entry)
           r == Resolve(s, request, payload, usage)
<1>1. /\ IsSequence(s.trace)
      /\ DOMAIN s = {"machine", "trace", "snapshots", "phase", "outcome", "error"}
  BY DEF IsSession
<1>2. CASE s.phase # "awaiting_resolution" \/ request # m.pending.request
  BY <1>2, RefusedEnds DEF Resolve
<1>3. CASE s.phase = "awaiting_resolution" /\ request = m.pending.request
  <2>1. IsSuspended(m) /\ Open(s.trace)
    BY <1>3 DEF IsSession, Waiting, WellEnded
  <2>2. ~Completes(entry)
    BY DEF Completes, ResolvedEvidence
  <2>3. IsSequence(resolved) /\ Open(resolved)
    <3> HIDE DEF entry
    <3>1. QED
      BY <1>1, <2>1, <2>2, OpenEntry
  <2>4. CASE ~AcceptsAnswer(m, payload, usage)
    <3>1. r.trace = resolved /\ r.phase = s.phase /\ r.snapshots = s.snapshots
      BY <1>1, <1>3, <2>4 DEF Resolve
    <3> HIDE DEF r, resolved
    <3>2. WellEnded(r)
      BY <1>3, <2>3, <3>1 DEF WellEnded
    <3>3. QED
      BY <3>2 DEF r
  <2>5. CASE AcceptsAnswer(m, payload, usage)
    <3> DEFINE audits == Audits(Reaction(supplied).decoded)
               last == SettledEvidence(Admitted(m), usage, supplied.budget)
    <3>1. payload \in m.pending.expected
      BY <2>5 DEF AcceptsAnswer
    <3>2. supplied.answers = Append(m.answers, payload)
      BY <2>1, <2>5 DEF Supplied, IsSuspended, IsMachine
    <3>3. Append(m.answers, payload) \in DOMAIN run.program
      BY <2>1, <3>1, ReactionsAreReactions DEF IsSuspended
    <3>4. IsReaction(Reaction(supplied))
      BY <3>2, <3>3, RunsAssumption DEF IsProgram, Reaction
    <3>5. IsSequence(audits) /\ Open(audits)
      BY <3>4, OpenAudits DEF IsReaction
    <3>6. ~Completes(last)
      BY DEF Completes, SettledEvidence
    <3>7. /\ r.trace = resolved \o audits \o <<last>> /\ r.phase = "running"
          /\ r.snapshots = s.snapshots
      BY <1>1, <1>3, <2>5 DEF Resolve
    <3> HIDE DEF audits, last, resolved, r
    <3>8. IsSequence(resolved \o audits) /\ Open(resolved \o audits)
      BY <2>3, <3>5, OpenExtension
    <3>9. resolved \o audits \o <<last>> = Append(resolved \o audits, last)
      BY <3>8, AppendConcat
    <3>10. Open(r.trace)
      BY <3>6, <3>7, <3>8, <3>9, OpenEntry
    <3>11. WellEnded(r)
      BY <3>7, <3>10 DEF WellEnded
    <3>12. QED
      BY <3>11 DEF r
  <2>6. QED
    BY <2>4, <2>5
<1>4. QED
  BY <1>2, <1>3
-----------------------------------------------------------------------------
(* aster resume *)

\* The effect of the one continuation it has sealed is what the trace ends at.
AtSeal(s) ==
  /\ s.phase = "awaiting_resolution" /\ Len(s.snapshots) = 1
  /\ s.trace = Append(s.snapshots[1].checkpoint, SnapshotWritten)

LEMMA RewoundIsSession ==
  ASSUME NEW trace, NEW snapshot, IsSuspended(snapshot), Open(snapshot.checkpoint)
  PROVE  LET s == Rewound(trace, snapshot)
         IN  IsSession(s) /\ WellEnded(s) /\ s.snapshots = <<>>
<1> DEFINE s == Rewound(trace, snapshot)
<1>1. /\ s.machine = snapshot /\ s.trace = snapshot.checkpoint /\ s.snapshots = <<>>
      /\ s.phase = "awaiting_resolution" /\ s.error = FALSE
      /\ DOMAIN s = {"machine", "trace", "snapshots", "phase", "outcome", "error"}
  BY DEF Rewound, Restored, RestoredOn
<1>2. IsSequence(<<>>) /\ DOMAIN <<>> = {}
  BY EmptySeq DEF IsSequence
<1> HIDE DEF s
<1>3. IsSession(s)
  BY <1>1, <1>2 DEF IsSession, IsSuspended, IsMachine
<1>4. WellEnded(s)
  BY <1>1, <1>2 DEF WellEnded
<1>5. QED
  BY <1>1, <1>3, <1>4 DEF s

\* A resume that does not fail is over, or at the next effect with its
\* continuation sealed.
LEMMA ResumedEnds ==
  ASSUME run \in Runs, NEW trace, NEW snapshot, IsSuspended(snapshot), Open(snapshot.checkpoint),
         NEW request, NEW payload, NEW usage
  PROVE  LET r == Resumed(trace, snapshot, request, payload, usage)
         IN  IsSession(r) /\ WellEnded(r) /\ (~r.error => r.phase = "completed" \/ AtSeal(r))
<1> DEFINE w == Rewound(trace, snapshot)
           resolved == Resolve(w, request, payload, usage)
           progressed == Progressed(resolved)
           admitted == Admit(progressed, progressed.machine.pending.request, NoUsage)
           r == Resumed(trace, snapshot, request, payload, usage)
<1>1. r = IF resolved.error THEN resolved
          ELSE IF progressed.error \/ progressed.phase = "completed" THEN progressed
          ELSE admitted
  BY DEF Resumed
<1> HIDE DEF r
<1>2. IsSession(w) /\ WellEnded(w) /\ w.snapshots = <<>>
  BY RewoundIsSession
<1> HIDE DEF w
<1>3. /\ IsSession(resolved) /\ resolved.snapshots = <<>>
      /\ ~resolved.error => resolved.phase = "running"
  BY <1>2, ResolveIsSession
<1>4. WellEnded(resolved)
  BY <1>2, ResolveEnds
<1> HIDE DEF resolved
<1>5. CASE resolved.error
  BY <1>1, <1>3, <1>4, <1>5 DEF r
<1>6. CASE ~resolved.error
  <2>1. /\ IsSession(progressed) /\ progressed.snapshots = <<>>
        /\ ~progressed.error => progressed.phase \in {"awaiting_admission", "completed"}
    BY <1>3, <1>6, ProgressedIsSession
  <2>2. WellEnded(progressed)
    BY <1>3, <1>4, <1>6, ProgressedEnds
  <2> HIDE DEF progressed
  <2>3. CASE progressed.error \/ progressed.phase = "completed"
    BY <1>1, <1>6, <2>1, <2>2, <2>3 DEF r
  <2>4. CASE ~progressed.error /\ progressed.phase # "completed"
    <3>1. /\ IsSession(admitted)
          /\ ~admitted.error => /\ admitted.phase = "awaiting_resolution"
                                /\ admitted.snapshots = Append(progressed.snapshots, admitted.machine)
      BY <2>1, AdmitIsSession
    <3>2. /\ WellEnded(admitted)
          /\ ~admitted.error =>
               admitted.trace = Append(admitted.machine.checkpoint, SnapshotWritten)
      BY <2>1, <2>2, AdmitEnds
    <3> HIDE DEF admitted
    <3>3. ASSUME ~admitted.error PROVE AtSeal(admitted)
      <4>1. admitted.snapshots = <<admitted.machine>>
        BY <2>1, <3>1, <3>3
      <4>2. Len(admitted.snapshots) = 1 /\ admitted.snapshots[1] = admitted.machine
        BY <4>1
      <4>3. QED
        BY <3>1, <3>2, <3>3, <4>2 DEF AtSeal
    <3>4. QED
      BY <1>1, <1>6, <2>4, <3>1, <3>2, <3>3 DEF r
  <2>5. QED
    BY <2>3, <2>4
<1>7. QED
  BY <1>5, <1>6
-----------------------------------------------------------------------------
(* The inductive invariant *)

\* What is written: a trace that ends with a completion or has none, and
\* continuations of programs that had not completed.
DiskInv ==
  /\ DOMAIN disk = {"snapshots", "next", "trace", "state"}
  /\ Open(disk.trace) \/ Closed(disk.trace)
  /\ IsSequence(disk.snapshots)
  /\ \A snapshot \in Files : IsSuspended(snapshot) /\ Open(snapshot.checkpoint)

\* What a command that writes its files has come to.
WritingInv ==
  \/ command = "run" /\ session.phase \in {"completed", "failed"}
  \/ command = "resume" /\ session.phase = "completed"
  \/ /\ command = "resume" /\ AtSeal(session)
     /\ files = 1 => disk.next = {session.snapshots[1]}

CommandInv ==
  /\ run \in Runs /\ files \in Nat
  /\ IsSession(session) /\ WellEnded(session)
  /\ DiskInv
  /\ at = "executing" => command = "run"
  /\ at # "exited" => exit = "running"
  /\ at = "persisting" => WritingInv
  /\ at = "publishing" => Closed(disk.trace)
  /\ LeavesTheEffect

LEMMA CommandInvInit == CommandInit => CommandInv
<1> SUFFICES ASSUME CommandInit PROVE CommandInv
  OBVIOUS
<1>1. run \in Runs /\ session = Started
  BY DEF CommandInit, FixtureInit, RecordInit
<1>2. IsSequence(<<>>) /\ DOMAIN <<>> = {} /\ Range(<<>>) = {}
  BY EmptySeq DEF IsSequence, Range
<1>3. IsSequence(Header) /\ Open(Header)
  <2>1. Header \in Seq({[event |-> "run_header"], [event |-> "event_received"],
                        [event |-> "fingerprints"]})
    BY DEF Header
  <2>2. IsSequence(Header)
    BY <2>1, SeqOfRange DEF IsSequence
  <2>3. Open(Header)
    <3>1. DOMAIN Header = {1, 2, 3}
      BY DEF Header
    <3>2. ~Completes(Header[1]) /\ ~Completes(Header[2]) /\ ~Completes(Header[3])
      BY DEF Header, Completes
    <3> HIDE DEF Header
    <3>3. QED
      BY <3>1, <3>2 DEF Open
  <2>4. QED
    BY <2>2, <2>3
<1>4. IsSession(session) /\ WellEnded(session)
  <2>1. /\ DOMAIN session = {"machine", "trace", "snapshots", "phase", "outcome", "error"}
        /\ session.machine = NewMachine /\ session.trace = Header /\ session.snapshots = <<>>
        /\ session.phase = "running" /\ session.error = FALSE
    BY <1>1 DEF Started
  <2>2. IsMachine(NewMachine)
    BY <1>1, <1>2, RunsAssumption DEF IsMachine, NewMachine, IsProgram
  <2> HIDE DEF Header, NewMachine
  <2>3. QED
    BY <1>2, <1>3, <2>1, <2>2 DEF IsSession, WellEnded, Waiting
<1>5. DiskInv
  BY <1>2 DEF CommandInit, DiskInv, Files, Open
<1>6. QED
  BY <1>1, <1>4, <1>5 DEF CommandInit, CommandInv, LeavesTheEffect

\* The program never changes, so that a session of the next state is one.
LEMMA SameSession ==
  ASSUME CommandInv, run' = run, IsSession(session'), WellEnded(session')
  PROVE  run' \in Runs /\ IsSession(session)' /\ WellEnded(session)'
BY DEF CommandInv, IsSession, IsSuspended, IsMachine, Reaction, WellEnded, Open, Closed, Completes

LEMMA SameDisk ==
  ASSUME CommandInv, UNCHANGED <<run, disk>>
  PROVE  DiskInv'
BY DEF CommandInv, DiskInv, Files, Open, Closed, Completes, IsSuspended, IsMachine, Reaction

LEMMA FixtureEnds ==
  ASSUME CommandInv, FixtureStep
  PROVE  run' = run /\ IsSession(session') /\ WellEnded(session')
<1>1. run \in Runs /\ IsSession(session) /\ WellEnded(session)
  BY DEF CommandInv
<1>2. CASE FixtureProgress
  <2>1. session.phase = "running" /\ session' = Progressed(session) /\ run' = run
    BY <1>2 DEF FixtureProgress, Progress
  <2>2. QED
    BY <1>1, <2>1, ProgressedIsSession, ProgressedEnds
<1>3. CASE PreviewEffect
  <2>1. PICK maximums : session' = Admit(session, Request, maximums) /\ run' = run
    BY <1>3 DEF PreviewEffect, AdmitEffect
  <2>2. IsSession(session')
    BY <1>1, <2>1, AdmitIsSession
  <2>3. WellEnded(session')
    BY <1>1, <2>1, AdmitEnds
  <2>4. QED
    BY <2>1, <2>2, <2>3
<1>4. CASE CallDriver
  <2>1. CASE WithinMaximum(fixtures[preview])
    <3>1. PICK payload, usage : session' = Resolve(session, Request, payload, usage) /\ run' = run
      BY <1>4, <2>1 DEF CallDriver, ResolveEffect
    <3>2. IsSession(session')
      BY <1>1, <3>1, ResolveIsSession
    <3>3. QED
      BY <1>1, <3>1, <3>2, ResolveEnds
  <2>2. CASE ~WithinMaximum(fixtures[preview])
    <3>1. session' = Fail(session) /\ run' = run /\ session.phase # "completed"
      BY <1>4, <2>2 DEF CallDriver, FailSession
    <3>2. QED
      BY <1>1, <3>1, FailIsSession, FailEnds
  <2>3. QED
    BY <2>1, <2>2
<1>5. CASE GiveUp
  <2>1. session' = Fail(session) /\ run' = run /\ session.phase # "completed"
    BY <1>5 DEF GiveUp, FailSession, Ended
  <2>2. QED
    BY <1>1, <2>1, FailIsSession, FailEnds
<1>6. QED
  BY <1>2, <1>3, <1>4, <1>5 DEF FixtureStep
-----------------------------------------------------------------------------
(* The steps *)

LEMMA ExecutesStep == CommandInv /\ Executes => CommandInv'
<1> SUFFICES ASSUME CommandInv, Executes PROVE CommandInv'
  OBVIOUS
<1>1. /\ at = "executing" /\ command = "run" /\ exit = "running"
      /\ UNCHANGED <<command, files, exit, disk>>
      /\ at' = IF session'.phase \in {"completed", "failed"} THEN "persisting" ELSE at
  BY DEF Executes, CommandInv
<1>2. run' = run /\ IsSession(session') /\ WellEnded(session')
  BY FixtureEnds DEF Executes
<1>3. run' \in Runs /\ IsSession(session)' /\ WellEnded(session)'
  BY <1>2, SameSession
<1>4. DiskInv'
  BY <1>1, <1>2, SameDisk
<1>5. LeavesTheEffect'
  BY <1>1 DEF LeavesTheEffect
<1>6. (at = "persisting" => WritingInv)'
  BY <1>1 DEF WritingInv
<1>7. QED
  BY <1>1, <1>3, <1>4, <1>5, <1>6 DEF CommandInv

LEMMA RangeOfAppended ==
  ASSUME NEW s, IsSequence(s), NEW e
  PROVE  Range(Append(s, e)) \subseteq Range(s) \cup {e}
<1>1. /\ DOMAIN s = 1..Len(s) /\ Len(s) \in Nat
      /\ DOMAIN Append(s, e) = 1..(Len(s) + 1)
      /\ \A i \in 1..Len(s) : Append(s, e)[i] = s[i]
      /\ Append(s, e)[Len(s) + 1] = e
  BY AppendIsSequence
<1>2. \A i \in 1..(Len(s) + 1) : i \in 1..Len(s) \/ i = Len(s) + 1
  BY <1>1
<1>3. QED
  BY <1>1, <1>2 DEF Range

\* Files that are one more continuation of the session.
LEMMA MoreFiles ==
  ASSUME CommandInv, KeepSession, NEW snapshot,
         IsSuspended(snapshot), Open(snapshot.checkpoint),
         DOMAIN disk' = DOMAIN disk, disk'.trace = disk.trace, IsSequence(disk'.snapshots),
         Files' \subseteq Files \cup {snapshot}
  PROVE  DiskInv'
<1>1. run' = run
  BY DEF KeepSession, fixtureVars, recordVars
<1>2. \A f \in Files' : IsSuspended(f) /\ Open(f.checkpoint)
  BY DEF CommandInv, DiskInv
<1>3. (\A f \in Files : IsSuspended(f) /\ Open(f.checkpoint))'
  BY <1>1, <1>2 DEF IsSuspended, IsMachine, Reaction, Open, Completes
<1>4. (Open(disk.trace) \/ Closed(disk.trace))'
  BY DEF CommandInv, DiskInv, Open, Closed, Completes
<1>5. QED
  BY <1>3, <1>4 DEF DiskInv, CommandInv

LEMMA PersistSnapshotStep == CommandInv /\ PersistSnapshot => CommandInv'
<1> SUFFICES ASSUME CommandInv, PersistSnapshot PROVE CommandInv'
  OBVIOUS
<1> DEFINE snapshot == session.snapshots[files + 1]
<1>1. /\ at = "persisting" /\ command = "run" /\ files' = files + 1 /\ files \in Nat
      /\ KeepSession /\ session' = session /\ run' = run /\ UNCHANGED <<command, at, exit>>
      /\ files < Len(session.snapshots) /\ exit = "running"
      /\ disk' = [disk EXCEPT !.snapshots = Append(@, snapshot)]
  BY DEF PersistSnapshot, CommandInv, KeepSession, fixtureVars, recordVars
<1>2. IsSuspended(snapshot) /\ Open(snapshot.checkpoint)
  <2>1. files + 1 \in DOMAIN session.snapshots
    BY <1>1, SequenceParts DEF CommandInv, IsSession
  <2>2. QED
    BY <2>1 DEF CommandInv, IsSession, WellEnded
<1> HIDE DEF snapshot
<1>3. /\ DOMAIN disk' = DOMAIN disk /\ disk'.trace = disk.trace /\ disk'.next = disk.next
      /\ disk'.snapshots = Append(disk.snapshots, snapshot)
  BY <1>1 DEF CommandInv, DiskInv
<1>4. IsSequence(disk'.snapshots) /\ Range(disk'.snapshots) \subseteq Range(disk.snapshots) \cup {snapshot}
  <2> DEFINE s == disk.snapshots
  <2>1. IsSequence(s)
    BY DEF CommandInv, DiskInv
  <2> HIDE DEF s
  <2>2. IsSequence(Append(s, snapshot)) /\ Range(Append(s, snapshot)) \subseteq Range(s) \cup {snapshot}
    BY <2>1, AppendIsSequence, RangeOfAppended
  <2>3. QED
    BY <1>3, <2>2 DEF s
<1>5. Files' \subseteq Files \cup {snapshot}
  BY <1>3, <1>4 DEF Files
<1>6. DiskInv'
  BY <1>1, <1>2, <1>3, <1>4, <1>5, MoreFiles
<1>7. run' \in Runs /\ IsSession(session)' /\ WellEnded(session)'
  BY <1>1, SameSession DEF CommandInv
<1>8. WritingInv'
  BY <1>1 DEF WritingInv, CommandInv
<1>9. LeavesTheEffect'
  BY <1>1 DEF LeavesTheEffect
<1>10. QED
  BY <1>1, <1>6, <1>7, <1>8, <1>9 DEF CommandInv

LEMMA PersistNextStep == CommandInv /\ PersistNext => CommandInv'
<1> SUFFICES ASSUME CommandInv, PersistNext PROVE CommandInv'
  OBVIOUS
<1> DEFINE snapshot == session.snapshots[1]
<1>1. /\ at = "persisting" /\ command = "resume" /\ files' = files + 1 /\ files \in Nat
      /\ KeepSession /\ session' = session /\ run' = run /\ UNCHANGED <<command, at, exit>>
      /\ files < Len(session.snapshots) /\ exit = "running"
      /\ disk' = [disk EXCEPT !.next = {snapshot}]
  BY DEF PersistNext, CommandInv, KeepSession, fixtureVars, recordVars
<1>2. IsSuspended(snapshot) /\ Open(snapshot.checkpoint)
  <2>1. 1 \in DOMAIN session.snapshots
    BY <1>1, SequenceParts DEF CommandInv, IsSession
  <2>2. QED
    BY <2>1 DEF CommandInv, IsSession, WellEnded
<1>3. /\ DOMAIN disk' = DOMAIN disk /\ disk'.trace = disk.trace /\ disk'.next = {snapshot}
      /\ disk'.snapshots = disk.snapshots
  BY <1>1 DEF CommandInv, DiskInv
<1>4. Files' \subseteq Files \cup {snapshot} /\ IsSequence(disk'.snapshots)
  BY <1>3 DEF Files, CommandInv, DiskInv
<1>5. DiskInv'
  <2> HIDE DEF snapshot
  <2>1. QED
    BY <1>1, <1>2, <1>3, <1>4, MoreFiles
<1>6. run' \in Runs /\ IsSession(session)' /\ WellEnded(session)'
  BY <1>1, SameSession DEF CommandInv
<1>7. WritingInv'
  BY <1>1, <1>3 DEF WritingInv, CommandInv, AtSeal
<1>8. LeavesTheEffect'
  BY <1>1 DEF LeavesTheEffect
<1>9. QED
  BY <1>1, <1>5, <1>6, <1>7, <1>8 DEF CommandInv

\* The trace is written after the continuation of the effect it ends at.
LEMMA PersistTraceStep == CommandInv /\ PersistTrace => CommandInv'
<1> SUFFICES ASSUME CommandInv, PersistTrace PROVE CommandInv'
  OBVIOUS
<1>1. /\ at = "persisting" /\ files = Len(session.snapshots) /\ exit = "running"
      /\ KeepSession /\ session' = session /\ run' = run /\ UNCHANGED <<command, files>>
      /\ disk' = [disk EXCEPT !.trace = session.trace]
  BY DEF PersistTrace, AllFilesWritten, CommandInv, KeepSession, fixtureVars, recordVars
<1>2. IF session.phase = "completed"
      THEN at' = "publishing" /\ exit' = exit
      ELSE at' = "exited" /\ exit' = IF session.phase = "failed" THEN "failed" ELSE "succeeded"
  BY DEF PersistTrace
<1>3. /\ DOMAIN disk' = DOMAIN disk /\ disk'.trace = session.trace
      /\ disk'.next = disk.next /\ disk'.snapshots = disk.snapshots
  BY <1>1 DEF CommandInv, DiskInv
<1>4. WellEnded(session) /\ (session.phase = "completed" => Closed(disk'.trace))
  BY <1>3 DEF CommandInv, WellEnded
<1>5. DiskInv'
  <2>1. Open(disk'.trace) \/ Closed(disk'.trace)
    BY <1>3, <1>4 DEF WellEnded
  <2>2. Files' = Files
    BY <1>3 DEF Files
  <2>3. \A f \in Files' : IsSuspended(f) /\ Open(f.checkpoint)
    BY <2>2 DEF CommandInv, DiskInv
  <2>4. (\A f \in Files : IsSuspended(f) /\ Open(f.checkpoint))'
    BY <1>1, <2>3 DEF IsSuspended, IsMachine, Reaction, Open, Completes
  <2>5. (Open(disk.trace) \/ Closed(disk.trace))'
    BY <2>1 DEF Open, Closed, Completes
  <2>6. IsSequence(disk'.snapshots)
    BY <1>3 DEF CommandInv, DiskInv
  <2>7. QED
    BY <1>3, <2>4, <2>5, <2>6 DEF DiskInv, CommandInv
<1>6. run' \in Runs /\ IsSession(session)' /\ WellEnded(session)'
  BY <1>1, SameSession DEF CommandInv
<1>7. (at = "publishing" => Closed(disk.trace))'
  BY <1>2, <1>4 DEF Closed, Completes
<1>8. LeavesTheEffect'
  <2> SUFFICES ASSUME exit' = "succeeded"
               PROVE  \E snapshot \in Files' : snapshot.checkpoint = Front(disk'.trace)
    BY DEF LeavesTheEffect
  <2> DEFINE snapshot == session.snapshots[1]
  <2>1. AtSeal(session) /\ disk.next = {snapshot}
    BY <1>1, <1>2 DEF CommandInv, WritingInv, AtSeal
  <2>2. snapshot \in Files' /\ disk'.trace = Append(snapshot.checkpoint, SnapshotWritten)
    BY <1>3, <2>1 DEF Files, AtSeal
  <2>3. IsSequence(snapshot.checkpoint)
    BY <2>1 DEF CommandInv, DiskInv, Files, IsSuspended, IsMachine
  <2> HIDE DEF snapshot
  <2>4. Front(disk'.trace) = snapshot.checkpoint
    BY <2>2, <2>3, FrontOfAppended
  <2>5. QED
    BY <2>2, <2>4
<1>9. QED
  BY <1>1, <1>2, <1>5, <1>6, <1>7, <1>8 DEF CommandInv

\* Only the state file changes.
LEMMA StateOnly ==
  ASSUME CommandInv, run' = run, NEW state, disk' = [disk EXCEPT !.state = state]
  PROVE  DiskInv' /\ disk'.trace = disk.trace /\ Files' = Files
<1>1. /\ DOMAIN disk' = DOMAIN disk /\ disk'.trace = disk.trace
      /\ disk'.next = disk.next /\ disk'.snapshots = disk.snapshots
  BY DEF CommandInv, DiskInv
<1>2. Files' = Files
  BY <1>1 DEF Files
<1>3. (\A f \in Files : IsSuspended(f) /\ Open(f.checkpoint))'
  BY <1>2 DEF CommandInv, DiskInv, IsSuspended, IsMachine, Reaction, Open, Completes
<1>4. (Open(disk.trace) \/ Closed(disk.trace))'
  BY <1>1 DEF CommandInv, DiskInv, Open, Closed, Completes
<1>5. IsSequence(disk'.snapshots)
  BY <1>1 DEF CommandInv, DiskInv
<1>6. QED
  BY <1>1, <1>2, <1>3, <1>4, <1>5 DEF DiskInv, CommandInv

LEMMA PublishStep == CommandInv /\ PublishState => CommandInv'
<1> SUFFICES ASSUME CommandInv, PublishState PROVE CommandInv'
  OBVIOUS
<1>1. /\ at' = "exited" /\ session' = session /\ run' = run /\ UNCHANGED <<command, files>>
      /\ disk' = [disk EXCEPT !.state = session.outcome] /\ Closed(disk.trace)
  BY DEF PublishState, CommandInv, KeepSession, fixtureVars, recordVars
<1>2. DiskInv' /\ disk'.trace = disk.trace
  BY <1>1, StateOnly
<1>3. LeavesTheEffect'
  BY <1>1, <1>2, ClosedIsNotSealed DEF LeavesTheEffect
<1>4. run' \in Runs /\ IsSession(session)' /\ WellEnded(session)'
  BY <1>1, SameSession DEF CommandInv
<1>5. QED
  BY <1>1, <1>2, <1>3, <1>4 DEF CommandInv

LEMMA ReplayStep == CommandInv /\ ReplayTrace => CommandInv'
<1> SUFFICES ASSUME CommandInv, ReplayTrace PROVE CommandInv'
  OBVIOUS
<1>1. PICK state : /\ at' = "exited" /\ session' = session /\ run' = run /\ files' = files
                   /\ disk' = [disk EXCEPT !.state = state] /\ Replays(disk.trace)
  BY DEF ReplayTrace, KeepSession, fixtureVars, recordVars
<1>2. DiskInv' /\ disk'.trace = disk.trace
  BY <1>1, StateOnly
<1>3. Closed(disk.trace)
  <2>1. ~Open(disk.trace)
    BY <1>1 DEF Replays, Open, Completes
  <2>2. QED
    BY <2>1 DEF CommandInv, DiskInv
<1>4. LeavesTheEffect'
  BY <1>2, <1>3, ClosedIsNotSealed DEF LeavesTheEffect
<1>5. run' \in Runs /\ IsSession(session)' /\ WellEnded(session)'
  BY <1>1, SameSession DEF CommandInv
<1>6. QED
  BY <1>1, <1>2, <1>4, <1>5 DEF CommandInv

LEMMA ResumeStep == CommandInv /\ ResumeAny => CommandInv'
<1> SUFFICES ASSUME CommandInv,
                    NEW snapshot \in Files, NEW request, NEW payload, NEW usage,
                    Resume(snapshot, request, payload, usage)
             PROVE  CommandInv'
  BY DEF ResumeAny
<1>1. /\ command' = "resume" /\ files' = 0 /\ run' = run /\ disk' = disk
      /\ session' = Resumed(disk.trace, snapshot, request, payload, usage)
  BY DEF Resume
<1>2. IF session'.error THEN at' = "exited" /\ exit' = "failed"
      ELSE at' = "persisting" /\ exit' = "running"
  BY DEF Resume
<1>3. run \in Runs /\ IsSuspended(snapshot) /\ Open(snapshot.checkpoint)
  BY DEF CommandInv, DiskInv
<1>4. /\ IsSession(session') /\ WellEnded(session')
      /\ ~session'.error => session'.phase = "completed" \/ AtSeal(session')
  BY <1>1, <1>3, ResumedEnds
<1>5. run' \in Runs /\ IsSession(session)' /\ WellEnded(session)'
  BY <1>1, <1>4, SameSession
<1>6. DiskInv'
  BY <1>1, SameDisk
<1>7. (at = "persisting" => WritingInv)'
  BY <1>1, <1>2, <1>4 DEF WritingInv, AtSeal
<1>8. LeavesTheEffect'
  BY <1>2 DEF LeavesTheEffect
<1>9. QED
  BY <1>1, <1>2, <1>5, <1>6, <1>7, <1>8 DEF CommandInv

\* A crash, and a process that is gone, leave the disk as it is.
LEMMA LeaveStep ==
  ASSUME CommandInv, Crash \/ Gone \/ UNCHANGED commandVars
  PROVE  CommandInv'
<1>1. session' = session /\ run' = run /\ UNCHANGED <<command, files, disk>>
  BY DEF Crash, Gone, KeepSession, commandVars, fixtureVars, recordVars
<1>2. \/ at' = "exited" /\ exit' = "crashed"
      \/ at' = at /\ exit' = exit
  BY DEF Crash, Gone, commandVars
<1>3. run' \in Runs /\ IsSession(session)' /\ WellEnded(session)'
  BY <1>1, SameSession DEF CommandInv
<1>4. DiskInv'
  BY <1>1, SameDisk
<1>5. LeavesTheEffect'
  BY <1>1, <1>2 DEF CommandInv, LeavesTheEffect, Files
<1>6. /\ (at = "persisting" => WritingInv)'
      /\ (at = "publishing" => Closed(disk.trace))'
  BY <1>1, <1>2 DEF CommandInv, WritingInv, AtSeal, Closed, Completes
<1>7. QED
  BY <1>1, <1>2, <1>3, <1>4, <1>5, <1>6 DEF CommandInv

LEMMA CommandInvStep == CommandInv /\ [CommandNext]_commandVars => CommandInv'
<1>1. CommandInv /\ (Crash \/ Gone \/ UNCHANGED commandVars) => CommandInv'
  BY LeaveStep
<1>2. QED
  BY <1>1, ExecutesStep, PersistSnapshotStep, PersistNextStep, PersistTraceStep, PublishStep,
     ResumeStep, ReplayStep DEF CommandNext, CommandStep

-----------------------------------------------------------------------------
(* The machine's ledger of count dimensions: a unit leaves it when an      *)
(* effect is yielded, and no other step gives or takes one.                *)

Left(m, d) == m.budget.remaining[d]

Ledger(m) ==
  /\ DOMAIN m.budget = {"remaining", "reservations", "next_id"}
  /\ \A d \in CountDimensions : Left(m, d) \in Nat

\* One unit of every count dimension is held for the pending effect.
HoldsOne(m) ==
  \A d \in CountDimensions : d \in DOMAIN m.pending.held => m.pending.held[d].maximum = 1

SameLeft(m, n) == \A d \in CountDimensions : Left(m, d) = Left(n, d)

LEMMA KindDimensions ==
  /\ \A k \in EffectKind : Dimension(k) \in CountDimensions
  /\ \A j, k \in EffectKind : Dimension(j) = Dimension(k) => j = k
<1>1. /\ Dimension("model") = "model_calls" /\ Dimension("read") = "external_reads"
      /\ Dimension("approval") = "approvals" /\ Dimension("write") = "external_writes"
  BY DEF Dimension
<1>2. QED
  BY <1>1 DEF EffectKind, CountDimensions

LEMMA CountsAreBudgeted ==
  /\ CountDimensions \subseteq BudgetDimension
  /\ \A d \in CountDimensions : d \notin UsageDimensions
BY DEF CountDimensions, UsageDimensions, BudgetDimension

LEMMA ReservedLeft ==
  ASSUME NEW b, NEW maximums
  PROVE  LET r == Reserve(b, maximums)
         IN  /\ DOMAIN r = {"remaining", "reservations", "next_id"}
             /\ \A d \in BudgetDimension :
                  r.remaining[d] = IF d \in DOMAIN maximums THEN b.remaining[d] - maximums[d]
                                                            ELSE b.remaining[d]
BY DEF Reserve

\* The instruction that yields takes one unit of the dimension of its kind.
LEMMA YieldedLedger ==
  ASSUME run \in Runs, NEW m, IsMachine(m), CanYield(m), Ledger(m)
  PROVE  LET y == Yielded(m)
             k == y.pending.request.kind
         IN  /\ Ledger(y) /\ HoldsOne(y) /\ k \in EffectKind
             /\ \A d \in CountDimensions :
                  Left(y, d) = IF d = Dimension(k) THEN Left(m, d) - 1 ELSE Left(m, d)
<1> DEFINE y == Yielded(m)
           r == Reaction(m)
           one == [d \in {r.dimension} |-> 1]
           k == r.request.kind
<1>1. r.step = "yield" /\ 1 <= m.budget.remaining[r.dimension]
  BY DEF CanYield, CanReserve
<1>2. k \in EffectKind /\ r.dimension = Dimension(k)
  BY <1>1, KindsAssumption DEF IsMachine, Reaction
<1>3. /\ y.budget = Reserve(m.budget, one) /\ y.pending.request = r.request
      /\ y.pending.held = ReservationsFor(m.budget, one)
  BY DEF Yielded, IsMachine
<1> HIDE DEF y, r
<1>4. DOMAIN one = {r.dimension} /\ one[r.dimension] = 1
  OBVIOUS
<1> HIDE DEF one
<1>5. HoldsOne(y)
  BY <1>3, <1>4 DEF HoldsOne, ReservationsFor
<1>6. /\ DOMAIN y.budget = {"remaining", "reservations", "next_id"}
      /\ \A d \in CountDimensions :
           Left(y, d) = IF d = r.dimension THEN Left(m, d) - 1 ELSE Left(m, d)
  BY <1>3, <1>4, ReservedLeft, CountsAreBudgeted DEF Left
<1>7. ASSUME NEW d \in CountDimensions PROVE Left(y, d) \in Nat
  <2>1. Left(m, d) \in Nat
    BY DEF Ledger
  <2>2. CASE d = r.dimension
    <3>1. Left(y, d) = Left(m, d) - 1 /\ 1 <= Left(m, d)
      BY <1>1, <1>6, <2>2 DEF Left
    <3>2. QED
      BY <2>1, <3>1
  <2>3. CASE d # r.dimension
    BY <1>6, <2>1, <2>3
  <2>4. QED
    BY <2>2, <2>3
<1>8. Ledger(y)
  BY <1>6, <1>7 DEF Ledger
<1>9. y.pending.request.kind = k
  BY <1>3
<1> HIDE DEF k
<1>10. QED
  BY <1>2, <1>5, <1>6, <1>8, <1>9 DEF y

\* Declared usage is reserved in other dimensions.
LEMMA ReservedLedger ==
  ASSUME NEW m, IsSuspended(m), Ledger(m), HoldsOne(m), NEW maximums, CanReserveUsage(m, maximums)
  PROVE  LET u == UsageReserved(m, maximums)
         IN  /\ Ledger(u) /\ HoldsOne(u) /\ SameLeft(u, m)
             /\ u.pending.request = m.pending.request
<1> DEFINE u == UsageReserved(m, maximums)
<1>1. CASE DOMAIN maximums = {}
  BY <1>1 DEF UsageReserved, SameLeft
<1>2. CASE DOMAIN maximums # {}
  <2> DEFINE more == MoreHeld(m, maximums)
  <2>1. u.budget = Reserve(m.budget, maximums) /\ u.pending = [m.pending EXCEPT !.held = more]
    BY <1>2, ReservedParts
  <2>2. \A d \in CountDimensions : d \notin DOMAIN maximums
    BY CountsAreBudgeted DEF CanReserveUsage
  <2>3. \A d \in CountDimensions : d \in DOMAIN more =>
          d \in DOMAIN m.pending.held /\ more[d] = m.pending.held[d]
    BY <2>2 DEF MoreHeld
  <2> HIDE DEF u, more
  <2>4. u.pending.held = more /\ u.pending.request = m.pending.request
    BY <2>1 DEF IsSuspended
  <2>5. HoldsOne(u)
    BY <2>3, <2>4 DEF HoldsOne
  <2>6. DOMAIN u.budget = {"remaining", "reservations", "next_id"} /\ SameLeft(u, m)
    BY <2>1, <2>2, ReservedLeft, CountsAreBudgeted DEF SameLeft, Left
  <2>7. QED
    BY <2>4, <2>5, <2>6 DEF Ledger, SameLeft, u
<1>3. QED
  BY <1>1, <1>2

\* Settling the one unit an effect holds gives nothing back.
LEMMA SuppliedLedger ==
  ASSUME NEW m, IsSuspended(m), Ledger(m), HoldsOne(m), NEW payload, NEW usage
  PROVE  LET w == Supplied(m, payload, usage)
         IN  Ledger(w) /\ SameLeft(w, m)
<1> DEFINE w == Supplied(m, payload, usage)
           dims == SettledDimensions(m, usage)
           spent == Spent(m, usage)
           b == Settle(m.budget, m.pending.held, spent, dims)
<1>1. w.budget = m.budget \/ w.budget = b
  BY DEF Supplied, IsSuspended, IsMachine
<1>2. dims \subseteq DOMAIN m.pending.held
  BY DEF SettledDimensions
<1>3. \A d \in CountDimensions : d \in dims => spent[d] = 1
  BY <1>2 DEF Spent
<1> HIDE DEF spent, dims
<1>4. /\ DOMAIN b = {"remaining", "reservations", "next_id"}
      /\ \A d \in BudgetDimension :
           b.remaining[d] = IF d \in dims
                            THEN m.budget.remaining[d] + (m.pending.held[d].maximum - spent[d])
                            ELSE m.budget.remaining[d]
  BY DEF Settle, Ledger
<1> HIDE DEF b, w
<1>5. \A d \in CountDimensions : b.remaining[d] = m.budget.remaining[d]
  <2>1. ASSUME NEW d \in CountDimensions PROVE b.remaining[d] = m.budget.remaining[d]
    <3>1. m.budget.remaining[d] \in Nat /\ d \in BudgetDimension
      BY CountsAreBudgeted DEF Ledger, Left
    <3>2. CASE d \in dims
      <4>1. m.pending.held[d].maximum = 1 /\ spent[d] = 1
        BY <1>2, <1>3, <3>2 DEF HoldsOne
      <4>2. QED
        BY <1>4, <3>1, <3>2, <4>1
    <3>3. CASE d \notin dims
      BY <1>4, <3>1, <3>3
    <3>4. QED
      BY <3>2, <3>3
  <2>2. QED
    BY <2>1
<1>6. SameLeft(w, m)
  BY <1>1, <1>5 DEF SameLeft, Left
<1>7. Ledger(w)
  BY <1>1, <1>4, <1>6 DEF Ledger, SameLeft
<1>8. QED
  BY <1>6, <1>7 DEF w
-----------------------------------------------------------------------------
(* What the operations of the session add to the trace and take from the   *)
(* ledger.                                                                 *)

Resolutions(s) == Entries(s.trace, "effect_resolved")

Seals(s) == Count(s.trace, "snapshot_written")

Calls(s, phases) == ~s.error /\ s.phase \in phases

\* The session has the ledger of a machine, and holds one unit for the effect
\* it waits for.
Budgeted(s) ==
  /\ Ledger(s.machine)
  /\ Calls(s, Waiting) => HoldsOne(s.machine) /\ s.machine.pending.request.kind \in EffectKind

LEMMA EntryAdded ==
  ASSUME NEW t, IsSequence(t), NEW e
  PROVE  /\ IsSequence(Append(t, e))
         /\ \A event : e.event # event =>
              /\ Entries(Append(t, e), event) = Entries(t, event)
              /\ Count(Append(t, e), event) = Count(t, event)
         /\ \A event : e.event = event =>
              /\ Entries(Append(t, e), event) = Append(Entries(t, event), e)
              /\ Count(Append(t, e), event) = Count(t, event) + 1
<1>1. IsSequence(Append(t, e))
  BY AppendIsSequence
<1>2. ASSUME NEW event
      PROVE  /\ e.event # event =>
                  /\ Entries(Append(t, e), event) = Entries(t, event)
                  /\ Count(Append(t, e), event) = Count(t, event)
             /\ e.event = event =>
                  /\ Entries(Append(t, e), event) = Append(Entries(t, event), e)
                  /\ Count(Append(t, e), event) = Count(t, event) + 1
  BY EntriesAppend, CountAppend
<1>3. QED
  BY <1>1, <1>2

LEMMA AuditsAdded ==
  ASSUME NEW t, IsSequence(t), NEW events, IsSequence(events)
  PROVE  /\ IsSequence(t \o Audits(events))
         /\ \A event : event # "audit" =>
              /\ Entries(t \o Audits(events), event) = Entries(t, event)
              /\ Count(t \o Audits(events), event) = Count(t, event)
<1>1. IsSequence(t \o Audits(events))
  BY AuditsIsSequence, ConcatIsSequence
<1>2. \A event : event # "audit" => Entries(t \o Audits(events), event) = Entries(t, event)
  BY EntriesAudits
<1>3. QED
  BY <1>1, <1>2 DEF Count

\* What an operation does that neither resolves nor seals, nor takes a unit.
Quiet(s, t) ==
  Resolutions(t) = Resolutions(s) /\ Seals(t) = Seals(s) /\ SameLeft(t.machine, s.machine)

LEMMA FailAccounts ==
  ASSUME NEW s, IsSession(s), Budgeted(s)
  PROVE  LET f == Fail(s)
         IN  Budgeted(f) /\ Quiet(s, f) /\ f.phase = "failed"
<1> DEFINE f == Fail(s)
           t == Append(s.trace, RunFailed)
<1>1. f.trace = t /\ f.phase = "failed" /\ f.machine = s.machine /\ IsSequence(s.trace)
  BY DEF Fail, IsSession
<1>2. RunFailed.event # "effect_resolved" /\ RunFailed.event # "snapshot_written"
  BY DEF RunFailed
<1>3. Entries(t, "effect_resolved") = Entries(s.trace, "effect_resolved")
      /\ Count(t, "snapshot_written") = Count(s.trace, "snapshot_written")
  <2>1. \A event : RunFailed.event # event =>
          /\ Entries(t, event) = Entries(s.trace, event)
          /\ Count(t, event) = Count(s.trace, event)
    BY <1>1, EntryAdded
  <2> HIDE DEF t
  <2>2. QED
    BY <1>2, <2>1
<1> HIDE DEF f, t
<1>4. Quiet(s, f)
  BY <1>1, <1>3 DEF Quiet, Resolutions, Seals, SameLeft
<1>5. Budgeted(f)
  BY <1>1 DEF Budgeted, Calls, Waiting
<1>6. QED
  BY <1>1, <1>4, <1>5 DEF f

LEMMA RefusedAccounts ==
  ASSUME NEW s, IsSession(s), Budgeted(s)
  PROVE  LET f == Refused(s)
         IN  Budgeted(f) /\ Quiet(s, f) /\ f.error
<1> DEFINE f == Refused(s)
<1>1. f.trace = s.trace /\ f.error /\ f.machine = s.machine
  BY DEF Refused, IsSession
<1> HIDE DEF f
<1>2. Quiet(s, f)
  BY <1>1 DEF Quiet, Resolutions, Seals, SameLeft
<1>3. Budgeted(f)
  BY <1>1 DEF Budgeted, Calls
<1>4. QED
  BY <1>1, <1>2, <1>3 DEF f

\* progress: a unit is taken when an effect is yielded.
LEMMA ProgressedAccounts ==
  ASSUME run \in Runs, NEW s, IsSession(s), Budgeted(s), s.phase = "running"
  PROVE  LET p == Progressed(s)
             k == p.machine.pending.request.kind
         IN  /\ Budgeted(p)
             /\ Resolutions(p) = Resolutions(s) /\ Seals(p) = Seals(s)
             /\ \/ Quiet(s, p) /\ ~Calls(p, Waiting)
                \/ /\ p.phase = "awaiting_admission" /\ k \in EffectKind
                   /\ \A d \in CountDimensions :
                        Left(p.machine, d) = IF d = Dimension(k) THEN Left(s.machine, d) - 1
                                                                 ELSE Left(s.machine, d)
<1> DEFINE m == s.machine
           r == Reaction(m)
           audited == s.trace \o Audits(r.audit)
           p == Progressed(s)
<1>1. /\ IsReaction(r) /\ IsSequence(s.trace) /\ IsMachine(m)
      /\ DOMAIN s = {"machine", "trace", "snapshots", "phase", "outcome", "error"}
  BY ReactionsAreReactions DEF IsSession
<1>2. /\ IsSequence(audited) /\ Entries(audited, "effect_resolved") = Resolutions(s)
      /\ Count(audited, "snapshot_written") = Seals(s)
  <2>1. IsSequence(r.audit)
    BY <1>1 DEF IsReaction
  <2> HIDE DEF r
  <2>2. QED
    BY <1>1, <2>1, AuditsAdded DEF Resolutions, Seals
<1>3. CASE CanYield(m)
  <2> DEFINE y == Yielded(m)
             e == Requested(y)
             k == y.pending.request.kind
  <2>1. e.event = "effect_requested"
    BY DEF Requested
  <2>2. p.trace = Append(audited, e) /\ p.phase = "awaiting_admission" /\ p.machine = y
    BY <1>1, <1>3 DEF Progressed
  <2>3. /\ Ledger(y) /\ HoldsOne(y) /\ k \in EffectKind
        /\ \A d \in CountDimensions : Left(y, d) = IF d = Dimension(k) THEN Left(m, d) - 1 ELSE Left(m, d)
    BY <1>1, <1>3, YieldedLedger DEF Budgeted
  <2> HIDE DEF audited, e, p, y, m
  <2>4. Resolutions(p) = Resolutions(s) /\ Seals(p) = Seals(s)
    <3> DEFINE t == Append(audited, e)
    <3>1. Entries(t, "effect_resolved") = Resolutions(s) /\ Count(t, "snapshot_written") = Seals(s)
      BY <1>2, <2>1, EntryAdded
    <3> HIDE DEF t
    <3>2. QED
      BY <2>2, <3>1 DEF Resolutions, Seals, t
  <2>5. Budgeted(p)
    BY <2>2, <2>3 DEF Budgeted
  <2>6. p.machine.pending.request.kind = k /\ p.machine = y
    BY <2>2
  <2> HIDE DEF k
  <2>7. QED
    BY <2>2, <2>3, <2>4, <2>5, <2>6 DEF p, m
<1>4. CASE ~CanYield(m) /\ r.step = "completed"
  <2> DEFINE a == StateCommitted(r.outcome)
             b == RunCompleted(r.outcome)
             t == Append(audited, a)
  <2>1. a.event = "state_committed" /\ b.event = "run_completed"
    BY DEF StateCommitted, RunCompleted
  <2>2. p.trace = audited \o <<a, b>> /\ p.phase = "completed" /\ p.machine = m
    BY <1>1, <1>4 DEF Progressed
  <2> HIDE DEF audited, a, b, p, m
  <2>3. /\ IsSequence(t) /\ Entries(t, "effect_resolved") = Resolutions(s)
        /\ Count(t, "snapshot_written") = Seals(s)
    BY <1>2, <2>1, EntryAdded
  <2>4. audited \o <<a, b>> = Append(t, b)
    BY <1>2, PairAppended
  <2> HIDE DEF t
  <2>5. Resolutions(p) = Resolutions(s) /\ Seals(p) = Seals(s)
    <3> DEFINE u == Append(t, b)
    <3>1. Entries(u, "effect_resolved") = Resolutions(s) /\ Count(u, "snapshot_written") = Seals(s)
      BY <2>1, <2>3, EntryAdded
    <3> HIDE DEF u
    <3>2. QED
      BY <2>2, <2>4, <3>1 DEF Resolutions, Seals, u
  <2>6. Budgeted(p) /\ Quiet(s, p) /\ ~Calls(p, Waiting)
    BY <2>2, <2>5 DEF Budgeted, Quiet, SameLeft, Calls, Waiting, m
  <2>7. QED
    BY <2>5, <2>6 DEF p
<1>5. CASE ~CanYield(m) /\ r.step # "completed"
  <2>1. p.trace = audited /\ p.phase = "running" /\ p.machine = m
    BY <1>1, <1>5 DEF Progressed
  <2> HIDE DEF audited, p, m
  <2>2. Resolutions(p) = Resolutions(s) /\ Seals(p) = Seals(s)
    BY <1>2, <2>1 DEF Resolutions, Seals
  <2>3. Budgeted(p) /\ Quiet(s, p) /\ ~Calls(p, Waiting)
    BY <2>1, <2>2 DEF Budgeted, Quiet, SameLeft, Calls, Waiting, m
  <2>4. QED
    BY <2>2, <2>3 DEF p
<1>6. QED
  BY <1>3, <1>4, <1>5

\* admit: the continuation is sealed once, and no unit of a count is taken.
LEMMA AdmitAccounts ==
  ASSUME NEW s, IsSession(s), Budgeted(s), ~s.error, s.phase = "awaiting_admission",
         NEW maximums
  PROVE  LET a == Admit(s, s.machine.pending.request, maximums)
         IN  /\ Budgeted(a)
             /\ Resolutions(a) = Resolutions(s) /\ SameLeft(a.machine, s.machine)
             /\ \/ a.error /\ Seals(a) = Seals(s)
                \/ /\ a.phase = "awaiting_resolution" /\ Seals(a) = Seals(s) + 1
                   /\ a.machine.pending.request = s.machine.pending.request
<1> DEFINE request == s.machine.pending.request
           a == Admit(s, request, maximums)
<1>1. /\ IsSequence(s.trace)
      /\ DOMAIN s = {"machine", "trace", "snapshots", "phase", "outcome", "error"}
  BY DEF IsSession
<1>2. CASE CanReserveUsage(s.machine, maximums)
  <2> DEFINE reserved == UsageReserved(s.machine, maximums)
             entry == ReservedEvidence(reserved)
             evidence == Append(s.trace, entry)
             sealed == [reserved EXCEPT !.checkpoint = evidence]
             trace == Append(evidence, SnapshotWritten)
  <2>1. a = [s EXCEPT !.machine = sealed, !.trace = trace,
                      !.snapshots = Append(s.snapshots, sealed), !.phase = "awaiting_resolution"]
    BY <1>2 DEF Admit
  <2>2. IsSuspended(s.machine) /\ Ledger(s.machine) /\ HoldsOne(s.machine)
    BY DEF Budgeted, Calls, Waiting, IsSession
  <2>3. /\ IsSuspended(reserved) /\ reserved.pending.request = request
        /\ Ledger(reserved) /\ HoldsOne(reserved) /\ SameLeft(reserved, s.machine)
    BY <1>2, <2>2, UsageReservedIsSuspended, ReservedLedger
  <2>4. entry.event = "budget_reserved" /\ SnapshotWritten.event = "snapshot_written"
    BY DEF ReservedEvidence, SnapshotWritten
  <2> HIDE DEF reserved, entry, a
  <2>5. /\ IsSequence(evidence)
        /\ Entries(evidence, "effect_resolved") = Entries(s.trace, "effect_resolved")
        /\ Count(evidence, "snapshot_written") = Count(s.trace, "snapshot_written")
    <3>1. /\ IsSequence(evidence)
          /\ \A event : entry.event # event =>
               /\ Entries(evidence, event) = Entries(s.trace, event)
               /\ Count(evidence, event) = Count(s.trace, event)
      BY <1>1, EntryAdded
    <3> HIDE DEF evidence
    <3>2. QED
      BY <2>4, <3>1
  <2> HIDE DEF evidence
  <2>6. /\ Entries(trace, "effect_resolved") = Entries(s.trace, "effect_resolved")
        /\ Count(trace, "snapshot_written") = Count(s.trace, "snapshot_written") + 1
    BY <2>4, <2>5, EntryAdded
  <2>7. sealed.budget = reserved.budget /\ sealed.pending = reserved.pending
    BY <2>3 DEF IsSuspended, IsMachine
  <2> HIDE DEF sealed, trace
  <2>8. a.machine = sealed /\ a.trace = trace /\ a.phase = "awaiting_resolution"
    BY <1>1, <2>1
  <2>9. Ledger(sealed) /\ HoldsOne(sealed) /\ SameLeft(sealed, s.machine)
        /\ sealed.pending.request = request
    BY <2>3, <2>7 DEF Ledger, HoldsOne, SameLeft, Left
  <2>10. request.kind \in EffectKind
    BY DEF Budgeted, Calls, Waiting
  <2>11. Budgeted(a)
    BY <2>8, <2>9, <2>10 DEF Budgeted
  <2>12. Resolutions(a) = Resolutions(s) /\ Seals(a) = Seals(s) + 1
    BY <2>6, <2>8 DEF Resolutions, Seals
  <2>13. SameLeft(a.machine, s.machine) /\ a.machine.pending.request = request
    BY <2>8, <2>9
  <2>14. QED
    BY <2>8, <2>11, <2>12, <2>13 DEF a
<1>3. CASE ~CanReserveUsage(s.machine, maximums)
  <2>1. a = Refused(s)
    BY <1>3 DEF Admit
  <2>2. QED
    BY <2>1, RefusedAccounts DEF Quiet
<1>4. QED
  BY <1>2, <1>3

\* resolve: one resolution comes to the trace, and no unit of a count is given
\* back.
LEMMA ResolveAccounts ==
  ASSUME run \in Runs, NEW s, IsSession(s), Budgeted(s), ~s.error,
         s.phase = "awaiting_resolution", NEW payload, NEW usage
  PROVE  LET r == Resolve(s, s.machine.pending.request, payload, usage)
             entry == ResolvedEvidence(s.machine, payload, usage)
         IN  /\ Budgeted(r)
             /\ Resolutions(r) = Append(Resolutions(s), entry)
             /\ Seals(r) = Seals(s) /\ SameLeft(r.machine, s.machine)
             /\ ~Calls(r, Waiting)
<1> DEFINE m == s.machine
           supplied == Supplied(m, payload, usage)
           entry == ResolvedEvidence(m, payload, usage)
           resolved == Append(s.trace, entry)
           r == Resolve(s, m.pending.request, payload, usage)
<1>1. /\ IsSequence(s.trace)
      /\ DOMAIN s = {"machine", "trace", "snapshots", "phase", "outcome", "error"}
  BY DEF IsSession
<1>2. IsSuspended(m) /\ Ledger(m) /\ HoldsOne(m)
  BY DEF Budgeted, Calls, Waiting, IsSession
<1>3. entry.event = "effect_resolved"
  BY DEF ResolvedEvidence
<1>4. Ledger(supplied) /\ SameLeft(supplied, m)
  BY <1>2, SuppliedLedger
<1>5. /\ IsSequence(resolved)
      /\ Entries(resolved, "effect_resolved") = Append(Resolutions(s), entry)
      /\ Count(resolved, "snapshot_written") = Seals(s)
  <2> HIDE DEF entry
  <2>1. QED
    BY <1>1, <1>3, EntryAdded DEF Resolutions, Seals
<1>6. CASE ~AcceptsAnswer(m, payload, usage)
  <2>1. r.trace = resolved /\ r.machine = supplied /\ r.error
    BY <1>1, <1>6 DEF Resolve
  <2> HIDE DEF r, resolved, supplied, m, entry
  <2>2. Resolutions(r) = Append(Resolutions(s), entry) /\ Seals(r) = Seals(s)
    BY <1>5, <2>1 DEF Resolutions, Seals
  <2>3. Budgeted(r) /\ SameLeft(r.machine, m) /\ ~Calls(r, Waiting)
    BY <1>4, <2>1 DEF Budgeted, Calls
  <2>4. QED
    BY <2>2, <2>3 DEF r, m, entry
<1>7. CASE AcceptsAnswer(m, payload, usage)
  <2> DEFINE decoded == Reaction(supplied).decoded
             audited == resolved \o Audits(decoded)
             last == SettledEvidence(Admitted(m), usage, supplied.budget)
             t == Append(audited, last)
  <2>1. payload \in m.pending.expected
    BY <1>7 DEF AcceptsAnswer
  <2>2. supplied.answers = Append(m.answers, payload)
    BY <1>2, <1>7 DEF Supplied, IsSuspended, IsMachine
  <2>3. Append(m.answers, payload) \in DOMAIN run.program
    BY <1>2, <2>1, ReactionsAreReactions DEF IsSuspended
  <2>4. IsSequence(decoded)
    BY <2>2, <2>3, RunsAssumption DEF IsProgram, Reaction, IsReaction
  <2>5. r.trace = audited \o <<last>> /\ r.phase = "running" /\ r.machine = supplied
    BY <1>1, <1>7 DEF Resolve
  <2>6. last.event = "budget_settled"
    BY DEF SettledEvidence
  <2> HIDE DEF decoded, resolved, supplied, last, entry, r, m
  <2>7. /\ IsSequence(audited)
        /\ Entries(audited, "effect_resolved") = Append(Resolutions(s), entry)
        /\ Count(audited, "snapshot_written") = Seals(s)
    BY <1>5, <2>4, AuditsAdded
  <2> HIDE DEF audited
  <2>8. /\ Entries(t, "effect_resolved") = Append(Resolutions(s), entry)
        /\ Count(t, "snapshot_written") = Seals(s)
    BY <2>6, <2>7, EntryAdded
  <2>9. audited \o <<last>> = t
    BY <2>7, AppendConcat
  <2> HIDE DEF t
  <2>10. Resolutions(r) = Append(Resolutions(s), entry) /\ Seals(r) = Seals(s)
    BY <2>5, <2>8, <2>9 DEF Resolutions, Seals
  <2>11. Budgeted(r) /\ SameLeft(r.machine, m) /\ ~Calls(r, Waiting)
    BY <1>4, <2>5 DEF Budgeted, Calls, Waiting
  <2>12. QED
    BY <2>10, <2>11 DEF r, m, entry
<1>8. QED
  BY <1>6, <1>7
-----------------------------------------------------------------------------
(* The driver's books: of every kind, the calls made, the one the session  *)
(* waits for and the units left are together no more than the limit; every *)
(* call, and the one admitted, has its seal; and every resolution has a    *)
(* fixture of its own.                                                     *)

Owed(s, k) == IF Calls(s, Waiting) /\ s.machine.pending.request.kind = k THEN 1 ELSE 0

Promised(s) == IF Calls(s, {"awaiting_resolution"}) THEN 1 ELSE 0

Limit(k) == NewBudget(run.limits).remaining[Dimension(k)]

Unspent(s, k) == Owed(s, k) + Left(s.machine, Dimension(k))

AllOf(c) == c["model"] + c["read"] + c["approval"] + c["write"]
AllCalls == AllOf(calls)

DriverInv ==
  /\ Budgeted(session)
  /\ calls \in [EffectKind -> Nat]
  /\ \A k \in EffectKind : calls[k] + Unspent(session, k) <= Limit(k)
  /\ AllCalls + Promised(session) <= Seals(session)
  /\ AnswersUseDistinctFixtures

LEMMA LimitsAreNumbers ==
  ASSUME run \in Runs
  PROVE  \A k \in EffectKind : Limit(k) \in Nat
<1>1. ASSUME NEW k \in EffectKind PROVE Limit(k) \in Nat
  <2>1. Dimension(k) \in BudgetDimension
    BY KindDimensions, CountsAreBudgeted
  <2>2. Limit(k) = IF Dimension(k) \in DOMAIN run.limits THEN run.limits[Dimension(k)] ELSE 0
    BY <2>1 DEF Limit, NewBudget
  <2>3. CASE Dimension(k) \in DOMAIN run.limits
    BY <2>2, <2>3, LimitsAssumption
  <2>4. CASE Dimension(k) \notin DOMAIN run.limits
    BY <2>2, <2>4
  <2>5. QED
    BY <2>3, <2>4
<1>2. QED
  BY <1>1

LEMMA UnspentIsNumber ==
  ASSUME NEW s, Budgeted(s)
  PROVE  \A k \in EffectKind :
           /\ Owed(s, k) \in Nat /\ Left(s.machine, Dimension(k)) \in Nat
           /\ Unspent(s, k) \in Nat
<1>1. ASSUME NEW k \in EffectKind
      PROVE  Owed(s, k) \in Nat /\ Left(s.machine, Dimension(k)) \in Nat
  BY KindDimensions DEF Budgeted, Ledger, Owed
<1>2. QED
  BY <1>1 DEF Unspent

LEMMA SealsAreCounted ==
  ASSUME NEW s, IsSession(s)
  PROVE  Seals(s) \in Nat
<1>1. IsSequence(s.trace)
  BY DEF IsSession
<1>2. QED
  BY <1>1, CountAppend DEF Seals

LEMMA BooksAreKept ==
  CommandInv /\ DriverInv => EveryCallWasAdmitted /\ AnswersUseDistinctFixtures
<1> SUFFICES ASSUME CommandInv, DriverInv PROVE EveryCallWasAdmitted
  BY DEF DriverInv
<1>1. ASSUME NEW k \in EffectKind
      PROVE  calls[k] <= Limit(k) - session.machine.budget.remaining[Dimension(k)]
  <2>1. Owed(session, k) \in Nat /\ Left(session.machine, Dimension(k)) \in Nat
    BY UnspentIsNumber DEF DriverInv
  <2>2. calls[k] \in Nat /\ calls[k] + (Owed(session, k) + Left(session.machine, Dimension(k))) <= Limit(k)
    BY DEF DriverInv, Unspent
  <2>3. Limit(k) \in Nat
    BY LimitsAreNumbers DEF CommandInv
  <2>4. calls[k] <= Limit(k) - Left(session.machine, Dimension(k))
    BY <2>1, <2>2, <2>3
  <2>5. QED
    BY <2>4 DEF Left
<1>2. AllCalls <= Seals(session)
  <2>1. AllCalls \in Nat
    BY DEF DriverInv, AllCalls, AllOf, EffectKind
  <2>2. Seals(session) \in Nat
    BY SealsAreCounted DEF CommandInv
  <2>3. Promised(session) \in Nat
    BY DEF Promised
  <2>4. AllCalls + Promised(session) <= Seals(session)
    BY DEF DriverInv
  <2>5. QED
    BY <2>1, <2>2, <2>3, <2>4
<1>3. QED
  BY <1>1, <1>2 DEF EveryCallWasAdmitted, Limit, AllCalls, AllOf, Seals

\* A step without a call: units are moved between the ledger and the effect
\* the session waits for, and what is admitted is sealed.
LEMMA KeptWithoutCall ==
  ASSUME CommandInv, DriverInv, UNCHANGED <<run, fixtures, consumed, calls>>,
         Budgeted(session'), IsSession(session'),
         Resolutions(session') = Resolutions(session),
         \A k \in EffectKind : Unspent(session', k) <= Unspent(session, k),
         Promised(session') + Seals(session) <= Promised(session) + Seals(session')
  PROVE  DriverInv'
<1>1. (\A k \in EffectKind : calls[k] + Unspent(session, k) <= Limit(k))'
  <2>1. ASSUME NEW k \in EffectKind PROVE calls[k] + Unspent(session', k) <= Limit(k)
    <3>1. Unspent(session, k) \in Nat /\ Unspent(session', k) \in Nat
      BY UnspentIsNumber DEF DriverInv
    <3>2. Limit(k) \in Nat
      BY LimitsAreNumbers DEF CommandInv
    <3>3. calls[k] \in Nat /\ calls[k] + Unspent(session, k) <= Limit(k)
      BY DEF DriverInv
    <3>4. QED
      BY <3>1, <3>2, <3>3
  <2>2. QED
    BY <2>1 DEF Limit
<1>2. (AllCalls + Promised(session) <= Seals(session))'
  <2>1. AllCalls \in Nat
    BY DEF DriverInv, AllCalls, AllOf, EffectKind
  <2>2. Seals(session) \in Nat /\ Seals(session') \in Nat
    BY SealsAreCounted DEF CommandInv
  <2>3. Promised(session) \in Nat /\ Promised(session') \in Nat
    BY DEF Promised
  <2>4. AllCalls + Promised(session) <= Seals(session)
    BY DEF DriverInv
  <2>5. AllCalls + Promised(session') <= Seals(session')
    BY <2>1, <2>2, <2>3, <2>4
  <2>6. QED
    BY <2>5 DEF AllCalls
<1>3. AnswersUseDistinctFixtures'
  BY DEF DriverInv, AnswersUseDistinctFixtures, IsJsonSubset, Resolutions
<1>4. QED
  BY <1>1, <1>2, <1>3 DEF DriverInv

\* A session that no longer waits owes nothing.
LEMMA FallsSilent ==
  ASSUME NEW s, Budgeted(s), NEW t, Budgeted(t), SameLeft(t.machine, s.machine),
         ~Calls(t, Waiting)
  PROVE  /\ \A k \in EffectKind : Unspent(t, k) <= Unspent(s, k)
         /\ Promised(t) = 0
<1>1. ASSUME NEW k \in EffectKind PROVE Unspent(t, k) <= Unspent(s, k)
  <2>1. Owed(t, k) = 0 /\ Left(t.machine, Dimension(k)) = Left(s.machine, Dimension(k))
    BY KindDimensions DEF Owed, SameLeft
  <2>2. Owed(s, k) \in Nat /\ Left(s.machine, Dimension(k)) \in Nat
    BY UnspentIsNumber
  <2>3. QED
    BY <2>1, <2>2 DEF Unspent
<1>2. Promised(t) = 0
  BY DEF Promised, Calls, Waiting
<1>3. QED
  BY <1>1, <1>2

LEMMA BooksProgress == CommandInv /\ DriverInv /\ FixtureProgress => DriverInv'
<1> SUFFICES ASSUME CommandInv, DriverInv, FixtureProgress PROVE DriverInv'
  OBVIOUS
<1> DEFINE p == Progressed(session)
           k == p.machine.pending.request.kind
<1>1. /\ session.phase = "running" /\ session' = p
      /\ UNCHANGED <<run, fixtures, consumed, calls>>
  BY DEF FixtureProgress, Progress, driverVars
<1>2. run \in Runs /\ IsSession(session) /\ Budgeted(session)
  BY DEF CommandInv, DriverInv
<1>3. IsSession(session')
  BY FixtureEnds DEF FixtureStep
<1>4. /\ Budgeted(p)
      /\ Resolutions(p) = Resolutions(session) /\ Seals(p) = Seals(session)
      /\ \/ Quiet(session, p) /\ ~Calls(p, Waiting)
         \/ /\ p.phase = "awaiting_admission" /\ k \in EffectKind
            /\ \A d \in CountDimensions :
                 Left(p.machine, d) = IF d = Dimension(k) THEN Left(session.machine, d) - 1
                                                          ELSE Left(session.machine, d)
  BY <1>1, <1>2, ProgressedAccounts
<1>5. Promised(p) = 0 /\ Promised(session) \in Nat /\ Seals(session) \in Nat
  <2>1. Promised(p) = 0
    BY <1>4 DEF Promised, Calls, Waiting
  <2>2. QED
    BY <1>2, <2>1, SealsAreCounted DEF Promised
<1>6. ASSUME NEW j \in EffectKind PROVE Unspent(p, j) <= Unspent(session, j)
  <2>1. CASE Quiet(session, p) /\ ~Calls(p, Waiting)
    BY <1>2, <1>4, <2>1, FallsSilent DEF Quiet
  <2>2. CASE ~ (Quiet(session, p) /\ ~Calls(p, Waiting))
    <3> DEFINE n == Left(session.machine, Dimension(j))
    <3>1. Owed(session, j) = 0
      BY <1>1 DEF Owed, Calls, Waiting
    <3>2. n \in Nat /\ Dimension(j) \in CountDimensions /\ k \in EffectKind
      BY <1>2, <1>4, <2>2, UnspentIsNumber, KindDimensions
    <3>3. CASE j = k
      <4>1. Left(p.machine, Dimension(j)) = n - 1
        BY <1>4, <2>2, <3>2, <3>3
      <4>2. Owed(p, j) \in {0, 1}
        BY DEF Owed
      <4> HIDE DEF n, p
      <4>3. Owed(p, j) + (n - 1) <= 0 + n
        BY <3>2, <4>2
      <4>4. QED
        BY <3>1, <4>1, <4>3 DEF Unspent, n
    <3>4. CASE j # k
      <4>1. Dimension(j) # Dimension(k)
        BY <3>2, <3>4, KindDimensions
      <4>2. Left(p.machine, Dimension(j)) = n
        BY <1>4, <2>2, <3>2, <4>1
      <4>3. Owed(p, j) = 0
        BY <3>4 DEF Owed
      <4>4. QED
        BY <3>1, <3>2, <4>2, <4>3 DEF Unspent
    <3>5. QED
      BY <3>3, <3>4
  <2>3. QED
    BY <2>1, <2>2
<1> HIDE DEF p, k
<1>7. QED
  BY <1>1, <1>3, <1>4, <1>5, <1>6, KeptWithoutCall

LEMMA BooksPreview == CommandInv /\ DriverInv /\ PreviewEffect => DriverInv'
<1> SUFFICES ASSUME CommandInv, DriverInv, PreviewEffect PROVE DriverInv'
  OBVIOUS
<1>1. PICK maximums : /\ session' = Admit(session, session.machine.pending.request, maximums)
                      /\ run' = run
  BY DEF PreviewEffect, AdmitEffect, Request
<1>2. /\ session.phase = "awaiting_admission" /\ ~session.error
      /\ UNCHANGED <<fixtures, consumed, calls>>
  BY DEF PreviewEffect, CallsOn
<1>3. run \in Runs /\ IsSession(session) /\ Budgeted(session)
  BY DEF CommandInv, DriverInv
<1>4. IsSession(session')
  BY FixtureEnds DEF FixtureStep
<1> DEFINE a == Admit(session, session.machine.pending.request, maximums)
<1>5. /\ Budgeted(a)
      /\ Resolutions(a) = Resolutions(session) /\ SameLeft(a.machine, session.machine)
      /\ \/ a.error /\ Seals(a) = Seals(session)
         \/ /\ a.phase = "awaiting_resolution" /\ Seals(a) = Seals(session) + 1
            /\ a.machine.pending.request = session.machine.pending.request
  BY <1>2, <1>3, AdmitAccounts
<1> HIDE DEF a
<1>6. Promised(session) = 0 /\ Seals(session) \in Nat /\ Promised(a) \in {0, 1}
  <2>1. Promised(session) = 0 /\ Promised(a) \in {0, 1}
    BY <1>2 DEF Promised, Calls
  <2>2. QED
    BY <1>3, <2>1, SealsAreCounted
<1>7. CASE a.error /\ Seals(a) = Seals(session)
  <2>1. ~Calls(a, Waiting)
    BY <1>7 DEF Calls
  <2>2. (\A k \in EffectKind : Unspent(a, k) <= Unspent(session, k)) /\ Promised(a) = 0
    BY <1>3, <1>5, <2>1, FallsSilent
  <2>3. QED
    BY <1>1, <1>2, <1>4, <1>5, <1>6, <1>7, <2>2, KeptWithoutCall DEF a
<1>8. CASE ~ (a.error /\ Seals(a) = Seals(session))
  <2>1. ASSUME NEW k \in EffectKind PROVE Unspent(a, k) <= Unspent(session, k)
    <3>1. /\ Left(a.machine, Dimension(k)) = Left(session.machine, Dimension(k))
          /\ Left(a.machine, Dimension(k)) \in Nat
      BY <1>3, <1>5, KindDimensions, UnspentIsNumber DEF SameLeft
    <3>2. Owed(a, k) \in {0, 1} /\ Owed(session, k) \in {0, 1}
      BY DEF Owed
    <3>3. Owed(a, k) = 1 => Owed(session, k) = 1
      BY <1>2, <1>5, <1>8 DEF Owed, Calls, Waiting
    <3>4. QED
      BY <3>1, <3>2, <3>3 DEF Unspent
  <2>2. Promised(a) + Seals(session) <= Promised(session) + Seals(a)
    BY <1>5, <1>6, <1>8
  <2>3. QED
    BY <1>1, <1>2, <1>4, <1>5, <2>1, <2>2, KeptWithoutCall DEF a
<1>9. QED
  BY <1>7, <1>8

LEMMA BooksGiveUp == CommandInv /\ DriverInv /\ GiveUp => DriverInv'
<1> SUFFICES ASSUME CommandInv, DriverInv, GiveUp PROVE DriverInv'
  OBVIOUS
<1>1. session' = Fail(session) /\ UNCHANGED <<run, fixtures, consumed, calls>>
  BY DEF GiveUp, FailSession
<1>2. IsSession(session) /\ Budgeted(session)
  BY DEF CommandInv, DriverInv
<1>3. IsSession(session')
  BY FixtureEnds DEF FixtureStep
<1> DEFINE f == Fail(session)
<1>4. Budgeted(f) /\ Quiet(session, f) /\ f.phase = "failed"
  BY <1>2, FailAccounts
<1> HIDE DEF f
<1>5. ~Calls(f, Waiting)
  BY <1>4 DEF Calls, Waiting
<1>6. (\A k \in EffectKind : Unspent(f, k) <= Unspent(session, k)) /\ Promised(f) = 0
  BY <1>2, <1>4, <1>5, FallsSilent DEF Quiet
<1>7. Promised(session) \in Nat /\ Seals(session) \in Nat
  BY <1>2, SealsAreCounted DEF Promised
<1>8. QED
  BY <1>1, <1>3, <1>4, <1>6, <1>7, KeptWithoutCall DEF f, Quiet

\* A fixture gave the answer of a resolution.
Gave(n, entry) ==
  /\ fixtures[n].kind = entry.request.kind
  /\ fixtures[n].identity = entry.request.identity
  /\ IsJsonSubset(entry.request.payload, fixtures[n].match)
  /\ fixtures[n].response = entry.payload
  /\ fixtures[n].actual_usage = entry.usage

Assigned(resolved, used) ==
  \E assigned \in Injection(DOMAIN resolved, used) :
    \A k \in DOMAIN resolved : Gave(assigned[k], resolved[k])

LEMMA AnswersAssigned ==
  AnswersUseDistinctFixtures <=> Assigned(Resolutions(session), consumed)
BY DEF AnswersUseDistinctFixtures, Assigned, Gave, Resolutions

LEMMA WiderAssigned ==
  ASSUME NEW resolved, NEW used, NEW more, used \subseteq more, Assigned(resolved, used)
  PROVE  Assigned(resolved, more)
<1>1. PICK assigned \in Injection(DOMAIN resolved, used) :
        \A k \in DOMAIN resolved : Gave(assigned[k], resolved[k])
  BY DEF Assigned
<1>2. assigned \in Injection(DOMAIN resolved, more)
  BY DEF Injection
<1>3. QED
  BY <1>1, <1>2 DEF Assigned

\* A resolution more is assigned the fixture that had not answered.
LEMMA OneMoreAssigned ==
  ASSUME NEW resolved, IsSequence(resolved), NEW used, Assigned(resolved, used),
         NEW n, n \notin used, NEW entry, Gave(n, entry)
  PROVE  Assigned(Append(resolved, entry), used \cup {n})
<1> DEFINE more == Append(resolved, entry)
           last == Len(resolved) + 1
<1>1. PICK assigned \in Injection(DOMAIN resolved, used) :
        \A k \in DOMAIN resolved : Gave(assigned[k], resolved[k])
  BY DEF Assigned
<1>2. /\ DOMAIN resolved = 1..Len(resolved) /\ Len(resolved) \in Nat
      /\ DOMAIN more = 1..last
      /\ \A i \in 1..Len(resolved) : more[i] = resolved[i]
      /\ more[last] = entry
  BY AppendIsSequence
<1>3. /\ assigned \in [1..Len(resolved) -> used]
      /\ \A j, k \in 1..Len(resolved) : assigned[j] = assigned[k] => j = k
  BY <1>2 DEF Injection, IsInjective
<1> HIDE DEF more
<1> DEFINE wider == [k \in 1..last |-> IF k = last THEN n ELSE assigned[k]]
<1>4. \A k \in 1..last : k # last => k \in 1..Len(resolved)
  BY <1>2
<1>5. wider \in [1..last -> used \cup {n}]
  BY <1>3, <1>4
<1>6. ASSUME NEW j \in 1..last, NEW k \in 1..last, wider[j] = wider[k] PROVE j = k
  <2>1. CASE j = last /\ k = last
    BY <2>1
  <2>2. CASE j # last /\ k # last
    BY <1>3, <1>4, <1>6, <2>2
  <2>3. CASE j = last /\ k # last
    <3>1. wider[k] \in used /\ wider[j] = n
      BY <1>3, <1>4, <2>3
    <3>2. QED
      BY <1>6, <3>1
  <2>4. CASE j # last /\ k = last
    <3>1. wider[j] \in used /\ wider[k] = n
      BY <1>3, <1>4, <2>4
    <3>2. QED
      BY <1>6, <3>1
  <2>5. QED
    BY <2>1, <2>2, <2>3, <2>4
<1>7. wider \in Injection(1..last, used \cup {n})
  <2>1. DOMAIN wider = 1..last
    OBVIOUS
  <2> HIDE DEF wider
  <2>2. QED
    BY <1>5, <1>6, <2>1 DEF Injection, IsInjective
<1>8. ASSUME NEW k \in 1..last PROVE Gave(wider[k], more[k])
  <2>1. CASE k = last
    <3>1. wider[k] = n /\ more[k] = entry
      BY <1>2, <2>1
    <3>2. QED
      BY <3>1
  <2>2. CASE k # last
    <3>1. wider[k] = assigned[k] /\ more[k] = resolved[k] /\ k \in DOMAIN resolved
      BY <1>2, <1>4, <2>2
    <3>2. QED
      BY <1>1, <3>1
  <2>3. QED
    BY <2>1, <2>2
<1> HIDE DEF wider, last
<1>9. QED
  BY <1>2, <1>7, <1>8 DEF Assigned, more

LEMMA OneCallMore ==
  ASSUME NEW c \in [EffectKind -> Nat], NEW kind \in EffectKind,
         NEW d, \A k \in EffectKind : d[k] = IF k = kind THEN c[k] + 1 ELSE c[k]
  PROVE  AllOf(d) = AllOf(c) + 1 /\ AllOf(c) \in Nat
<1> DEFINE m == c["model"]  r == c["read"]  a == c["approval"]  w == c["write"]
           m1 == d["model"] r1 == d["read"] a1 == d["approval"] w1 == d["write"]
<1>1. m \in Nat /\ r \in Nat /\ a \in Nat /\ w \in Nat
  BY DEF EffectKind
<1>2. /\ m1 = IF kind = "model" THEN m + 1 ELSE m
      /\ r1 = IF kind = "read" THEN r + 1 ELSE r
      /\ a1 = IF kind = "approval" THEN a + 1 ELSE a
      /\ w1 = IF kind = "write" THEN w + 1 ELSE w
  BY DEF EffectKind
<1>3. AllOf(c) = m + r + a + w /\ AllOf(d) = m1 + r1 + a1 + w1
  BY DEF AllOf
<1>4. kind \in {"model", "read", "approval", "write"}
  BY DEF EffectKind
<1> HIDE DEF m, r, a, w, m1, r1, a1, w1
<1>5. m1 + r1 + a1 + w1 = (m + r + a + w) + 1 /\ m + r + a + w \in Nat
  <2>1. CASE kind = "model"
    <3>1. m1 = m + 1 /\ r1 = r /\ a1 = a /\ w1 = w
      BY <1>2, <2>1
    <3>2. QED
      BY <1>1, <3>1
  <2>2. CASE kind = "read"
    <3>1. m1 = m /\ r1 = r + 1 /\ a1 = a /\ w1 = w
      BY <1>2, <2>2
    <3>2. QED
      BY <1>1, <3>1
  <2>3. CASE kind = "approval"
    <3>1. m1 = m /\ r1 = r /\ a1 = a + 1 /\ w1 = w
      BY <1>2, <2>3
    <3>2. QED
      BY <1>1, <3>1
  <2>4. CASE kind = "write"
    <3>1. m1 = m /\ r1 = r /\ a1 = a /\ w1 = w + 1
      BY <1>2, <2>4
    <3>2. QED
      BY <1>1, <3>1
  <2>5. QED
    BY <1>4, <2>1, <2>2, <2>3, <2>4
<1>6. QED
  BY <1>3, <1>5

\* A call: the effect the session waited for is now counted among the calls,
\* and the fixture that answered among the used ones.
LEMMA KeptByCall ==
  ASSUME CommandInv, DriverInv, UNCHANGED <<run, fixtures>>,
         Calls(session, {"awaiting_resolution"}), preview \in MatchingIndices(Request),
         consumed' = consumed \cup {preview},
         calls' = [calls EXCEPT ![Request.kind] = @ + 1],
         Budgeted(session'), IsSession(session'), ~Calls(session', Waiting),
         SameLeft(session'.machine, session.machine), Seals(session') = Seals(session),
         \/ Resolutions(session') = Resolutions(session)
         \/ Resolutions(session') = Append(Resolutions(session),
                                           ResolvedEvidence(session.machine,
                                                            fixtures[preview].response,
                                                            fixtures[preview].actual_usage))
  PROVE  DriverInv'
<1> DEFINE kind == Request.kind
<1>1. kind \in EffectKind /\ Calls(session, Waiting)
  BY DEF DriverInv, Budgeted, Calls, Waiting, Request
<1>2. (calls \in [EffectKind -> Nat])'
  BY <1>1 DEF DriverInv
<1>3. (\A k \in EffectKind : calls[k] + Unspent(session, k) <= Limit(k))'
  <2>1. ASSUME NEW k \in EffectKind PROVE calls'[k] + Unspent(session', k) <= Limit(k)
    <3>1. /\ Left(session'.machine, Dimension(k)) = Left(session.machine, Dimension(k))
          /\ Left(session.machine, Dimension(k)) \in Nat
      BY KindDimensions, UnspentIsNumber DEF SameLeft, DriverInv
    <3>2. Limit(k) \in Nat
      BY LimitsAreNumbers DEF CommandInv
    <3>3. calls[k] \in Nat /\ calls[k] + Unspent(session, k) <= Limit(k)
      BY DEF DriverInv
    <3>4. Owed(session', k) = 0
      BY DEF Owed
    <3>5. CASE k = kind
      <4>1. Owed(session, k) = 1
        BY <1>1, <3>5 DEF Owed, Request
      <4>2. calls'[k] = calls[k] + 1
        BY <1>1, <3>5 DEF DriverInv
      <4> HIDE DEF kind
      <4>3. QED
        BY <3>1, <3>2, <3>3, <3>4, <4>1, <4>2 DEF Unspent
    <3>6. CASE k # kind
      <4>1. Owed(session, k) \in {0, 1}
        BY DEF Owed
      <4>2. calls'[k] = calls[k]
        BY <3>6 DEF DriverInv
      <4> HIDE DEF kind
      <4>3. QED
        BY <3>1, <3>2, <3>3, <3>4, <4>1, <4>2 DEF Unspent
    <3>7. QED
      BY <3>5, <3>6
  <2>2. QED
    BY <2>1 DEF Limit
<1>4. (AllCalls + Promised(session) <= Seals(session))'
  <2>1. AllCalls' = AllCalls + 1 /\ AllCalls \in Nat
    <3>1. calls \in [EffectKind -> Nat]
      BY DEF DriverInv
    <3> HIDE DEF kind
    <3>2. \A k \in EffectKind : calls'[k] = IF k = kind THEN calls[k] + 1 ELSE calls[k]
      BY <3>1 DEF kind
    <3>3. AllOf(calls') = AllOf(calls) + 1 /\ AllOf(calls) \in Nat
      <4> DEFINE d == calls'
      <4>1. \A k \in EffectKind : d[k] = IF k = kind THEN calls[k] + 1 ELSE calls[k]
        BY <3>2
      <4> HIDE DEF d
      <4>2. AllOf(d) = AllOf(calls) + 1 /\ AllOf(calls) \in Nat
        BY <1>1, <3>1, <4>1, OneCallMore
      <4>3. QED
        BY <4>2 DEF d
    <3>4. QED
      BY <3>3 DEF AllCalls
  <2>2. Promised(session) = 1 /\ Promised(session') = 0
    BY DEF Promised, Calls, Waiting
  <2>3. AllCalls + Promised(session) <= Seals(session) /\ Seals(session) \in Nat
    BY SealsAreCounted DEF DriverInv, CommandInv
  <2>4. QED
    BY <2>1, <2>2, <2>3
<1>5. AnswersUseDistinctFixtures'
  <2> DEFINE resolved == Resolutions(session)
             entry == ResolvedEvidence(session.machine, fixtures[preview].response,
                                       fixtures[preview].actual_usage)
  <2>1. Assigned(resolved, consumed)
    BY AnswersAssigned DEF DriverInv
  <2>2. preview \notin consumed /\ Gave(preview, entry)
    BY DEF MatchingIndices, Gave, ResolvedEvidence, Request
  <2>3. IsSequence(resolved)
    BY EntriesIsSequence DEF Resolutions, CommandInv, IsSession
  <2> HIDE DEF resolved, entry
  <2>4. Assigned(resolved, consumed') /\ Assigned(Append(resolved, entry), consumed')
    BY <2>1, <2>2, <2>3, WiderAssigned, OneMoreAssigned
  <2>5. Assigned(Resolutions(session'), consumed')
    BY <2>4 DEF resolved, entry
  <2>6. Assigned(Resolutions(session), consumed)'
    BY <2>5 DEF Assigned, Gave, IsJsonSubset
  <2>7. QED
    BY <2>6 DEF AnswersUseDistinctFixtures, Assigned, Gave, Resolutions
<1>6. QED
  BY <1>2, <1>3, <1>4, <1>5 DEF DriverInv

LEMMA BooksCall == CommandInv /\ DriverInv /\ CallDriver => DriverInv'
<1> SUFFICES ASSUME CommandInv, DriverInv, CallDriver PROVE DriverInv'
  OBVIOUS
<1> DEFINE f == Fail(session)
           payload == fixtures[preview].response
           usage == fixtures[preview].actual_usage
           r == Resolve(session, session.machine.pending.request, payload, usage)
<1>1. /\ session.phase = "awaiting_resolution" /\ ~session.error
      /\ preview \in MatchingIndices(Request) /\ fixtures' = fixtures
      /\ consumed' = consumed \cup {preview}
      /\ calls' = [calls EXCEPT ![Request.kind] = @ + 1]
  BY DEF CallDriver, CallsOn, Consumed
<1>2. /\ run' = run
      /\ session' = IF WithinMaximum(fixtures[preview]) THEN r ELSE f
  BY DEF CallDriver, ResolveEffect, FailSession, Request
<1>3. run \in Runs /\ IsSession(session) /\ Budgeted(session)
  BY DEF CommandInv, DriverInv
<1>4. IsSession(session')
  BY FixtureEnds DEF FixtureStep
<1>5. Budgeted(f) /\ Quiet(session, f) /\ ~Calls(f, Waiting)
  <2>1. Budgeted(f) /\ Quiet(session, f) /\ f.phase = "failed"
    BY <1>3, FailAccounts
  <2>2. QED
    BY <2>1 DEF Calls, Waiting
<1>6. /\ Budgeted(r)
      /\ Resolutions(r) = Append(Resolutions(session),
                                 ResolvedEvidence(session.machine, payload, usage))
      /\ Seals(r) = Seals(session) /\ SameLeft(r.machine, session.machine)
      /\ ~Calls(r, Waiting)
  BY <1>1, <1>3, ResolveAccounts
<1> HIDE DEF f, r
<1>7. Calls(session, {"awaiting_resolution"})
  BY <1>1 DEF Calls
<1>8. CASE WithinMaximum(fixtures[preview])
  BY <1>1, <1>2, <1>4, <1>6, <1>7, <1>8, KeptByCall
<1>9. CASE ~WithinMaximum(fixtures[preview])
  BY <1>1, <1>2, <1>4, <1>5, <1>7, <1>9, KeptByCall DEF Quiet
<1>10. QED
  BY <1>8, <1>9
-----------------------------------------------------------------------------
LEMMA BooksInit == CommandInit => DriverInv
<1> SUFFICES ASSUME CommandInit PROVE DriverInv
  OBVIOUS
<1>1. /\ run \in Runs /\ session = Started /\ consumed = {}
      /\ calls = [kind \in EffectKind |-> 0]
  BY DEF CommandInit, FixtureInit, RecordInit
<1>2. IsSession(session)
  BY CommandInvInit DEF CommandInv
<1>3. /\ session.machine.budget = NewBudget(run.limits)
      /\ session.trace = Header /\ session.phase = "running" /\ session.error = FALSE
  BY <1>1 DEF Started, NewMachine
<1>4. ~Calls(session, Waiting)
  BY <1>3 DEF Calls, Waiting
<1>5. Ledger(session.machine)
  <2>1. \A d \in CountDimensions : Left(session.machine, d) \in Nat
    <3>1. ASSUME NEW d \in CountDimensions PROVE Left(session.machine, d) \in Nat
      <4>1. Left(session.machine, d) = IF d \in DOMAIN run.limits THEN run.limits[d] ELSE 0
        BY <1>3, CountsAreBudgeted DEF Left, NewBudget
      <4>2. CASE d \in DOMAIN run.limits
        BY <1>1, <4>1, <4>2, LimitsAssumption
      <4>3. CASE d \notin DOMAIN run.limits
        BY <4>1, <4>3
      <4>4. QED
        BY <4>2, <4>3
    <3>2. QED
      BY <3>1
  <2>2. QED
    BY <1>3, <2>1 DEF Ledger, NewBudget
<1>6. Budgeted(session)
  BY <1>4, <1>5 DEF Budgeted
<1>7. calls \in [EffectKind -> Nat] /\ AllCalls = 0
  BY <1>1 DEF AllCalls, AllOf, EffectKind
<1>8. ASSUME NEW k \in EffectKind PROVE calls[k] + Unspent(session, k) <= Limit(k)
  <2>1. calls[k] = 0 /\ Owed(session, k) = 0
    BY <1>1, <1>4 DEF Owed
  <2>2. Left(session.machine, Dimension(k)) = Limit(k)
    BY <1>3 DEF Left, Limit
  <2>3. Limit(k) \in Nat
    BY <1>1, LimitsAreNumbers
  <2>4. QED
    BY <2>1, <2>2, <2>3 DEF Unspent
<1>9. AllCalls + Promised(session) <= Seals(session)
  <2>1. Promised(session) = 0
    BY <1>3 DEF Promised, Calls
  <2>2. Seals(session) \in Nat
    BY <1>2, SealsAreCounted
  <2>3. QED
    BY <1>7, <2>1, <2>2
<1>10. AnswersUseDistinctFixtures
  <2>1. Resolutions(session) = <<>>
    BY <1>3, HeaderHasNone DEF Resolutions, EffectEvents
  <2>2. DOMAIN <<>> = {}
    BY EmptySeq
  <2> DEFINE nothing == [k \in {} |-> 0]
  <2>3. nothing \in Injection({}, consumed)
    BY DEF Injection, IsInjective
  <2>4. Assigned(<<>>, consumed)
    BY <2>2, <2>3 DEF Assigned
  <2>5. QED
    BY <2>1, <2>4, AnswersAssigned
<1>11. QED
  BY <1>6, <1>7, <1>8, <1>9, <1>10 DEF DriverInv

LEMMA BooksStep ==
  CommandInv /\ (command = "run" => DriverInv) /\ [CommandNext]_commandVars
    => (command = "run" => DriverInv)'
<1> SUFFICES ASSUME CommandInv, command = "run" => DriverInv, [CommandNext]_commandVars,
                    command' = "run"
             PROVE  DriverInv'
  OBVIOUS
<1>1. CASE Executes
  <2>1. DriverInv /\ FixtureStep
    BY <1>1 DEF Executes, CommandInv
  <2>2. QED
    BY <2>1, BooksProgress, BooksPreview, BooksCall, BooksGiveUp DEF FixtureStep
<1>2. CASE \/ PersistSnapshot \/ PersistNext \/ PersistTrace \/ PublishState \/ Crash
           \/ Gone \/ UNCHANGED commandVars
  <2>1. UNCHANGED fixtureVars /\ command' = command
    BY <1>2 DEF PersistSnapshot, PersistNext, PersistTrace, PublishState, Crash, Gone,
                KeepSession, commandVars
  <2>2. UNCHANGED <<run, session, fixtures, consumed, calls>>
    BY <2>1 DEF fixtureVars, recordVars, driverVars
  <2>3. DriverInv
    BY <2>1
  <2>4. QED
    BY <2>2, <2>3 DEF DriverInv, AllCalls, Limit, AnswersUseDistinctFixtures, IsJsonSubset
<1>3. CASE ResumeAny \/ ReplayTrace
  BY <1>3 DEF ResumeAny, Resume, ReplayTrace
<1>4. QED
  BY <1>1, <1>2, <1>3 DEF CommandNext, CommandStep

\* While a run executes and writes its files, no effect was performed that was
\* not admitted within the limits and sealed before, and no fixture has
\* answered twice.
THEOREM DriverAccountsForAnswers == CommandSpec => []DriverIsAccountable
<1>1. CommandInit => CommandInv /\ (command = "run" => DriverInv)
  BY CommandInvInit, BooksInit
<1>2. CommandInv /\ (command = "run" => DriverInv) /\ [CommandNext]_commandVars
        => (CommandInv /\ (command = "run" => DriverInv))'
  BY CommandInvStep, BooksStep
<1>3. CommandInv /\ (command = "run" => DriverInv) => DriverIsAccountable
  BY BooksAreKept DEF DriverIsAccountable
<1>4. QED
  BY <1>1, <1>2, <1>3, PTL DEF CommandSpec

(* What the commands record: every session, of a run or of a resume, tells *)
(* its run, and so do the files it leaves.                                 *)

LEMMA RewoundIsFaithful ==
  ASSUME NEW trace, NEW snapshot, Described(snapshot)
  PROVE  Faithful(Rewound(trace, snapshot)) /\ ~Rewound(trace, snapshot).error
<1> DEFINE s == Rewound(trace, snapshot)
<1>1. /\ s.machine = snapshot /\ s.trace = snapshot.checkpoint /\ s.snapshots = <<>>
      /\ s.phase = "awaiting_resolution" /\ s.error = FALSE
  BY DEF Rewound, Restored, RestoredOn
<1>2. DOMAIN <<>> = {}
  BY EmptySeq
<1>3. Waits(snapshot.checkpoint, snapshot)
  BY DEF Described
<1> HIDE DEF s
<1>4. Faithful(s)
  BY <1>1, <1>2, <1>3 DEF Faithful, SnapshotsTold
<1>5. QED
  BY <1>1, <1>4 DEF s

\* A resume goes on telling the run that the snapshot was sealed in.
LEMMA ResumedIsFaithful ==
  ASSUME run \in Runs, NEW trace, NEW snapshot, IsSuspended(snapshot), Open(snapshot.checkpoint),
         Described(snapshot), NEW request, NEW payload, NEW usage
  PROVE  Faithful(Resumed(trace, snapshot, request, payload, usage))
<1> DEFINE w == Rewound(trace, snapshot)
           resolved == Resolve(w, request, payload, usage)
           progressed == Progressed(resolved)
           admitted == Admit(progressed, progressed.machine.pending.request, NoUsage)
           r == Resumed(trace, snapshot, request, payload, usage)
<1>1. r = IF resolved.error THEN resolved
          ELSE IF progressed.error \/ progressed.phase = "completed" THEN progressed
          ELSE admitted
  BY DEF Resumed
<1> HIDE DEF r
<1>2. IsSession(w) /\ Faithful(w) /\ ~w.error
  BY RewoundIsSession, RewoundIsFaithful
<1> HIDE DEF w
<1>3. IsSession(resolved) /\ Faithful(resolved) /\ (~resolved.error => resolved.phase = "running")
  BY <1>2, ResolveIsSession, ResolveIsFaithful
<1> HIDE DEF resolved
<1>4. ~resolved.error => IsSession(progressed) /\ Faithful(progressed)
  BY <1>3, ProgressedIsSession, ProgressedIsFaithful
<1> HIDE DEF progressed
<1>5. ~resolved.error /\ ~progressed.error => Faithful(admitted)
  BY <1>4, AdmitIsFaithful
<1> HIDE DEF admitted
<1>6. Faithful(r)
  BY <1>1, <1>3, <1>4, <1>5
<1>7. QED
  BY <1>6 DEF r

LEMMA FixtureIsFaithful ==
  ASSUME CommandInv, Faithful(session), FixtureStep
  PROVE  Faithful(session')
<1>1. run \in Runs /\ IsSession(session)
  BY DEF CommandInv
<1>2. CASE FixtureProgress
  <2>1. session' = Progressed(session) /\ ~session.error
    BY <1>2 DEF FixtureProgress, Progress, CallsOn
  <2>2. QED
    BY <1>1, <2>1, ProgressedIsFaithful
<1>3. CASE PreviewEffect
  <2>1. PICK maximums : session' = Admit(session, Request, maximums) /\ ~session.error
    BY <1>3 DEF PreviewEffect, AdmitEffect, CallsOn
  <2>2. QED
    BY <1>1, <2>1, AdmitIsFaithful
<1>4. CASE CallDriver
  <2>1. ~session.error
    BY <1>4 DEF CallDriver, CallsOn
  <2>2. CASE WithinMaximum(fixtures[preview])
    <3>1. PICK payload, usage : session' = Resolve(session, Request, payload, usage)
      BY <1>4, <2>2 DEF CallDriver, ResolveEffect
    <3>2. QED
      BY <1>1, <2>1, <3>1, ResolveIsFaithful
  <2>3. CASE ~WithinMaximum(fixtures[preview])
    <3>1. session' = Fail(session)
      BY <1>4, <2>3 DEF CallDriver, FailSession
    <3>2. QED
      BY <1>1, <3>1, FailIsFaithful
  <2>4. QED
    BY <2>2, <2>3
<1>5. CASE GiveUp
  <2>1. session' = Fail(session)
    BY <1>5 DEF GiveUp, FailSession
  <2>2. QED
    BY <1>1, <2>1, FailIsFaithful
<1>6. QED
  BY <1>2, <1>3, <1>4, <1>5 DEF FixtureStep

FilesRecorded == \A snapshot \in Files : Described(snapshot)

CommandRecorded ==
  /\ Faithful(session) /\ FilesRecorded
  /\ at = "publishing" => disk.trace = session.trace /\ session.phase = "completed"

\* What holds of the values of the next state holds in the next state.
LEMMA CommandRecordedNext ==
  ASSUME run' = run, Faithful(session'), \A snapshot \in Files' : Described(snapshot),
         at' = "publishing" => disk'.trace = session'.trace /\ session'.phase = "completed"
  PROVE  CommandRecorded'
BY SameFaithful DEF CommandRecorded, FilesRecorded

LEMMA CommandRecordedStill ==
  ASSUME CommandRecorded, KeepSession, Files' = Files, disk'.trace = disk.trace,
         at' = at \/ at' # "publishing"
  PROVE  CommandRecorded'
<1>1. run' = run /\ session' = session
  BY DEF KeepSession, fixtureVars, recordVars
<1>2. QED
  BY <1>1, CommandRecordedNext DEF CommandRecorded, FilesRecorded

\* A command writes continuations its own session sealed.
LEMMA WrittenRecorded ==
  ASSUME CommandInv, CommandRecorded, PersistSnapshot \/ PersistNext
  PROVE  CommandRecorded' /\ disk'.state = disk.state
<1>1. /\ at = "persisting" /\ at' = at /\ run' = run /\ session' = session
      /\ files < Len(session.snapshots) /\ files \in Nat
      /\ DOMAIN disk = {"snapshots", "next", "trace", "state"}
  BY DEF PersistSnapshot, PersistNext, CommandInv, DiskInv, KeepSession, fixtureVars, recordVars
<1>2. PICK n \in {1, files + 1} :
        \/ disk' = [disk EXCEPT !.snapshots = Append(@, session.snapshots[n])]
        \/ disk' = [disk EXCEPT !.next = {session.snapshots[n]}]
  BY DEF PersistSnapshot, PersistNext
<1> DEFINE snapshot == session.snapshots[n]
           s == disk.snapshots
<1>3. Described(snapshot)
  <2>1. n \in DOMAIN session.snapshots
    BY <1>1, SequenceParts DEF CommandInv, IsSession
  <2>2. QED
    BY <2>1 DEF CommandRecorded, Faithful, SnapshotsTold
<1>4. IsSequence(s)
  BY DEF CommandInv, DiskInv
<1>5. \/ disk'.snapshots = Append(s, snapshot) /\ disk'.next = disk.next
      \/ disk'.snapshots = s /\ disk'.next = {snapshot}
  BY <1>1, <1>2
<1> HIDE DEF s, snapshot
<1>6. Range(Append(s, snapshot)) \subseteq Range(s) \cup {snapshot}
  BY <1>4, RangeOfAppended
<1>7. Files' \subseteq Files \cup {snapshot}
  BY <1>5, <1>6 DEF Files, s
<1>8. \A f \in Files' : Described(f)
  BY <1>3, <1>7 DEF CommandRecorded, FilesRecorded
<1>9. disk'.state = disk.state
  BY <1>1, <1>2
<1>10. QED
  BY <1>1, <1>8, <1>9, CommandRecordedNext DEF CommandRecorded

\* The state is published from a trace that replays.
StatesReplay == disk'.state # disk.state => Replays(disk.trace)

LEMMA CommandRecordedStep ==
  ASSUME CommandInv, CommandRecorded, [CommandNext]_commandVars
  PROVE  CommandRecorded' /\ StatesReplay
<1> DEFINE fields == {"snapshots", "next", "trace", "state"}
<1>1. DOMAIN disk = fields /\ run \in Runs
  BY DEF CommandInv, DiskInv
<1>2. CASE Executes
  <2>1. run' = run /\ disk' = disk /\ at' # "publishing" /\ Faithful(session')
    BY <1>2, FixtureEnds, FixtureIsFaithful DEF Executes, CommandRecorded
  <2>2. QED
    BY <2>1, CommandRecordedNext DEF CommandRecorded, FilesRecorded, Files, StatesReplay
<1>3. CASE PersistSnapshot \/ PersistNext
  BY <1>3, WrittenRecorded DEF StatesReplay
<1>4. CASE PersistTrace
  <2>1. /\ disk' = [disk EXCEPT !.trace = session.trace] /\ run' = run /\ session' = session
        /\ at' = "publishing" => session.phase = "completed"
    BY <1>4 DEF PersistTrace, KeepSession, fixtureVars, recordVars
  <2>2. /\ disk'.snapshots = disk.snapshots /\ disk'.next = disk.next
        /\ disk'.trace = session.trace /\ disk'.state = disk.state
    BY <1>1, <2>1
  <2>3. Files' = Files
    BY <2>2 DEF Files
  <2>4. QED
    BY <2>1, <2>2, <2>3, CommandRecordedNext DEF CommandRecorded, FilesRecorded, StatesReplay
<1>5. CASE PublishState
  <2>1. /\ at = "publishing" /\ KeepSession /\ at' # "publishing"
        /\ disk' = [disk EXCEPT !.state = session.outcome]
    BY <1>5 DEF PublishState
  <2>2. /\ disk'.snapshots = disk.snapshots /\ disk'.next = disk.next /\ disk'.trace = disk.trace
    BY <1>1, <2>1
  <2>3. Files' = Files
    BY <2>2 DEF Files
  <2>4. Replays(disk.trace)
    BY <2>1 DEF CommandRecorded, Faithful
  <2>5. QED
    BY <2>1, <2>2, <2>3, <2>4, CommandRecordedStill DEF StatesReplay
<1>6. CASE ReplayTrace
  <2>1. KeepSession /\ at' = at /\ Replays(disk.trace)
    BY <1>6 DEF ReplayTrace
  <2>2. PICK outcome : disk' = [disk EXCEPT !.state = outcome]
    BY <1>6 DEF ReplayTrace
  <2>3. /\ disk'.snapshots = disk.snapshots /\ disk'.next = disk.next /\ disk'.trace = disk.trace
    BY <1>1, <2>2
  <2>4. Files' = Files
    BY <2>3 DEF Files
  <2>5. QED
    BY <2>1, <2>3, <2>4, CommandRecordedStill DEF StatesReplay
<1>7. CASE ResumeAny
  <2>1. PICK snapshot \in Files, request \in Requests, payload \in Payloads, usage \in Usages :
          Resume(snapshot, request, payload, usage)
    BY <1>7 DEF ResumeAny
  <2>2. /\ session' = Resumed(disk.trace, snapshot, request, payload, usage)
        /\ run' = run /\ disk' = disk /\ at' # "publishing"
    BY <2>1 DEF Resume
  <2>3. IsSuspended(snapshot) /\ Open(snapshot.checkpoint) /\ Described(snapshot)
    BY <2>1 DEF CommandInv, DiskInv, CommandRecorded, FilesRecorded
  <2>4. Faithful(session')
    BY <1>1, <2>2, <2>3, ResumedIsFaithful
  <2>5. QED
    BY <2>2, <2>4, CommandRecordedNext DEF CommandRecorded, FilesRecorded, Files, StatesReplay
<1>8. CASE Crash \/ Gone \/ UNCHANGED commandVars
  <2>1. KeepSession /\ disk' = disk /\ (at' = at \/ at' # "publishing")
    BY <1>8 DEF Crash, Gone, commandVars, KeepSession
  <2>2. QED
    BY <2>1, CommandRecordedStill DEF Files, StatesReplay
<1>9. QED
  BY <1>2, <1>3, <1>4, <1>5, <1>6, <1>7, <1>8 DEF CommandNext, CommandStep

LEMMA CommandRecordedInvariant == CommandSpec => [](CommandInv /\ CommandRecorded)
<1>1. CommandInit => CommandRecorded
  <2> SUFFICES ASSUME CommandInit PROVE CommandRecorded
    OBVIOUS
  <2>1. /\ run \in Runs /\ session = Started /\ at # "publishing"
        /\ disk = [snapshots |-> <<>>, next |-> {}, trace |-> <<>>, state |-> None]
    BY DEF CommandInit, FixtureInit, RecordInit
  <2>2. Range(<<>>) = {}
    BY EmptySeq DEF Range
  <2>3. Files = {}
    BY <2>1, <2>2 DEF Files
  <2>4. QED
    BY <2>1, <2>3, StartedIsFaithful DEF CommandRecorded, FilesRecorded
<1>2. (CommandInv /\ CommandRecorded) /\ [CommandNext]_commandVars
        => (CommandInv /\ CommandRecorded)'
  BY CommandInvStep, CommandRecordedStep
<1>3. QED
  BY <1>1, <1>2, CommandInvInit, PTL DEF CommandSpec

\* Whatever the fixtures answer, a run that completes can be replayed; so can
\* one that crashes, is resumed from any of its files, however often, and
\* completes then; and every continuation is the one its trace describes
\* (run_command and resume_command against replay_run).
THEOREM CommandRecordingsReplay ==
  CommandSpec => [](CompletedRunReplays /\ SnapshotsMatchTheirTrace)
<1>1. CommandInv /\ CommandRecorded => CompletedRunReplays /\ SnapshotsMatchTheirTrace
  BY RecordInvImplies DEF CommandInv, CommandRecorded, RecordInv
<1>2. QED
  BY <1>1, CommandRecordedInvariant, PTL

\* No command writes a state file unless the trace file is one that replay
\* accepts (persist_run_evidence, resume_command, replay_command).
THEOREM CommandStatesReplay ==
  CommandSpec => [][disk'.state # disk.state => Replays(disk.trace)]_commandVars
<1>1. (CommandInv /\ CommandRecorded) /\ [CommandNext]_commandVars
        => [disk'.state # disk.state => Replays(disk.trace)]_commandVars
  BY CommandRecordedStep DEF StatesReplay
<1>2. QED
  BY <1>1, CommandRecordedInvariant, PTL DEF CommandSpec
-----------------------------------------------------------------------------
(* What a resume may start from: the trace on disk, and every file, begins *)
(* with the checkpoint of a file the run has written, and those files are  *)
(* never replaced.                                                         *)

Reaches(snapshots, trace) ==
  \E snapshot \in Range(snapshots) : IsPrefix(snapshot.checkpoint, trace)

LEMMA AppendedRange ==
  ASSUME NEW s, IsSequence(s), NEW e
  PROVE  Range(s) \subseteq Range(Append(s, e)) /\ e \in Range(Append(s, e))
<1>1. /\ DOMAIN s = 1..Len(s) /\ Len(s) \in Nat
      /\ DOMAIN Append(s, e) = 1..(Len(s) + 1)
      /\ \A i \in 1..Len(s) : Append(s, e)[i] = s[i]
      /\ Append(s, e)[Len(s) + 1] = e
  BY AppendIsSequence
<1>2. /\ \A i \in 1..Len(s) : i \in 1..(Len(s) + 1)
      /\ Len(s) + 1 \in 1..(Len(s) + 1)
  BY <1>1
<1>3. QED
  BY <1>1, <1>2 DEF Range

LEMMA NotEmpty ==
  ASSUME NEW s, IsSequence(s), s # <<>>
  PROVE  Len(s) \in Nat /\ Len(s) > 0
BY EmptySeq DEF IsSequence

LEMMA StillReaches ==
  ASSUME NEW s, NEW t, Range(s) \subseteq Range(t), NEW trace, Reaches(s, trace)
  PROVE  Reaches(t, trace)
BY DEF Reaches

LEMMA PrefixOfAppended ==
  ASSUME NEW p, IsSequence(p), NEW t, IsSequence(t), NEW e, IsPrefix(p, t)
  PROVE  IsSequence(Append(t, e)) /\ IsPrefix(p, Append(t, e))
<1>1. Append(t, e) = t \o <<e>> /\ IsSequence(<<e>>) /\ IsSequence(Append(t, e))
  BY AppendConcat, SingletonIsSequence, AppendIsSequence
<1>2. QED
  BY <1>1, PrefixOfMore

\* An operation of the session only appends to its trace.
LEMMA ResolveAppends ==
  ASSUME run \in Runs, NEW s, IsSession(s), NEW request, NEW payload, NEW usage,
         NEW p, IsSequence(p), IsPrefix(p, s.trace)
  PROVE  IsPrefix(p, Resolve(s, request, payload, usage).trace)
<1> DEFINE m == s.machine
           supplied == Supplied(m, payload, usage)
           entry == ResolvedEvidence(m, payload, usage)
           resolved == Append(s.trace, entry)
           r == Resolve(s, request, payload, usage)
<1>1. /\ IsSequence(s.trace)
      /\ DOMAIN s = {"machine", "trace", "snapshots", "phase", "outcome", "error"}
  BY DEF IsSession
<1>2. CASE s.phase # "awaiting_resolution" \/ request # m.pending.request
  <2>1. r = Refused(s)
    BY <1>2 DEF Resolve
  <2>2. QED
    BY <1>1, <2>1 DEF Refused
<1>3. CASE s.phase = "awaiting_resolution" /\ request = m.pending.request
  <2>1. IsSuspended(m)
    BY <1>3 DEF IsSession, Waiting
  <2>2. IsSequence(resolved) /\ IsPrefix(p, resolved)
    <3> HIDE DEF entry
    <3>1. QED
      BY <1>1, PrefixOfAppended
  <2>3. CASE ~AcceptsAnswer(m, payload, usage)
    <3>1. r.trace = resolved
      BY <1>1, <1>3, <2>3 DEF Resolve
    <3>2. QED
      BY <2>2, <3>1
  <2>4. CASE AcceptsAnswer(m, payload, usage)
    <3> DEFINE audits == Audits(Reaction(supplied).decoded)
               last == SettledEvidence(Admitted(m), usage, supplied.budget)
    <3>1. payload \in m.pending.expected
      BY <2>4 DEF AcceptsAnswer
    <3>2. supplied.answers = Append(m.answers, payload)
      BY <2>1, <2>4 DEF Supplied, IsSuspended, IsMachine
    <3>3. Append(m.answers, payload) \in DOMAIN run.program
      BY <2>1, <3>1, ReactionsAreReactions DEF IsSuspended
    <3>4. IsReaction(Reaction(supplied))
      BY <3>2, <3>3, RunsAssumption DEF IsProgram, Reaction
    <3>5. IsSequence(audits)
      BY <3>4, OpenAudits DEF IsReaction
    <3>6. r.trace = resolved \o audits \o <<last>>
      BY <1>1, <1>3, <2>4 DEF Resolve
    <3> HIDE DEF audits, last, resolved, r
    <3>7. IsSequence(resolved \o audits) /\ IsPrefix(p, resolved \o audits)
      BY <2>2, <3>5, ConcatIsSequence, PrefixOfMore
    <3>8. IsPrefix(p, r.trace)
      BY <3>6, <3>7, SingletonIsSequence, PrefixOfMore
    <3>9. QED
      BY <3>8 DEF r
  <2>5. QED
    BY <2>3, <2>4
<1>4. QED
  BY <1>2, <1>3

LEMMA ProgressedAppends ==
  ASSUME run \in Runs, NEW s, IsSession(s), s.phase = "running",
         NEW p, IsSequence(p), IsPrefix(p, s.trace)
  PROVE  IsPrefix(p, Progressed(s).trace)
<1> DEFINE m == s.machine
           r == Reaction(m)
           audited == s.trace \o Audits(r.audit)
           q == Progressed(s)
<1>1. /\ IsReaction(r) /\ IsSequence(s.trace)
      /\ DOMAIN s = {"machine", "trace", "snapshots", "phase", "outcome", "error"}
  BY ReactionsAreReactions DEF IsSession
<1>2. IsSequence(audited) /\ IsPrefix(p, audited)
  <2>1. IsSequence(Audits(r.audit))
    BY <1>1, OpenAudits DEF IsReaction
  <2>2. QED
    BY <1>1, <2>1, ConcatIsSequence, PrefixOfMore
<1>3. PICK u : IsSequence(u) /\ (q.trace = audited \o u \/ q.trace = audited)
  <2>1. CASE CanYield(m)
    <3>1. q.trace = Append(audited, Requested(Yielded(m)))
      BY <1>1, <2>1 DEF Progressed
    <3> HIDE DEF audited, q
    <3>2. q.trace = audited \o <<Requested(Yielded(m))>>
      BY <1>2, <3>1, AppendConcat
    <3>3. QED
      BY <3>2, SingletonIsSequence
  <2>2. CASE ~CanYield(m) /\ r.step = "completed"
    <3> DEFINE t == <<StateCommitted(r.outcome), RunCompleted(r.outcome)>>
    <3>1. q.trace = audited \o t
      BY <1>1, <2>2 DEF Progressed
    <3>2. t \in Seq({StateCommitted(r.outcome), RunCompleted(r.outcome)})
      OBVIOUS
    <3>3. IsSequence(t)
      BY <3>2, SeqOfRange DEF IsSequence
    <3> HIDE DEF t, audited, q
    <3>4. QED
      BY <3>1, <3>3
  <2>3. CASE ~CanYield(m) /\ r.step # "completed"
    <3>1. q.trace = audited
      BY <1>1, <2>3 DEF Progressed
    <3> HIDE DEF audited, q
    <3>2. QED
      BY <1>2, <3>1
  <2>4. QED
    BY <2>1, <2>2, <2>3
<1> HIDE DEF audited, q
<1>4. IsPrefix(p, q.trace)
  BY <1>2, <1>3, PrefixOfMore
<1>5. QED
  BY <1>4 DEF q

\* What admit seals begins with the trace it was called on.
LEMMA AdmitAppends ==
  ASSUME NEW s, IsSession(s), NEW request, NEW maximums,
         NEW p, IsSequence(p), IsPrefix(p, s.trace)
  PROVE  LET a == Admit(s, request, maximums)
         IN  ~a.error => IsPrefix(p, a.machine.checkpoint) /\ IsPrefix(p, a.trace)
<1> DEFINE a == Admit(s, request, maximums)
           reserved == UsageReserved(s.machine, maximums)
           entry == ReservedEvidence(reserved)
           evidence == Append(s.trace, entry)
           sealed == [reserved EXCEPT !.checkpoint = evidence]
           admits == /\ s.phase = "awaiting_admission"
                     /\ request = s.machine.pending.request
                     /\ CanReserveUsage(s.machine, maximums)
<1>1. /\ IsSequence(s.trace)
      /\ DOMAIN s = {"machine", "trace", "snapshots", "phase", "outcome", "error"}
  BY DEF IsSession
<1>2. CASE admits
  <2>1. IsSuspended(reserved)
    BY <1>2, UsageReservedIsSuspended DEF IsSession, Waiting
  <2>2. sealed.checkpoint = evidence
    <3> HIDE DEF reserved, evidence
    <3>1. QED
      BY <2>1 DEF IsSuspended, IsMachine
  <2>3. a.machine = sealed /\ a.trace = Append(evidence, SnapshotWritten)
    BY <1>1, <1>2 DEF Admit
  <2> HIDE DEF entry, a
  <2>4. IsSequence(evidence) /\ IsPrefix(p, evidence)
    BY <1>1, PrefixOfAppended
  <2> HIDE DEF evidence, sealed
  <2>5. IsPrefix(p, Append(evidence, SnapshotWritten))
    BY <2>4, PrefixOfAppended
  <2>6. QED
    BY <2>2, <2>3, <2>4, <2>5 DEF a
<1>3. CASE ~admits
  <2>1. a = Refused(s)
    BY <1>3 DEF Admit
  <2>2. a.error
    BY <2>1, RefusedIsSession
  <2>3. QED
    BY <2>2
<1>4. QED
  BY <1>2, <1>3

\* A resume goes on from the prefix its snapshot sealed, and so does what it
\* seals.
LEMMA ResumedAppends ==
  ASSUME run \in Runs, NEW trace, NEW snapshot, IsSuspended(snapshot), Open(snapshot.checkpoint),
         NEW request, NEW payload, NEW usage,
         NEW p, IsSequence(p), IsPrefix(p, snapshot.checkpoint)
  PROVE  LET r == Resumed(trace, snapshot, request, payload, usage)
         IN  ~r.error => /\ IsPrefix(p, r.trace)
                         /\ \A n \in DOMAIN r.snapshots : IsPrefix(p, r.snapshots[n].checkpoint)
<1> DEFINE w == Rewound(trace, snapshot)
           resolved == Resolve(w, request, payload, usage)
           progressed == Progressed(resolved)
           admitted == Admit(progressed, progressed.machine.pending.request, NoUsage)
           r == Resumed(trace, snapshot, request, payload, usage)
<1>1. r = IF resolved.error THEN resolved
          ELSE IF progressed.error \/ progressed.phase = "completed" THEN progressed
          ELSE admitted
  BY DEF Resumed
<1> HIDE DEF r
<1> SUFFICES ASSUME ~r.error
             PROVE  /\ IsPrefix(p, r.trace)
                    /\ \A n \in DOMAIN r.snapshots : IsPrefix(p, r.snapshots[n].checkpoint)
  BY DEF r
<1>2. IsSession(w) /\ w.snapshots = <<>> /\ w.trace = snapshot.checkpoint
  <2>1. IsSession(w) /\ w.snapshots = <<>>
    BY RewoundIsSession
  <2>2. w.trace = snapshot.checkpoint
    BY DEF Rewound, Restored, RestoredOn
  <2>3. QED
    BY <2>1, <2>2
<1> HIDE DEF w
<1>3. /\ IsSession(resolved) /\ resolved.snapshots = <<>> /\ IsPrefix(p, resolved.trace)
      /\ ~resolved.error => resolved.phase = "running"
  BY <1>2, ResolveIsSession, ResolveAppends
<1> HIDE DEF resolved
<1>4. ~resolved.error
  BY <1>1
<1>5. /\ IsSession(progressed) /\ progressed.snapshots = <<>> /\ IsPrefix(p, progressed.trace)
  BY <1>3, <1>4, ProgressedIsSession, ProgressedAppends
<1> HIDE DEF progressed
<1>6. DOMAIN <<>> = {}
  BY EmptySeq
<1>7. CASE progressed.error \/ progressed.phase = "completed"
  BY <1>1, <1>4, <1>5, <1>6, <1>7
<1>8. CASE ~progressed.error /\ progressed.phase # "completed"
  <2>1. r = admitted
    BY <1>1, <1>4, <1>8
  <2>2. admitted.snapshots = Append(<<>>, admitted.machine)
    BY <1>5, <2>1, AdmitIsSession
  <2>3. IsPrefix(p, admitted.machine.checkpoint) /\ IsPrefix(p, admitted.trace)
    BY <1>5, <2>1, AdmitAppends
  <2> HIDE DEF admitted
  <2>4. DOMAIN admitted.snapshots = {1} /\ admitted.snapshots[1] = admitted.machine
    BY <2>2
  <2>5. QED
    BY <2>1, <2>3, <2>4
<1>9. QED
  BY <1>7, <1>8

\* A run that has sealed nothing has no seal on its trace.
SealsItsTrace(s) == s.snapshots = <<>> => Seals(s) = 0

LEMMA RunSealsItsTrace ==
  ASSUME CommandInv, DriverInv, SealsItsTrace(session), FixtureStep
  PROVE  SealsItsTrace(session')
<1>1. run \in Runs /\ IsSession(session) /\ Budgeted(session)
  BY DEF CommandInv, DriverInv
<1>2. CASE FixtureProgress
  <2>1. session.phase = "running" /\ session' = Progressed(session)
    BY <1>2 DEF FixtureProgress, Progress
  <2>2. session'.snapshots = session.snapshots /\ Seals(session') = Seals(session)
    BY <1>1, <2>1, ProgressedIsSession, ProgressedAccounts
  <2>3. QED
    BY <2>2 DEF SealsItsTrace
<1>3. CASE PreviewEffect
  <2>1. PICK maximums : session' = Admit(session, Request, maximums)
    BY <1>3 DEF PreviewEffect, AdmitEffect
  <2>2. CASE session'.snapshots = Append(session.snapshots, session'.machine)
    <3> DEFINE a == session'.machine
    <3>1. IsSequence(session.snapshots)
      BY <1>1 DEF IsSession
    <3> HIDE DEF a
    <3>2. Len(Append(session.snapshots, a)) = Len(session.snapshots) + 1 /\ Len(session.snapshots) \in Nat
      BY <3>1, AppendIsSequence
    <3>3. Len(<<>>) = 0
      BY EmptySeq
    <3> DEFINE b == Append(session.snapshots, a)
    <3> HIDE DEF b
    <3>4. Len(b) = Len(session.snapshots) + 1
      BY <3>2 DEF b
    <3>5. b # <<>>
      <4>1. SUFFICES ASSUME b = <<>> PROVE FALSE
        OBVIOUS
      <4>2. Len(b) = 0
        BY <3>3, <4>1, Zenon
      <4>3. QED
        BY <3>2, <3>4, <4>2
    <3>6. QED
      BY <2>2, <3>5 DEF SealsItsTrace, a, b
  <2>3. CASE session' = Refused(session)
    <3>1. session'.snapshots = session.snapshots /\ Seals(session') = Seals(session)
      BY <1>1, <2>3, RefusedIsSession, RefusedAccounts DEF Quiet
    <3>2. QED
      BY <3>1 DEF SealsItsTrace
  <2>4. session'.snapshots = Append(session.snapshots, session'.machine) \/ session' = Refused(session)
    <3>1. DOMAIN session = {"machine", "trace", "snapshots", "phase", "outcome", "error"}
      BY <1>1 DEF IsSession
    <3>2. QED
      BY <2>1, <3>1 DEF Admit
  <2>5. QED
    BY <2>2, <2>3, <2>4
<1>4. CASE CallDriver
  <2>1. session.phase = "awaiting_resolution" /\ ~session.error
    BY <1>4 DEF CallDriver, CallsOn
  <2>2. CASE WithinMaximum(fixtures[preview])
    <3>1. PICK payload, usage : session' = Resolve(session, session.machine.pending.request, payload, usage)
      BY <1>4, <2>2 DEF CallDriver, ResolveEffect, Request
    <3>2. session'.snapshots = session.snapshots
      BY <1>1, <3>1, ResolveIsSession
    <3>3. Seals(session') = Seals(session)
      BY <1>1, <2>1, <3>1, ResolveAccounts
    <3>4. QED
      BY <3>2, <3>3 DEF SealsItsTrace
  <2>3. CASE ~WithinMaximum(fixtures[preview])
    <3>1. session' = Fail(session)
      BY <1>4, <2>3 DEF CallDriver, FailSession
    <3>2. session'.snapshots = session.snapshots /\ Seals(session') = Seals(session)
      BY <1>1, <3>1, FailIsSession, FailAccounts DEF Quiet
    <3>3. QED
      BY <3>2 DEF SealsItsTrace
  <2>4. QED
    BY <2>2, <2>3
<1>5. CASE GiveUp
  <2>1. session' = Fail(session)
    BY <1>5 DEF GiveUp, FailSession
  <2>2. session'.snapshots = session.snapshots /\ Seals(session') = Seals(session)
    BY <1>1, <2>1, FailIsSession, FailAccounts DEF Quiet
  <2>3. QED
    BY <2>2 DEF SealsItsTrace
<1>6. QED
  BY <1>2, <1>3, <1>4, <1>5 DEF FixtureStep

ReachInv ==
  /\ \A file \in Files : Reaches(disk.snapshots, file.checkpoint)
  /\ Count(disk.trace, "snapshot_written") > 0 => Reaches(disk.snapshots, disk.trace)
  /\ at = "executing" => files = 0
  /\ command = "run" => SealsItsTrace(session)
  /\ command = "run" /\ at = "persisting" /\ files > 0 =>
       session.snapshots[1] \in Range(disk.snapshots)
  /\ command = "resume" /\ at = "persisting" =>
       /\ Reaches(disk.snapshots, session.trace)
       /\ \A n \in DOMAIN session.snapshots :
            Reaches(disk.snapshots, session.snapshots[n].checkpoint)

LEMMA ReachInit == CommandInit => ReachInv
<1> SUFFICES ASSUME CommandInit PROVE ReachInv
  OBVIOUS
<1>1. /\ command = "run" /\ at = "executing" /\ files = 0 /\ session = Started
      /\ disk = [snapshots |-> <<>>, next |-> {}, trace |-> <<>>, state |-> None]
  BY DEF CommandInit, FixtureInit, RecordInit
<1>2. Range(<<>>) = {} /\ IsSequence(<<>>) /\ Len(<<>>) = 0
  BY EmptySeq DEF Range, IsSequence
<1>3. Files = {}
  BY <1>1, <1>2 DEF Files
<1>4. Count(<<>>, "snapshot_written") = 0
  BY <1>2, EntriesNone DEF Count
<1>5. Seals(session) = 0
  <2>1. session.trace = Header
    BY <1>1 DEF Started
  <2>2. IsSequence(Header) /\ \A n \in 1..Len(Header) : Header[n].event # "snapshot_written"
    BY HeaderHasNone, SequenceParts
  <2> HIDE DEF Header
  <2>3. QED
    BY <1>2, <2>1, <2>2, EntriesNone DEF Seals, Count
<1>6. QED
  BY <1>1, <1>3, <1>4, <1>5 DEF ReachInv, SealsItsTrace

\* A file that is written begins as one the run has written, as itself at
\* least.
LEMMA WrittenReaches ==
  ASSUME CommandInv, ReachInv, PersistSnapshot \/ PersistNext
  PROVE  ReachInv'
<1>1. /\ at = "persisting" /\ at' = at /\ command' = command /\ session' = session
      /\ files < Len(session.snapshots) /\ files \in Nat /\ files' = files + 1
      /\ DOMAIN disk = {"snapshots", "next", "trace", "state"} /\ IsSequence(disk.snapshots)
  BY DEF PersistSnapshot, PersistNext, CommandInv, DiskInv, KeepSession, fixtureVars, recordVars
<1>2. /\ IsSequence(session.snapshots) /\ 1 \in DOMAIN session.snapshots
      /\ files + 1 \in DOMAIN session.snapshots
  BY <1>1, SequenceParts DEF CommandInv, IsSession
<1>3. CASE PersistSnapshot
  <2> DEFINE old == disk.snapshots
             snapshot == session.snapshots[files + 1]
             new == Append(old, snapshot)
  <2>1. /\ command = "run" /\ disk'.snapshots = new /\ disk'.next = disk.next
        /\ disk'.trace = disk.trace
    BY <1>1, <1>3 DEF PersistSnapshot
  <2>2. IsSequence(snapshot.checkpoint)
    BY <1>2 DEF CommandInv, IsSession, IsSuspended, IsMachine
  <2> HIDE DEF snapshot
  <2>3. /\ Range(new) \subseteq Range(old) \cup {snapshot}
        /\ Range(old) \subseteq Range(new) /\ snapshot \in Range(new)
    BY <1>1, RangeOfAppended, AppendedRange
  <2>4. Reaches(new, snapshot.checkpoint)
    BY <2>2, <2>3, PrefixOfItself DEF Reaches
  <2> HIDE DEF new
  <2>5. \A file \in Range(new) \cup disk.next : Reaches(new, file.checkpoint)
    BY <2>3, <2>4, StillReaches DEF ReachInv, Files
  <2>6. Count(disk.trace, "snapshot_written") > 0 => Reaches(new, disk.trace)
    BY <2>3, StillReaches DEF ReachInv
  <2>7. session.snapshots[1] \in Range(new)
    <3>1. CASE files = 0
      BY <2>3, <3>1 DEF snapshot
    <3>2. CASE files > 0
      BY <1>1, <2>1, <2>3, <3>2 DEF ReachInv
    <3>3. QED
      BY <1>1, <3>1, <3>2
  <2>8. SealsItsTrace(session)
    BY <2>1 DEF ReachInv
  <2> HIDE DEF old
  <2>9. QED
    BY <1>1, <2>1, <2>5, <2>6, <2>7, <2>8 DEF ReachInv, Files
<1>4. CASE PersistNext
  <2> DEFINE snapshot == session.snapshots[1]
  <2>1. /\ command = "resume" /\ disk'.snapshots = disk.snapshots /\ disk'.next = {snapshot}
        /\ disk'.trace = disk.trace
    BY <1>1, <1>4 DEF PersistNext
  <2>2. Reaches(disk.snapshots, snapshot.checkpoint)
    BY <1>1, <1>2, <2>1 DEF ReachInv
  <2> HIDE DEF snapshot
  <2>3. QED
    BY <1>1, <2>1, <2>2 DEF ReachInv, Files
<1>5. QED
  BY <1>3, <1>4

\* The trace that is written begins with the first file of its run.
LEMMA WrittenTraceReaches ==
  ASSUME CommandInv, CommandRecorded, ReachInv, PersistTrace
  PROVE  ReachInv'
<1>1. /\ at = "persisting" /\ at' \in {"publishing", "exited"} /\ command' = command
      /\ session' = session /\ files = Len(session.snapshots)
      /\ DOMAIN disk = {"snapshots", "next", "trace", "state"}
      /\ disk' = [disk EXCEPT !.trace = session.trace]
  BY DEF PersistTrace, AllFilesWritten, CommandInv, DiskInv, KeepSession, fixtureVars, recordVars
<1>2. /\ disk'.snapshots = disk.snapshots /\ disk'.next = disk.next /\ disk'.trace = session.trace
  BY <1>1
<1>3. Count(session.trace, "snapshot_written") > 0 => Reaches(disk.snapshots, session.trace)
  <2>1. CASE command = "run"
    <3> SUFFICES ASSUME Seals(session) > 0 PROVE Reaches(disk.snapshots, session.trace)
      BY DEF Seals
    <3>1. session.snapshots # <<>>
      BY <2>1 DEF ReachInv, SealsItsTrace
    <3>2. IsSequence(session.snapshots)
      BY DEF CommandInv, IsSession
    <3>3. files > 0 /\ 1 \in DOMAIN session.snapshots
      BY <1>1, <3>1, <3>2, SequenceParts, NotEmpty
    <3>4. session.snapshots[1] \in Range(disk.snapshots)
      BY <1>1, <2>1, <3>3 DEF ReachInv
    <3>5. IsPrefix(session.snapshots[1].checkpoint, session.trace)
      BY <3>3 DEF CommandRecorded, Faithful, SnapshotsTold
    <3>6. QED
      BY <3>4, <3>5 DEF Reaches
  <2>2. CASE command = "resume"
    BY <1>1, <2>2 DEF ReachInv
  <2>3. QED
    BY <1>1, <2>1, <2>2 DEF CommandInv, WritingInv
<1>4. QED
  BY <1>1, <1>2, <1>3 DEF ReachInv, Files

LEMMA ResumeReaches ==
  ASSUME CommandInv, ReachInv, ResumeAny
  PROVE  ReachInv'
<1>1. PICK snapshot \in Files, request \in Requests, payload \in Payloads, usage \in Usages :
        Resume(snapshot, request, payload, usage)
  BY DEF ResumeAny
<1> DEFINE r == Resumed(disk.trace, snapshot, request, payload, usage)
<1>2. /\ session' = r /\ disk' = disk /\ command' = "resume" /\ run \in Runs
      /\ at' = IF r.error THEN "exited" ELSE "persisting"
  BY <1>1 DEF Resume, CommandInv
<1>3. IsSuspended(snapshot) /\ Open(snapshot.checkpoint)
  BY <1>1 DEF CommandInv, DiskInv
<1>4. PICK first \in Range(disk.snapshots) : IsPrefix(first.checkpoint, snapshot.checkpoint)
  BY <1>1 DEF ReachInv, Reaches
<1>5. IsSequence(first.checkpoint)
  BY <1>4 DEF CommandInv, DiskInv, Files, IsSuspended, IsMachine
<1>6. ~r.error => /\ IsPrefix(first.checkpoint, r.trace)
                  /\ \A n \in DOMAIN r.snapshots : IsPrefix(first.checkpoint, r.snapshots[n].checkpoint)
  BY <1>2, <1>3, <1>4, <1>5, ResumedAppends
<1> HIDE DEF r
<1>7. ~r.error => /\ Reaches(disk.snapshots, r.trace)
                  /\ \A n \in DOMAIN r.snapshots : Reaches(disk.snapshots, r.snapshots[n].checkpoint)
  BY <1>4, <1>6 DEF Reaches
<1>8. QED
  BY <1>2, <1>7 DEF ReachInv, Files

LEMMA ReachStep ==
  ASSUME CommandInv, CommandRecorded, command = "run" => DriverInv, ReachInv,
         [CommandNext]_commandVars
  PROVE  ReachInv'
<1>1. CASE Executes
  <2>1. /\ at = "executing" /\ command = "run" /\ files = 0
        /\ UNCHANGED <<command, files, disk>> /\ FixtureStep
    BY <1>1 DEF Executes, CommandInv, ReachInv
  <2>2. SealsItsTrace(session')
    BY <2>1, RunSealsItsTrace DEF ReachInv
  <2>3. QED
    BY <2>1, <2>2 DEF ReachInv, Files
<1>2. CASE PersistSnapshot \/ PersistNext
  BY <1>2, WrittenReaches
<1>3. CASE PersistTrace
  BY <1>3, WrittenTraceReaches
<1>4. CASE PublishState \/ ReplayTrace
  <2>1. /\ at' = "exited" /\ session' = session /\ command' \in {command, "replay"}
    BY <1>4 DEF PublishState, ReplayTrace, KeepSession, fixtureVars, recordVars
  <2>2. PICK state : disk' = [disk EXCEPT !.state = state]
    BY <1>4 DEF PublishState, ReplayTrace
  <2>3. disk'.snapshots = disk.snapshots /\ disk'.next = disk.next /\ disk'.trace = disk.trace
    BY <2>2 DEF CommandInv, DiskInv
  <2>4. QED
    BY <2>1, <2>3 DEF ReachInv, Files
<1>5. CASE ResumeAny
  BY <1>5, ResumeReaches
<1>6. CASE Crash \/ Gone \/ UNCHANGED commandVars
  <2>1. /\ session' = session /\ UNCHANGED <<command, files, disk>>
        /\ at' = "exited" \/ at' = at
    BY <1>6 DEF Crash, Gone, commandVars, KeepSession, fixtureVars, recordVars
  <2>2. QED
    BY <2>1 DEF ReachInv, Files
<1>7. QED
  BY <1>1, <1>2, <1>3, <1>4, <1>5, <1>6 DEF CommandNext, CommandStep

LEMMA ReachedTracesRewind == CommandInv /\ ReachInv => TraceIsReached
<1> SUFFICES ASSUME CommandInv, ReachInv, Reaches(disk.snapshots, disk.trace)
             PROVE  \E snapshot \in Files : CanRewind(disk.trace, snapshot)
  BY DEF ReachInv, TraceIsReached
<1>1. PICK snapshot \in Range(disk.snapshots) : IsPrefix(snapshot.checkpoint, disk.trace)
  BY DEF Reaches
<1>2. QED
  BY <1>1 DEF Files, CanRewind

\* What was recorded can be resumed: a command that succeeds in front of an
\* effect leaves the continuation of that effect in a file, and a trace on disk
\* with a seal reaches a file of its run, however often commands failed, crashed
\* between two writes or were resumed before.
THEOREM SucceededCommandsResume == CommandSpec => []LatestEffectIsResumable
<1> DEFINE Books == command = "run" => DriverInv
<1>1. CommandSpec => []Books
  <2>1. CommandInit => CommandInv /\ Books
    BY CommandInvInit, BooksInit
  <2>2. (CommandInv /\ Books) /\ [CommandNext]_commandVars => (CommandInv /\ Books)'
    BY CommandInvStep, BooksStep
  <2>3. QED
    BY <2>1, <2>2, PTL DEF CommandSpec
<1>2. (CommandInv /\ CommandRecorded) /\ Books /\ ReachInv /\ [CommandNext]_commandVars => ReachInv'
  BY ReachStep
<1>3. CommandInv /\ ReachInv => LatestEffectIsResumable
  BY ReachedTracesRewind DEF CommandInv, LatestEffectIsResumable
<1>4. QED
  BY <1>1, <1>2, <1>3, ReachInit, CommandRecordedInvariant, PTL DEF CommandSpec
=============================================================================
