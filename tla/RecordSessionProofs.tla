------------------------- MODULE RecordSessionProofs -------------------------
(***************************************************************************)
(* What the operations of the record session leave a session in, for every *)
(* program, host and driver, and the facts about sequences those proofs    *)
(* need; and that what a session records is what replay accepts, and what  *)
(* it seals what its trace describes.  Its callers' proofs build on this   *)
(* module.                                                                 *)
(***************************************************************************)
EXTENDS RecordSession, SequenceTheorems, WellFoundedInduction, TLAPS

(* Sequences *)

LEMMA AppendIsSequence ==
  ASSUME NEW s, IsSequence(s), NEW e
  PROVE  /\ IsSequence(Append(s, e))
         /\ DOMAIN s = 1..Len(s) /\ Len(s) \in Nat
         /\ Len(Append(s, e)) = Len(s) + 1
         /\ DOMAIN Append(s, e) = 1..(Len(s) + 1)
         /\ \A i \in 1..Len(s) : Append(s, e)[i] = s[i]
         /\ Append(s, e)[Len(s) + 1] = e
<1> DEFINE S == Range(s) \cup {e}
<1>1. s \in Seq(S)
  BY SeqMonotonic DEF IsSequence
<1>2. /\ Append(s, e) \in Seq(S)
      /\ Len(Append(s, e)) = Len(s) + 1
      /\ \A i \in 1..Len(s) : Append(s, e)[i] = s[i]
      /\ Append(s, e)[Len(s) + 1] = e
  <2> HIDE DEF S
  <2>1. e \in S
    BY DEF S
  <2>2. QED
    BY <1>1, <2>1, AppendProperties
<1>3. IsSequence(Append(s, e))
  BY <1>2, SeqOfRange DEF IsSequence
<1>4. DOMAIN s = 1..Len(s) /\ Len(s) \in Nat
  BY <1>1, LenProperties
<1>5. DOMAIN Append(s, e) = 1..(Len(s) + 1)
  BY <1>2, LenProperties
<1>6. QED
  BY <1>2, <1>3, <1>4, <1>5

LEMMA ConcatIsSequence ==
  ASSUME NEW s, IsSequence(s), NEW t, IsSequence(t)
  PROVE  IsSequence(s \o t)
<1> DEFINE S == Range(s) \cup Range(t)
<1>1. s \in Seq(S) /\ t \in Seq(S)
  BY SeqMonotonic DEF IsSequence
<1>2. s \o t \in Seq(S)
  <2> HIDE DEF S
  <2>1. QED
    BY <1>1, ConcatProperties
<1>3. QED
  BY <1>2, SeqOfRange DEF IsSequence

LEMMA AuditsIsSequence ==
  ASSUME NEW events, IsSequence(events)
  PROVE  IsSequence(Audits(events))
<1> DEFINE S == {[event |-> "audit", about |-> events[n]] : n \in DOMAIN events}
<1>1. DOMAIN events = 1..Len(events) /\ Len(events) \in Nat
  BY LenProperties DEF IsSequence
<1>2. Audits(events) \in [1..Len(events) -> S]
  BY <1>1 DEF Audits
<1>3. Audits(events) \in Seq(S)
  <2> HIDE DEF S
  <2>1. QED
    BY <1>1, <1>2, SeqDef
<1>4. QED
  BY <1>3, SeqOfRange DEF IsSequence

LEMMA SingletonIsSequence == \A e : IsSequence(<<e>>)
<1> TAKE e
<1>1. <<e>> \in Seq({e})
  OBVIOUS
<1>2. QED
  BY <1>1, SeqOfRange DEF IsSequence

LEMMA SequenceParts ==
  ASSUME NEW s, IsSequence(s)
  PROVE  DOMAIN s = 1..Len(s) /\ Len(s) \in Nat
BY LenProperties DEF IsSequence

LEMMA ConcatParts ==
  ASSUME NEW s, IsSequence(s), NEW t, IsSequence(t)
  PROVE  /\ DOMAIN (s \o t) = 1..(Len(s) + Len(t)) /\ Len(s \o t) = Len(s) + Len(t)
         /\ \A i \in 1..(Len(s) + Len(t)) : (s \o t)[i] = IF i <= Len(s) THEN s[i] ELSE t[i - Len(s)]
<1> DEFINE S == Range(s) \cup Range(t)
<1>1. s \in Seq(S) /\ t \in Seq(S)
  BY SeqMonotonic DEF IsSequence
<1> HIDE DEF S
<1>2. /\ s \o t \in Seq(S) /\ Len(s \o t) = Len(s) + Len(t)
      /\ \A i \in 1..(Len(s) + Len(t)) : (s \o t)[i] = IF i <= Len(s) THEN s[i] ELSE t[i - Len(s)]
  BY <1>1, ConcatProperties
<1>3. DOMAIN (s \o t) = 1..Len(s \o t)
  BY <1>2, LenProperties
<1>4. QED
  BY <1>2, <1>3

LEMMA AppendConcat ==
  ASSUME NEW s, IsSequence(s), NEW e
  PROVE  Append(s, e) = s \o <<e>>
<1> DEFINE S == Range(s) \cup {e}
<1>1. s \in Seq(S) /\ e \in S
  BY SeqMonotonic DEF IsSequence
<1> HIDE DEF S
<1>2. QED
  BY <1>1, AppendIsConcat

\* Sequences that agree up to n have the same prefix of that length.
LEMMA SamePrefix ==
  ASSUME NEW s, IsSequence(s), NEW t, IsSequence(t), NEW n \in Nat, n <= Len(s), n <= Len(t),
         \A i \in 1..n : s[i] = t[i]
  PROVE  SubSeq(s, 1, n) = SubSeq(t, 1, n)
<1> DEFINE S == Range(s) \cup Range(t)
<1>1. s \in Seq(S) /\ t \in Seq(S)
  BY SeqMonotonic DEF IsSequence
<1> HIDE DEF S
<1>2. \A i \in 1..n : s[i] \in S /\ t[i] \in S
  BY <1>1, ElementOfSeq, SequenceParts
<1>3. /\ SubSeq(s, 1, n) \in Seq(S) /\ Len(SubSeq(s, 1, n)) = n
      /\ \A i \in 1..n : SubSeq(s, 1, n)[i] = s[i]
  BY <1>2, SubSeqProperties
<1>4. /\ SubSeq(t, 1, n) \in Seq(S) /\ Len(SubSeq(t, 1, n)) = n
      /\ \A i \in 1..n : SubSeq(t, 1, n)[i] = t[i]
  BY <1>2, SubSeqProperties
<1>5. QED
  BY <1>3, <1>4, SeqEqual

-----------------------------------------------------------------------------
(* Sessions *)

Waiting == {"awaiting_admission", "awaiting_resolution"}

\* A machine after answers its program accepts; while it waits, its pending
\* effect is the one the program reacted with.
IsMachine(m) ==
  /\ DOMAIN m = {"answers", "budget", "pending", "checkpoint"}
  /\ m.answers \in DOMAIN run.program
  /\ IsSequence(m.checkpoint)

IsSuspended(m) ==
  /\ IsMachine(m)
  /\ DOMAIN m.pending = {"request", "expected", "before", "held"}
  /\ Reaction(m).step = "yield"
  /\ m.pending.request = Reaction(m).request
  /\ m.pending.expected = Reaction(m).expected

IsSession(s) ==
  /\ DOMAIN s = {"machine", "trace", "snapshots", "phase", "outcome", "error"}
  /\ IsMachine(s.machine)
  /\ s.phase \in Waiting => IsSuspended(s.machine)
  /\ s.error \in BOOLEAN
  /\ IsSequence(s.trace)
  /\ IsSequence(s.snapshots)
  /\ \A n \in DOMAIN s.snapshots : IsSuspended(s.snapshots[n])

LEMMA ReactionsAreReactions ==
  ASSUME run \in Runs, NEW m, IsMachine(m)
  PROVE  /\ IsReaction(Reaction(m))
         /\ Reaction(m).step = "yield" =>
              \A payload \in Reaction(m).expected : Append(m.answers, payload) \in DOMAIN run.program
BY RunsAssumption DEF IsMachine, Reaction, IsProgram

\* progress of a running session: it comes to a stop, and nothing is sealed.
LEMMA ProgressedIsSession ==
  ASSUME run \in Runs, NEW s, IsSession(s), s.phase = "running"
  PROVE  LET p == Progressed(s)
         IN  /\ IsSession(p) /\ p.snapshots = s.snapshots
             /\ ~p.error => p.phase \in {"awaiting_admission", "completed"}
             /\ p.phase # "awaiting_resolution"
             /\ p.phase = "awaiting_admission" => p.machine.pending.request \in Requests
<1> DEFINE m == s.machine
           r == Reaction(m)
           audited == s.trace \o Audits(r.audit)
           p == Progressed(s)
<1>1. IsMachine(m) /\ IsReaction(r)
  BY ReactionsAreReactions DEF IsSession
<1>2. IsSequence(audited)
  BY <1>1, AuditsIsSequence, ConcatIsSequence DEF IsSession, IsReaction
<1>3. CASE CanYield(m)
  <2> DEFINE y == Yielded(m)
  <2>1. /\ DOMAIN y = {"answers", "budget", "pending", "checkpoint"}
        /\ y.answers = m.answers /\ y.checkpoint = m.checkpoint
        /\ DOMAIN y.pending = {"request", "expected", "before", "held"}
        /\ y.pending.request = r.request /\ y.pending.expected = r.expected
    BY <1>1 DEF Yielded, IsMachine
  <2>2. Reaction(y) = r
    BY <2>1 DEF Reaction
  <2>3. IsSuspended(y)
    BY <1>1, <1>3, <2>1, <2>2 DEF IsSuspended, IsMachine, CanYield
  <2>4. r.request \in Requests
    BY <1>1, <1>3 DEF IsReaction, CanYield
  <2>5. IsSequence(Append(audited, Requested(y)))
    BY <1>2, AppendIsSequence
  <2> HIDE DEF y, audited
  <2>6. p = [s EXCEPT !.machine = y, !.trace = Append(audited, Requested(y)),
                      !.phase = "awaiting_admission"]
    BY <1>3 DEF Progressed, y, audited
  <2> HIDE DEF p
  <2>7. /\ DOMAIN p = DOMAIN s /\ p.machine = y /\ p.trace = Append(audited, Requested(y))
        /\ p.phase = "awaiting_admission" /\ p.snapshots = s.snapshots /\ p.error = s.error
    BY <2>6 DEF IsSession
  <2>8. IsSession(p)
    BY <2>3, <2>5, <2>7 DEF IsSession, IsSuspended
  <2>9. QED
    BY <2>1, <2>4, <2>7, <2>8 DEF p
<1>4. CASE ~CanYield(m) /\ r.step = "completed"
  <2> DEFINE t == audited \o <<StateCommitted(r.outcome), RunCompleted(r.outcome)>>
  <2>1. IsSequence(<<StateCommitted(r.outcome), RunCompleted(r.outcome)>>)
    <3>1. <<StateCommitted(r.outcome), RunCompleted(r.outcome)>>
            \in Seq({StateCommitted(r.outcome), RunCompleted(r.outcome)})
      OBVIOUS
    <3>2. QED
      BY <3>1, SeqOfRange DEF IsSequence
  <2>2. IsSequence(t)
    <3> HIDE DEF audited
    <3>1. QED
      BY <1>2, <2>1, ConcatIsSequence
  <2>3. p = [s EXCEPT !.trace = t, !.phase = "completed", !.outcome = r.outcome]
    BY <1>4 DEF Progressed
  <2> HIDE DEF t, p
  <2>4. /\ DOMAIN p = DOMAIN s /\ p.machine = s.machine /\ p.trace = t
        /\ p.phase = "completed" /\ p.snapshots = s.snapshots /\ p.error = s.error
    BY <2>3 DEF IsSession
  <2>5. IsSession(p)
    BY <2>2, <2>4 DEF IsSession, Waiting
  <2>6. QED
    BY <2>4, <2>5 DEF p
<1>5. CASE ~CanYield(m) /\ r.step # "completed"
  <2>1. p = [s EXCEPT !.trace = audited, !.error = TRUE]
    BY <1>5 DEF Progressed
  <2> HIDE DEF audited, p
  <2>2. /\ DOMAIN p = DOMAIN s /\ p.machine = s.machine /\ p.trace = audited
        /\ p.phase = "running" /\ p.snapshots = s.snapshots /\ p.error = TRUE
    BY <2>1 DEF IsSession
  <2>3. IsSession(p)
    BY <1>2, <2>2 DEF IsSession
  <2>4. QED
    BY <2>2, <2>3 DEF p
<1>6. QED
  BY <1>3, <1>4, <1>5

\* fail: whatever the session was, it has failed and its trace says so.
LEMMA FailIsSession ==
  ASSUME NEW s, IsSession(s)
  PROVE  LET f == Fail(s)
         IN  /\ IsSession(f) /\ f.snapshots = s.snapshots
             /\ f.phase = "failed" /\ ~f.error /\ Last(f.trace) = RunFailed
<1> DEFINE t == Append(s.trace, RunFailed)
           f == Fail(s)
<1>1. IsSequence(t) /\ Last(t) = RunFailed
  BY AppendIsSequence DEF IsSession, Last
<1> HIDE DEF t
<1>2. f = [s EXCEPT !.trace = t, !.phase = "failed", !.error = FALSE]
  BY DEF Fail, t
<1> HIDE DEF f
<1>3. /\ DOMAIN f = DOMAIN s /\ f.machine = s.machine /\ f.trace = t
      /\ f.phase = "failed" /\ f.snapshots = s.snapshots /\ f.error = FALSE
  BY <1>2 DEF IsSession
<1>4. IsSession(f)
  BY <1>1, <1>3 DEF IsSession, Waiting
<1>5. QED
  BY <1>1, <1>3, <1>4 DEF f

\* A refused call changes nothing but the error.
LEMMA RefusedIsSession ==
  ASSUME NEW s, IsSession(s)
  PROVE  LET r == Refused(s)
         IN  IsSession(r) /\ r.snapshots = s.snapshots /\ r.phase = s.phase /\ r.error
<1> DEFINE r == Refused(s)
<1>1. r = [s EXCEPT !.error = TRUE]
  BY DEF Refused
<1> HIDE DEF r
<1>2. /\ DOMAIN r = DOMAIN s /\ r.machine = s.machine /\ r.trace = s.trace
      /\ r.phase = s.phase /\ r.snapshots = s.snapshots /\ r.error = TRUE
  BY <1>1 DEF IsSession
<1>3. IsSession(r)
  BY <1>2 DEF IsSession
<1>4. QED
  BY <1>2, <1>3 DEF r

\* Reserving usage leaves the effect of a suspended machine.
LEMMA UsageReservedIsSuspended ==
  ASSUME NEW m, IsSuspended(m), NEW maximums
  PROVE  LET u == UsageReserved(m, maximums)
         IN  IsSuspended(u) /\ u.pending.request = m.pending.request
<1> DEFINE u == UsageReserved(m, maximums)
<1>1. CASE DOMAIN maximums = {}
  BY <1>1 DEF UsageReserved
<1>2. CASE DOMAIN maximums # {}
  <2> DEFINE held == [d \in DOMAIN m.pending.held \cup DOMAIN maximums |->
                        IF d \in DOMAIN maximums
                        THEN ReservationsFor(m.budget, maximums)[d] ELSE m.pending.held[d]]
  <2>1. u = [m EXCEPT !.budget = Reserve(m.budget, maximums), !.pending.held = held]
    BY <1>2 DEF UsageReserved
  <2> HIDE DEF held, u
  <2>2. /\ DOMAIN u = DOMAIN m /\ u.answers = m.answers /\ u.checkpoint = m.checkpoint
        /\ u.pending = [m.pending EXCEPT !.held = held]
    BY <2>1 DEF IsSuspended, IsMachine
  <2>3. /\ DOMAIN u.pending = DOMAIN m.pending
        /\ u.pending.request = m.pending.request /\ u.pending.expected = m.pending.expected
    BY <2>2 DEF IsSuspended
  <2>4. Reaction(u) = Reaction(m)
    BY <2>2 DEF Reaction
  <2>5. IsSuspended(u)
    BY <2>2, <2>3, <2>4 DEF IsSuspended, IsMachine
  <2>6. QED
    BY <2>3, <2>5 DEF u
<1>3. QED
  BY <1>1, <1>2

\* admit: it is refused, or seals the machine it leaves.
LEMMA AdmitIsSession ==
  ASSUME NEW s, IsSession(s), NEW request, NEW maximums
  PROVE  LET a == Admit(s, request, maximums)
         IN  /\ IsSession(a)
             /\ \/ a.error /\ a.snapshots = s.snapshots
                \/ /\ a.error = s.error /\ a.phase = "awaiting_resolution"
                   /\ a.snapshots = Append(s.snapshots, a.machine)
                   /\ a.machine.pending.request = request
<1> DEFINE a == Admit(s, request, maximums)
<1>1. CASE /\ s.phase = "awaiting_admission"
           /\ request = s.machine.pending.request
           /\ CanReserveUsage(s.machine, maximums)
  <2> DEFINE reserved == UsageReserved(s.machine, maximums)
             evidence == Append(s.trace, ReservedEvidence(reserved))
             sealed   == [reserved EXCEPT !.checkpoint = evidence]
             trace    == Append(evidence, SnapshotWritten)
             snaps    == Append(s.snapshots, sealed)
  <2>1. a = [s EXCEPT !.machine = sealed, !.trace = trace, !.snapshots = snaps,
                      !.phase = "awaiting_resolution"]
    BY <1>1 DEF Admit
  <2>2. IsSuspended(reserved) /\ reserved.pending.request = request
    BY <1>1, UsageReservedIsSuspended DEF IsSession, Waiting
  <2>3. IsSequence(evidence)
    BY AppendIsSequence DEF IsSession
  <2> HIDE DEF a, reserved, evidence
  <2>4. IsSequence(trace)
    BY <2>3, AppendIsSequence
  <2>5. /\ DOMAIN sealed = DOMAIN reserved /\ sealed.answers = reserved.answers
        /\ sealed.pending = reserved.pending /\ sealed.checkpoint = evidence
    BY <2>2 DEF IsSuspended, IsMachine
  <2> HIDE DEF sealed
  <2>6. Reaction(sealed) = Reaction(reserved)
    BY <2>5 DEF Reaction
  <2>7. IsSuspended(sealed) /\ sealed.pending.request = request
    BY <2>2, <2>3, <2>5, <2>6 DEF IsSuspended, IsMachine
  <2>8. /\ IsSequence(snaps) /\ DOMAIN snaps = 1..(Len(s.snapshots) + 1)
        /\ DOMAIN s.snapshots = 1..Len(s.snapshots) /\ Len(s.snapshots) \in Nat
        /\ \A i \in 1..Len(s.snapshots) : snaps[i] = s.snapshots[i]
        /\ snaps[Len(s.snapshots) + 1] = sealed
    BY AppendIsSequence DEF IsSession
  <2> HIDE DEF trace
  <2>9. \A n \in DOMAIN snaps : IsSuspended(snaps[n])
    <3> SUFFICES ASSUME NEW n \in 1..(Len(s.snapshots) + 1) PROVE IsSuspended(snaps[n])
      BY <2>8
    <3> HIDE DEF snaps
    <3>1. CASE n \in 1..Len(s.snapshots)
      BY <2>8, <3>1 DEF IsSession
    <3>2. CASE n = Len(s.snapshots) + 1
      BY <2>7, <2>8, <3>2
    <3>3. n \in 1..Len(s.snapshots) \/ n = Len(s.snapshots) + 1
      BY <2>8
    <3>4. QED
      BY <3>1, <3>2, <3>3
  <2> HIDE DEF snaps
  <2>10. /\ DOMAIN a = DOMAIN s /\ a.machine = sealed /\ a.trace = trace /\ a.snapshots = snaps
         /\ a.phase = "awaiting_resolution" /\ a.error = s.error
    BY <2>1 DEF IsSession
  <2>11. IsSession(a)
    BY <2>4, <2>7, <2>8, <2>9, <2>10 DEF IsSession, IsSuspended
  <2>12. QED
    BY <2>7, <2>10, <2>11 DEF a, snaps
<1>2. CASE ~ (/\ s.phase = "awaiting_admission"
              /\ request = s.machine.pending.request
              /\ CanReserveUsage(s.machine, maximums))
  <2>1. a = Refused(s)
    BY <1>2 DEF Admit
  <2>2. QED
    BY <2>1, RefusedIsSession
<1>3. QED
  BY <1>1, <1>2

\* resolve: it is refused, perhaps with the resolution on the trace, or the
\* program has one more answer and runs on.
LEMMA ResolveIsSession ==
  ASSUME run \in Runs, NEW s, IsSession(s), NEW request, NEW payload, NEW usage
  PROVE  LET r == Resolve(s, request, payload, usage)
         IN  /\ IsSession(r) /\ r.snapshots = s.snapshots
             /\ ~r.error => r.phase = "running"
<1> DEFINE m == s.machine
           supplied == Supplied(m, payload, usage)
           resolved == Append(s.trace, ResolvedEvidence(m, payload, usage))
           settled == Settle(m.budget, m.pending.held, Spent(m, usage), SettledDimensions(m, usage))
           r == Resolve(s, request, payload, usage)
<1>1. IsSequence(resolved)
  BY AppendIsSequence DEF IsSession
<1>2. CASE s.phase # "awaiting_resolution" \/ request # m.pending.request
  BY <1>2, RefusedIsSession DEF Resolve
<1>3. CASE /\ s.phase = "awaiting_resolution" /\ request = m.pending.request
           /\ ~AcceptsAnswer(m, payload, usage)
  <2>1. IsSuspended(m)
    BY <1>3 DEF IsSession, Waiting
  <2>2. IsSuspended(supplied)
    <3>1. CASE ExpectsUsage(m, usage)
      <4>1. supplied = [m EXCEPT !.budget = settled]
        BY <1>3, <3>1 DEF Supplied
      <4> HIDE DEF settled, supplied
      <4>2. /\ DOMAIN supplied = DOMAIN m /\ supplied.answers = m.answers
            /\ supplied.pending = m.pending /\ supplied.checkpoint = m.checkpoint
        BY <2>1, <4>1 DEF IsSuspended, IsMachine
      <4>3. Reaction(supplied) = Reaction(m)
        BY <4>2 DEF Reaction
      <4>4. QED
        BY <2>1, <4>2, <4>3 DEF IsSuspended, IsMachine
    <3>2. CASE ~ExpectsUsage(m, usage)
      BY <1>3, <2>1, <3>2 DEF Supplied
    <3>3. QED
      BY <3>1, <3>2
  <2>3. r = [s EXCEPT !.machine = supplied, !.trace = resolved, !.error = TRUE]
    BY <1>3 DEF Resolve
  <2> HIDE DEF supplied, resolved, r
  <2>4. /\ DOMAIN r = DOMAIN s /\ r.machine = supplied /\ r.trace = resolved
        /\ r.phase = s.phase /\ r.snapshots = s.snapshots /\ r.error = TRUE
    BY <2>3 DEF IsSession
  <2>5. IsSession(r)
    <3>1. IsMachine(r.machine) /\ IsSuspended(r.machine)
      BY <2>2, <2>4 DEF IsSuspended
    <3>2. IsSequence(r.trace)
      BY <1>1, <2>4
    <3>3. /\ DOMAIN r = {"machine", "trace", "snapshots", "phase", "outcome", "error"}
          /\ IsSequence(r.snapshots) /\ \A n \in DOMAIN r.snapshots : IsSuspended(r.snapshots[n])
          /\ r.error \in BOOLEAN
      BY <2>4 DEF IsSession
    <3>4. QED
      BY <3>1, <3>2, <3>3 DEF IsSession
  <2>6. QED
    BY <2>4, <2>5 DEF r
<1>4. CASE /\ s.phase = "awaiting_resolution" /\ request = m.pending.request
           /\ AcceptsAnswer(m, payload, usage)
  <2> DEFINE t == resolved \o Audits(Reaction(supplied).decoded)
                    \o <<SettledEvidence(Admitted(m), usage, supplied.budget)>>
  <2>1. IsSuspended(m) /\ payload \in m.pending.expected
    BY <1>4 DEF IsSession, Waiting, AcceptsAnswer
  <2>2. supplied = [[m EXCEPT !.budget = settled]
                      EXCEPT !.answers = Append(m.answers, payload), !.pending = None]
    BY <1>4 DEF Supplied
  <2> DEFINE answers == Append(m.answers, payload)
  <2>3. answers \in DOMAIN run.program
    BY <2>1, ReactionsAreReactions DEF IsSuspended
  <2> HIDE DEF settled, supplied, answers
  <2>4. /\ DOMAIN supplied = DOMAIN m /\ supplied.answers = answers
        /\ supplied.checkpoint = m.checkpoint
    BY <2>1, <2>2 DEF IsSuspended, IsMachine, answers
  <2>5. IsMachine(supplied)
    BY <2>1, <2>3, <2>4 DEF IsSuspended, IsMachine
  <2>6. IsSequence(Audits(Reaction(supplied).decoded))
    BY <2>5, ReactionsAreReactions, AuditsIsSequence DEF IsReaction
  <2>7. IsSequence(t)
    <3> HIDE DEF resolved
    <3>1. IsSequence(resolved)
      BY <1>1 DEF resolved
    <3>2. IsSequence(resolved \o Audits(Reaction(supplied).decoded))
      BY <2>6, <3>1, ConcatIsSequence
    <3>3. IsSequence(<<SettledEvidence(Admitted(m), usage, supplied.budget)>>)
      BY SingletonIsSequence
    <3>4. QED
      BY <3>2, <3>3, ConcatIsSequence
  <2>8. r = [s EXCEPT !.machine = supplied, !.trace = t, !.phase = "running"]
    BY <1>4 DEF Resolve, supplied
  <2> HIDE DEF t, r
  <2>9. /\ DOMAIN r = DOMAIN s /\ r.machine = supplied /\ r.trace = t
        /\ r.phase = "running" /\ r.snapshots = s.snapshots /\ r.error = s.error
    BY <2>8 DEF IsSession
  <2>10. IsSession(r)
    BY <2>5, <2>7, <2>9 DEF IsSession, Waiting
  <2>11. QED
    BY <2>9, <2>10 DEF r
<1>5. QED
  BY <1>2, <1>3, <1>4

\* restore: the session waits for the resolution of the snapshot's effect,
\* and restoring it once more from the same snapshot changes nothing.
LEMMA RestoredIsSession ==
  ASSUME NEW trace, IsSequence(trace), NEW snapshot, IsSuspended(snapshot),
         CanRewind(trace, snapshot)
  PROVE  LET s == Restored(trace, snapshot)
         IN  /\ IsSession(s) /\ s.phase = "awaiting_resolution" /\ ~s.error
             /\ s.machine = snapshot /\ s.snapshots = <<snapshot>>
             /\ s = Restored(s.trace, snapshot)
<1> DEFINE n == Len(snapshot.checkpoint)
           cut == SubSeq(trace, 1, n)
           t == Append(cut, SnapshotWritten)
           s == Restored(trace, snapshot)
<1>1. /\ n \in Nat /\ n <= Len(trace) /\ Len(trace) \in Nat /\ trace \in Seq(Range(trace))
      /\ DOMAIN trace = 1..Len(trace)
  BY LenProperties DEF IsSuspended, IsMachine, IsSequence, CanRewind, IsPrefix
<1>2. /\ cut \in Seq(Range(trace)) /\ Len(cut) = n
      /\ \A i \in 1..n : cut[i] = trace[i]
  <2> DEFINE S == Range(trace)
  <2> HIDE DEF n, S
  <2>1. trace \in Seq(S)
    BY <1>1 DEF S
  <2>2. QED
    BY <1>1, <2>1, SubSeqProperties DEF S
<1>3. IsSequence(cut)
  BY <1>2, SeqOfRange DEF IsSequence
<1>4. SubSeq(t, 1, n) = cut
  <2> DEFINE S == Range(t) \cup Range(cut)
  <2> HIDE DEF cut, n
  <2>1. IsSequence(t) /\ Len(t) = n + 1 /\ \A i \in 1..n : t[i] = cut[i]
    BY <1>2, <1>3, AppendIsSequence
  <2> HIDE DEF t
  <2>2. t \in Seq(S) /\ cut \in Seq(S)
    BY <1>3, <2>1, SeqMonotonic DEF IsSequence
  <2> HIDE DEF S
  <2>3. /\ SubSeq(t, 1, n) \in Seq(S) /\ Len(SubSeq(t, 1, n)) = n
        /\ \A i \in 1..n : SubSeq(t, 1, n)[i] = t[i]
    BY <1>1, <2>1, <2>2, SubSeqProperties
  <2>4. QED
    BY <1>2, <2>1, <2>2, <2>3, SeqEqual
<1>5. IsSequence(t)
  BY <1>3, AppendIsSequence
<1>6. IsSequence(<<snapshot>>) /\ \A i \in DOMAIN <<snapshot>> : IsSuspended(<<snapshot>>[i])
  BY SingletonIsSequence
<1> HIDE DEF cut, n
<1>7. s = [machine |-> snapshot, trace |-> t, snapshots |-> <<snapshot>>,
           phase |-> "awaiting_resolution", outcome |-> None, error |-> FALSE]
  BY DEF Restored, RestoredOn, cut, n
<1>8. Restored(t, snapshot) = s
  BY <1>4, <1>7 DEF Restored, RestoredOn, n
<1>9. IsSession(s)
  <2> HIDE DEF t
  <2> DEFINE q == <<snapshot>>
  <2>1. s = [machine |-> snapshot, trace |-> t, snapshots |-> q,
             phase |-> "awaiting_resolution", outcome |-> None, error |-> FALSE]
    BY <1>7
  <2>2. IsSequence(q) /\ \A i \in DOMAIN q : IsSuspended(q[i])
    BY <1>6
  <2> HIDE DEF q, s
  <2>3. QED
    BY <1>5, <2>1, <2>2 DEF IsSession, IsSuspended
<1>10. QED
  <2> HIDE DEF t
  <2>1. s.trace = t
    BY <1>7
  <2>2. QED
    BY <1>7, <1>8, <1>9, <2>1
-----------------------------------------------------------------------------
(* Recursion over a range of numbers: each recursive function of the model *)
(* has its equations, because the functions that satisfy them exist.       *)

\* Induction, for a set that is given.
LEMMA Induction ==
  ASSUME NEW S, 0 \in S, \A n \in Nat : n \in S => n + 1 \in S
  PROVE  \A n \in Nat : n \in S
<1> DEFINE T == Nat \ S
<1>1. SUFFICES ASSUME T # {} PROVE FALSE
  OBVIOUS
<1>2. PICK n \in T : \A m \in T : <<m, n>> \notin OpToRel(<, Nat)
  BY <1>1, WFMin, NatLessThanWellFounded, Zenon
<1>3. \A m \in T : ~ (m < n)
  BY <1>2 DEF OpToRel
<1>4. n # 0 /\ n - 1 \in Nat /\ n - 1 < n /\ (n - 1) + 1 = n
  OBVIOUS
<1>5. n - 1 \in S
  BY <1>3, <1>4
<1>6. QED
  BY <1>4, <1>5

(* The entries of one kind *)

\* kept[n] has the entries of one kind among the first n.
Collects(kept, trace, event, k) ==
  kept = [n \in 0..k |->
            IF n = 0 THEN <<>>
            ELSE IF trace[n].event = event THEN Append(kept[n - 1], trace[n]) ELSE kept[n - 1]]

LEMMA CollectsMore ==
  ASSUME NEW trace, NEW event, NEW k \in Nat, NEW f, Collects(f, trace, event, k)
  PROVE  \E g : Collects(g, trace, event, k + 1)
<1> DEFINE Next(h, n) == IF trace[n].event = event THEN Append(h[n - 1], trace[n]) ELSE h[n - 1]
           g == [n \in 0..(k + 1) |-> IF n <= k THEN f[n] ELSE Next(f, n)]
<1>1. f = [n \in 0..k |-> IF n = 0 THEN <<>> ELSE Next(f, n)]
  BY DEF Collects
<1>2. \A n \in 0..k : g[n] = f[n]
  OBVIOUS
<1>3. \A n \in 0..(k + 1) : n # 0 => n - 1 \in 0..k
  OBVIOUS
<1>4. ASSUME NEW n \in 0..(k + 1)
      PROVE  g[n] = IF n = 0 THEN <<>> ELSE Next(g, n)
  <2>1. n # 0 => g[n - 1] = f[n - 1]
    BY <1>2, <1>3
  <2>2. n # 0 => Next(g, n) = Next(f, n)
    BY <2>1
  <2>3. CASE n <= k
    <3>1. n \in 0..k /\ g[n] = f[n]
      BY <1>2, <2>3
    <3> HIDE DEF g, Next
    <3>2. f[n] = IF n = 0 THEN <<>> ELSE Next(f, n)
      BY <1>1, <3>1
    <3>3. QED
      BY <2>2, <3>1, <3>2
  <2>4. CASE n = k + 1
    <3>1. g[n] = Next(f, n) /\ n # 0
      BY <2>4
    <3> HIDE DEF g, Next
    <3>2. QED
      BY <2>2, <3>1
  <2>5. QED
    BY <2>3, <2>4
<1>5. Collects(g, trace, event, k + 1)
  <2>1. g = [n \in 0..(k + 1) |-> g[n]]
    OBVIOUS
  <2> DEFINE body == [n \in 0..(k + 1) |-> IF n = 0 THEN <<>> ELSE Next(g, n)]
  <2>2. g = body
    <3> HIDE DEF g, Next
    <3>1. QED
      BY <1>4, <2>1
  <2>3. QED
    BY <2>2, Zenon DEF Collects
<1>6. QED
  BY <1>5

LEMMA CollectsExists ==
  ASSUME NEW trace, NEW event
  PROVE  \A k \in Nat : \E f : Collects(f, trace, event, k)
<1> DEFINE S == {k \in Nat : \E f : Collects(f, trace, event, k)}
<1>1. 0 \in S
  <2>1. Collects([n \in 0..0 |-> <<>>], trace, event, 0)
    BY DEF Collects
  <2>2. QED
    BY <2>1
<1>2. \A k \in Nat : k \in S => k + 1 \in S
  BY CollectsMore
<1> HIDE DEF S
<1>3. \A k \in Nat : k \in S
  BY <1>1, <1>2, Induction
<1>4. QED
  BY <1>3 DEF S

LEMMA EntriesChosen ==
  ASSUME NEW trace, NEW event
  PROVE  Entries(trace, event) = (CHOOSE f : Collects(f, trace, event, Len(trace)))[Len(trace)]
BY DEF Entries, Collects

\* The entries of one kind are what such a function has at the end.
LEMMA EntriesKept ==
  ASSUME NEW trace, IsSequence(trace), NEW event
  PROVE  \E kept : /\ Entries(trace, event) = kept[Len(trace)]
                   /\ kept[0] = <<>>
                   /\ \A n \in 1..Len(trace) :
                        kept[n] = IF trace[n].event = event THEN Append(kept[n - 1], trace[n])
                                                            ELSE kept[n - 1]
<1> DEFINE f == CHOOSE f : Collects(f, trace, event, Len(trace))
<1>1. Len(trace) \in Nat
  BY SequenceParts
<1>2. Collects(f, trace, event, Len(trace))
  BY <1>1, CollectsExists
<1>3. Entries(trace, event) = f[Len(trace)]
  BY EntriesChosen
<1> HIDE DEF f
<1>4. f[0] = <<>>
  BY <1>1, <1>2 DEF Collects
<1>5. \A n \in 1..Len(trace) : f[n] = IF trace[n].event = event THEN Append(f[n - 1], trace[n])
                                                                ELSE f[n - 1]
  <2> TAKE n \in 1..Len(trace)
  <2>1. n \in 0..Len(trace) /\ n # 0
    BY <1>1
  <2>2. QED
    BY <1>2, <2>1 DEF Collects
<1>6. QED
  BY <1>3, <1>4, <1>5

LEMMA ConcatAssoc ==
  ASSUME NEW s, IsSequence(s), NEW t, IsSequence(t), NEW u, IsSequence(u)
  PROVE  (s \o t) \o u = s \o (t \o u)
<1> DEFINE S == Range(s) \cup Range(t) \cup Range(u)
<1>1. s \in Seq(S) /\ t \in Seq(S) /\ u \in Seq(S)
  BY SeqMonotonic DEF IsSequence
<1> HIDE DEF S
<1>2. QED
  BY <1>1, ConcatAssociative

LEMMA ConcatEmpty ==
  ASSUME NEW s, IsSequence(s)
  PROVE  s \o <<>> = s /\ <<>> \o s = s
BY ConcatEmptySeq DEF IsSequence

LEMMA EmptyIsSequence == IsSequence(<<>>) /\ Len(<<>>) = 0
<1>1. <<>> \in Seq({}) /\ Len(<<>>) = 0
  BY EmptySeq
<1>2. QED
  BY <1>1, SeqOfRange DEF IsSequence

LEMMA AppendToConcat ==
  ASSUME NEW s, IsSequence(s), NEW t, IsSequence(t), NEW e
  PROVE  Append(s \o t, e) = s \o Append(t, e)
<1> DEFINE one == <<e>>
<1>1. IsSequence(one) /\ IsSequence(s \o t)
  BY SingletonIsSequence, ConcatIsSequence
<1>2. Append(s \o t, e) = (s \o t) \o one
  BY <1>1, AppendConcat
<1>3. Append(t, e) = t \o one
  BY AppendConcat
<1> HIDE DEF one
<1>4. (s \o t) \o one = s \o (t \o one)
  BY <1>1, ConcatAssoc
<1>5. QED
  BY <1>2, <1>3, <1>4

LEMMA SequencesEqual ==
  ASSUME NEW s, IsSequence(s), NEW t, IsSequence(t), Len(s) = Len(t),
         \A n \in 1..Len(s) : s[n] = t[n]
  PROVE  s = t
<1> DEFINE S == Range(s) \cup Range(t)
<1>1. s \in Seq(S) /\ t \in Seq(S)
  BY SeqMonotonic DEF IsSequence
<1> HIDE DEF S
<1>2. QED
  BY <1>1, SeqEqual

LEMMA EntriesIsSequence ==
  ASSUME NEW trace, IsSequence(trace), NEW event
  PROVE  IsSequence(Entries(trace, event))
<1>1. PICK kept : /\ Entries(trace, event) = kept[Len(trace)]
                  /\ kept[0] = <<>>
                  /\ \A n \in 1..Len(trace) :
                       kept[n] = IF trace[n].event = event THEN Append(kept[n - 1], trace[n])
                                                           ELSE kept[n - 1]
  BY EntriesKept
<1> DEFINE S == {n \in Nat : n <= Len(trace) => IsSequence(kept[n])}
<1>2. 0 \in S
  BY <1>1, EmptyIsSequence
<1>3. ASSUME NEW n \in Nat, n \in S PROVE n + 1 \in S
  <2> SUFFICES ASSUME n + 1 <= Len(trace) PROVE IsSequence(kept[n + 1])
    OBVIOUS
  <2>1. /\ IsSequence(kept[n])
        /\ n + 1 \in 1..Len(trace) /\ (n + 1) - 1 = n
    BY <1>3, SequenceParts
  <2>2. kept[n + 1] = kept[n] \/ kept[n + 1] = Append(kept[n], trace[n + 1])
    BY <1>1, <2>1
  <2>3. IsSequence(Append(kept[n], trace[n + 1]))
    BY <2>1, AppendIsSequence, Zenon
  <2>4. QED
    BY <2>1, <2>2, <2>3
<1>4. Len(trace) \in S
  <2> HIDE DEF S
  <2>1. \A n \in Nat : n \in S
    BY <1>2, <1>3, Induction
  <2>2. QED
    BY <2>1, SequenceParts
<1>5. QED
  BY <1>1, <1>4, SequenceParts

\* The entries of a trace that is continued are those before and those after.
LEMMA EntriesConcat ==
  ASSUME NEW s, IsSequence(s), NEW t, IsSequence(t), NEW event
  PROVE  Entries(s \o t, event) = Entries(s, event) \o Entries(t, event)
<1> DEFINE Holds(kept, trace) ==
             /\ Entries(trace, event) = kept[Len(trace)]
             /\ kept[0] = <<>>
             /\ \A n \in 1..Len(trace) :
                  kept[n] = IF trace[n].event = event THEN Append(kept[n - 1], trace[n])
                                                      ELSE kept[n - 1]
           u == s \o t
           front == Entries(s, event)
<1>1. /\ IsSequence(u) /\ Len(u) = Len(s) + Len(t) /\ Len(s) \in Nat /\ Len(t) \in Nat
      /\ \A n \in 1..(Len(s) + Len(t)) : u[n] = IF n <= Len(s) THEN s[n] ELSE t[n - Len(s)]
  BY ConcatIsSequence, ConcatParts, SequenceParts
<1>2. IsSequence(front) /\ IsSequence(Entries(t, event))
  BY EntriesIsSequence
<1> HIDE DEF u, front
<1>3. PICK a : Holds(a, s)
  BY EntriesKept
<1>4. PICK b : Holds(b, t)
  BY EntriesKept
<1>5. PICK c : Holds(c, u)
  BY <1>1, EntriesKept
<1>6. \A n \in Nat : n <= Len(s) => c[n] = a[n]
  <2> DEFINE S == {n \in Nat : n <= Len(s) => c[n] = a[n]}
  <2>1. 0 \in S
    BY <1>3, <1>5
  <2>2. ASSUME NEW n \in Nat, n \in S PROVE n + 1 \in S
    <3> SUFFICES ASSUME n + 1 <= Len(s) PROVE c[n + 1] = a[n + 1]
      OBVIOUS
    <3>1. /\ c[n] = a[n] /\ n + 1 \in 1..Len(s) /\ n + 1 \in 1..Len(u) /\ (n + 1) - 1 = n
          /\ u[n + 1] = s[n + 1]
      BY <1>1, <2>2
    <3>2. QED
      BY <1>3, <1>5, <3>1
  <2> HIDE DEF S
  <2>3. \A n \in Nat : n \in S
    BY <2>1, <2>2, Induction
  <2>4. QED
    BY <2>3 DEF S
<1>7. c[Len(s)] = front
  BY <1>1, <1>3, <1>6 DEF front
<1>8. \A n \in Nat : n <= Len(t) => IsSequence(b[n]) /\ c[Len(s) + n] = front \o b[n]
  <2> DEFINE S == {n \in Nat : n <= Len(t) => IsSequence(b[n]) /\ c[Len(s) + n] = front \o b[n]}
  <2>1. 0 \in S
    <3>1. IsSequence(b[0]) /\ c[Len(s)] = front \o b[0]
      BY <1>2, <1>4, <1>7, ConcatEmpty, EmptyIsSequence
    <3>2. Len(s) + 0 = Len(s)
      BY <1>1
    <3>3. QED
      BY <3>1, <3>2
  <2>2. ASSUME NEW n \in Nat, n \in S PROVE n + 1 \in S
    <3> SUFFICES ASSUME n + 1 <= Len(t)
                 PROVE  IsSequence(b[n + 1]) /\ c[Len(s) + (n + 1)] = front \o b[n + 1]
      OBVIOUS
    <3> DEFINE k == Len(s) + (n + 1)
    <3>0. /\ n + 1 \in 1..Len(t) /\ (n + 1) - 1 = n /\ n <= Len(t)
          /\ k \in 1..Len(u) /\ k - 1 = Len(s) + n /\ ~ (k <= Len(s)) /\ k - Len(s) = n + 1
      BY <1>1
    <3>1. /\ IsSequence(b[n]) /\ c[Len(s) + n] = front \o b[n]
          /\ n + 1 \in 1..Len(t) /\ (n + 1) - 1 = n
          /\ k \in 1..Len(u) /\ k - 1 = Len(s) + n /\ u[k] = t[n + 1]
      <4>1. IsSequence(b[n]) /\ c[Len(s) + n] = front \o b[n]
        BY <2>2, <3>0
      <4> HIDE DEF k, S
      <4>2. u[k] = t[n + 1]
        BY <1>1, <3>0
      <4>3. QED
        BY <3>0, <4>1, <4>2
    <3>2. b[n + 1] = IF t[n + 1].event = event THEN Append(b[n], t[n + 1]) ELSE b[n]
      BY <1>4, <3>1
    <3>3. c[k] = IF t[n + 1].event = event THEN Append(front \o b[n], t[n + 1]) ELSE front \o b[n]
      BY <1>5, <3>1
    <3> HIDE DEF k
    <3> HIDE DEF S, Holds
    <3>4. Append(front \o b[n], t[n + 1]) = front \o Append(b[n], t[n + 1])
      <4> DEFINE y == b[n]
                 e == t[n + 1]
      <4>1. IsSequence(front) /\ IsSequence(y)
        BY <1>2, <3>1
      <4> HIDE DEF y, e
      <4>2. Append(front \o y, e) = front \o Append(y, e)
        BY <4>1, AppendToConcat
      <4>3. QED
        BY <4>2 DEF y, e
    <3>5. IsSequence(Append(b[n], t[n + 1]))
      BY <3>1, AppendIsSequence, Zenon
    <3>6. QED
      BY <3>1, <3>2, <3>3, <3>4, <3>5 DEF k
  <2> HIDE DEF S
  <2>3. \A n \in Nat : n \in S
    BY <2>1, <2>2, Induction
  <2>4. QED
    BY <2>3 DEF S
<1>9. c[Len(u)] = front \o b[Len(t)]
  BY <1>1, <1>8
<1>10. QED
  BY <1>4, <1>5, <1>9 DEF u, front

LEMMA EntriesNone ==
  ASSUME NEW trace, IsSequence(trace), NEW event,
         \A n \in 1..Len(trace) : trace[n].event # event
  PROVE  Entries(trace, event) = <<>>
<1>1. PICK kept : /\ Entries(trace, event) = kept[Len(trace)]
                  /\ kept[0] = <<>>
                  /\ \A n \in 1..Len(trace) :
                       kept[n] = IF trace[n].event = event THEN Append(kept[n - 1], trace[n])
                                                           ELSE kept[n - 1]
  BY EntriesKept
<1> DEFINE S == {n \in Nat : n <= Len(trace) => kept[n] = <<>>}
<1>2. 0 \in S
  BY <1>1
<1>3. ASSUME NEW n \in Nat, n \in S PROVE n + 1 \in S
  <2> SUFFICES ASSUME n + 1 <= Len(trace) PROVE kept[n + 1] = <<>>
    OBVIOUS
  <2>1. kept[n] = <<>> /\ n + 1 \in 1..Len(trace) /\ (n + 1) - 1 = n
    BY <1>3, SequenceParts
  <2>2. QED
    BY <1>1, <2>1
<1>4. Len(trace) \in S
  <2> HIDE DEF S
  <2>1. \A n \in Nat : n \in S
    BY <1>2, <1>3, Induction
  <2>2. QED
    BY <2>1, SequenceParts
<1>5. QED
  BY <1>1, <1>4, SequenceParts

LEMMA EntriesAll ==
  ASSUME NEW trace, IsSequence(trace), NEW event,
         \A n \in 1..Len(trace) : trace[n].event = event
  PROVE  Entries(trace, event) = trace
<1>1. PICK kept : /\ Entries(trace, event) = kept[Len(trace)]
                  /\ kept[0] = <<>>
                  /\ \A n \in 1..Len(trace) :
                       kept[n] = IF trace[n].event = event THEN Append(kept[n - 1], trace[n])
                                                           ELSE kept[n - 1]
  BY EntriesKept
<1> DEFINE Copies(f, n) == IsSequence(f) /\ Len(f) = n /\ \A i \in 1..n : f[i] = trace[i]
           S == {n \in Nat : n <= Len(trace) => Copies(kept[n], n)}
<1>2. 0 \in S
  BY <1>1, EmptyIsSequence
<1>3. ASSUME NEW n \in Nat, n \in S PROVE n + 1 \in S
  <2> SUFFICES ASSUME n + 1 <= Len(trace) PROVE Copies(kept[n + 1], n + 1)
    OBVIOUS
  <2>1. Copies(kept[n], n) /\ n + 1 \in 1..Len(trace) /\ (n + 1) - 1 = n
    BY <1>3, SequenceParts
  <2>2. kept[n + 1] = Append(kept[n], trace[n + 1])
    BY <1>1, <2>1
  <2>3. QED
    BY <2>1, <2>2, AppendIsSequence
<1>4. Len(trace) \in S
  <2> HIDE DEF S
  <2>1. \A n \in Nat : n \in S
    BY <1>2, <1>3, Induction
  <2>2. QED
    BY <2>1, SequenceParts
<1>5. Copies(kept[Len(trace)], Len(trace))
  BY <1>4, SequenceParts
<1>6. QED
  BY <1>1, <1>5, SequencesEqual

LEMMA EntriesAppend ==
  ASSUME NEW trace, IsSequence(trace), NEW entry, NEW event
  PROVE  Entries(Append(trace, entry), event)
           = IF entry.event = event THEN Append(Entries(trace, event), entry)
                                    ELSE Entries(trace, event)
<1> DEFINE one == <<entry>>
<1>1. IsSequence(one) /\ Len(one) = 1 /\ one[1] = entry
  BY SingletonIsSequence
<1>2. IsSequence(Entries(trace, event))
  BY EntriesIsSequence
<1>3. Append(trace, entry) = trace \o one
  BY AppendConcat
<1> HIDE DEF one
<1>4. Entries(Append(trace, entry), event) = Entries(trace, event) \o Entries(one, event)
  BY <1>1, <1>3, EntriesConcat
<1>5. CASE entry.event = event
  <2>1. Entries(one, event) = one
    BY <1>1, <1>5, EntriesAll
  <2>2. QED
    BY <1>2, <1>4, <1>5, <2>1, AppendConcat DEF one
<1>6. CASE entry.event # event
  <2>1. Entries(one, event) = <<>>
    BY <1>1, <1>6, EntriesNone
  <2>2. QED
    BY <1>2, <1>4, <1>6, <2>1, ConcatEmpty
<1>7. QED
  BY <1>5, <1>6

\* What governance evidence adds to a trace.
LEMMA EntriesAudits ==
  ASSUME NEW trace, IsSequence(trace), NEW events, IsSequence(events), NEW event
  PROVE  Entries(trace \o Audits(events), event)
           = IF event = "audit" THEN Entries(trace, event) \o Audits(events)
                                ELSE Entries(trace, event)
<1> DEFINE audits == Audits(events)
<1>1. IsSequence(audits) /\ \A n \in 1..Len(audits) : audits[n].event = "audit"
  BY AuditsIsSequence, SequenceParts DEF Audits
<1> HIDE DEF audits
<1>2. Entries(trace \o audits, event) = Entries(trace, event) \o Entries(audits, event)
  BY <1>1, EntriesConcat
<1>3. CASE event = "audit"
  BY <1>1, <1>2, <1>3, EntriesAll DEF audits
<1>4. CASE event # "audit"
  <2>1. Entries(audits, event) = <<>>
    BY <1>1, <1>4, EntriesNone
  <2>2. Entries(trace, event) \o <<>> = Entries(trace, event)
    BY EntriesIsSequence, ConcatEmpty
  <2>3. QED
    BY <1>2, <1>4, <2>1, <2>2 DEF audits
<1>5. QED
  BY <1>3, <1>4

(* Replay, effect by effect *)

\* machines[n] holds the machines after the first n recorded effects.
Plays(machines, trace, k) ==
  machines = [n \in 0..k |->
                IF n = 0 THEN {NewMachine}
                ELSE UNION {ReplayEffect(trace, m, n) : m \in machines[n - 1]}]

LEMMA PlaysMore ==
  ASSUME NEW trace, NEW k \in Nat, NEW f, Plays(f, trace, k)
  PROVE  \E g : Plays(g, trace, k + 1)
<1> DEFINE Next(h, n) == UNION {ReplayEffect(trace, m, n) : m \in h[n - 1]}
           g == [n \in 0..(k + 1) |-> IF n <= k THEN f[n] ELSE Next(f, n)]
<1>1. f = [n \in 0..k |-> IF n = 0 THEN {NewMachine} ELSE Next(f, n)]
  BY Zenon DEF Plays
<1>2. \A n \in 0..k : g[n] = f[n]
  <2> HIDE DEF Next
  <2>1. QED
    OBVIOUS
<1>3. \A n \in 0..(k + 1) : n # 0 => n - 1 \in 0..k
  OBVIOUS
<1>4. ASSUME NEW n \in 0..(k + 1)
      PROVE  g[n] = IF n = 0 THEN {NewMachine} ELSE Next(g, n)
  <2>1. n # 0 => g[n - 1] = f[n - 1]
    <3> HIDE DEF g
    <3>1. QED
      BY <1>2, <1>3
  <2>2. n # 0 => Next(g, n) = Next(f, n)
    <3> HIDE DEF g
    <3>1. QED
      BY <2>1, Zenon
  <2>3. CASE n <= k
    <3> HIDE DEF Next
    <3>1. n \in 0..k /\ g[n] = f[n]
      BY <1>2, <2>3
    <3> HIDE DEF g
    <3>2. f[n] = IF n = 0 THEN {NewMachine} ELSE Next(f, n)
      BY <1>1, <3>1
    <3>3. QED
      BY <2>2, <3>1, <3>2
  <2>4. CASE n = k + 1
    <3> HIDE DEF Next
    <3>1. g[n] = Next(f, n) /\ n # 0
      BY <2>4
    <3> HIDE DEF g
    <3>2. QED
      BY <2>2, <3>1
  <2>5. QED
    BY <2>3, <2>4
<1>5. Plays(g, trace, k + 1)
  <2> DEFINE body == [n \in 0..(k + 1) |-> IF n = 0 THEN {NewMachine} ELSE Next(g, n)]
  <2>1. g = [n \in 0..(k + 1) |-> g[n]]
    <3> HIDE DEF Next
    <3>1. QED
      OBVIOUS
  <2>2. g = body
    <3> HIDE DEF g, Next
    <3>1. QED
      BY <1>4, <2>1
  <2>3. QED
    BY <2>2, Zenon DEF Plays
<1>6. QED
  BY <1>5

LEMMA PlaysExists ==
  ASSUME NEW trace
  PROVE  \A k \in Nat : \E f : Plays(f, trace, k)
<1> DEFINE S == {k \in Nat : \E f : Plays(f, trace, k)}
<1>1. 0 \in S
  <2>1. Plays([n \in 0..0 |-> {NewMachine}], trace, 0)
    BY DEF Plays
  <2>2. QED
    BY <2>1
<1>2. \A k \in Nat : k \in S => k + 1 \in S
  BY PlaysMore
<1> HIDE DEF S
<1>3. \A k \in Nat : k \in S
  BY <1>1, <1>2, Induction
<1>4. QED
  BY <1>3 DEF S

LEMMA ReplayedChosen ==
  ASSUME NEW trace, NEW count
  PROVE  ReplayedTo(trace, count) = (CHOOSE f : Plays(f, trace, count))[count]
BY DEF ReplayedTo, Plays

\* What the machines are up to n depends on the first n effects only.
LEMMA PlaysAgree ==
  ASSUME NEW t, NEW u, NEW j \in Nat, NEW k \in Nat, NEW f, NEW g, NEW c \in Nat,
         Plays(f, t, j), Plays(g, u, k), c <= j, c <= k,
         \A n \in 1..c : \A m : ReplayEffect(t, m, n) = ReplayEffect(u, m, n)
  PROVE  f[c] = g[c]
<1> DEFINE S == {n \in Nat : n <= c => f[n] = g[n]}
<1>1. 0 \in S
  <2>1. 0 \in 0..j /\ 0 \in 0..k
    OBVIOUS
  <2>2. f[0] = {NewMachine}
    BY <2>1 DEF Plays
  <2>3. g[0] = {NewMachine}
    BY <2>1 DEF Plays
  <2>4. QED
    BY <2>2, <2>3
<1>2. ASSUME NEW n \in Nat, n \in S PROVE n + 1 \in S
  <2> SUFFICES ASSUME n + 1 <= c PROVE f[n + 1] = g[n + 1]
    OBVIOUS
  <2> DEFINE i == n + 1
  <2>1. f[n] = g[n]
    BY <1>2
  <2>2. i \in 0..j /\ i \in 0..k /\ i # 0 /\ i - 1 = n /\ i \in 1..c
    OBVIOUS
  <2> HIDE DEF i, S
  <2>3. f[i] = UNION {ReplayEffect(t, m, i) : m \in f[n]}
    BY <2>2 DEF Plays
  <2>4. g[i] = UNION {ReplayEffect(u, m, i) : m \in g[n]}
    BY <2>2 DEF Plays
  <2>5. {ReplayEffect(t, m, i) : m \in f[n]} = {ReplayEffect(u, m, i) : m \in g[n]}
    BY <2>1, <2>2
  <2>6. QED
    BY <2>3, <2>4, <2>5 DEF i
<1> HIDE DEF S
<1>3. \A n \in Nat : n \in S
  BY <1>1, <1>2, Induction
<1>4. QED
  BY <1>3 DEF S

LEMMA ReplayedAgree ==
  ASSUME NEW t, NEW u, NEW count \in Nat,
         \A n \in 1..count : \A m : ReplayEffect(t, m, n) = ReplayEffect(u, m, n)
  PROVE  ReplayedTo(t, count) = ReplayedTo(u, count)
<1> DEFINE f == CHOOSE f : Plays(f, t, count)
           g == CHOOSE g : Plays(g, u, count)
<1>1. Plays(f, t, count) /\ Plays(g, u, count)
  BY PlaysExists
<1>2. ReplayedTo(t, count) = f[count] /\ ReplayedTo(u, count) = g[count]
  BY ReplayedChosen
<1> HIDE DEF f, g
<1>3. f[count] = g[count]
  BY <1>1, PlaysAgree
<1>4. QED
  BY <1>2, <1>3

LEMMA ReplayedFirst ==
  ASSUME NEW trace
  PROVE  ReplayedTo(trace, 0) = {NewMachine}
<1> DEFINE f == CHOOSE f : Plays(f, trace, 0)
<1>1. Plays(f, trace, 0)
  BY PlaysExists
<1>2. ReplayedTo(trace, 0) = f[0]
  BY ReplayedChosen
<1> HIDE DEF f
<1>3. f[0] = {NewMachine}
  BY <1>1 DEF Plays
<1>4. QED
  BY <1>2, <1>3

LEMMA ReplayedNext ==
  ASSUME NEW trace, NEW c \in Nat
  PROVE  ReplayedTo(trace, c + 1) = UNION {ReplayEffect(trace, m, c + 1) : m \in ReplayedTo(trace, c)}
<1> DEFINE k == c + 1
           f == CHOOSE f : Plays(f, trace, c)
           g == CHOOSE g : Plays(g, trace, k)
<1>0. k \in Nat /\ k \in 0..k /\ k # 0 /\ k - 1 = c
  OBVIOUS
<1> HIDE DEF k
<1>1. Plays(f, trace, c) /\ Plays(g, trace, k)
  BY <1>0, PlaysExists
<1>2. ReplayedTo(trace, c) = f[c] /\ ReplayedTo(trace, k) = g[k]
  BY ReplayedChosen
<1> HIDE DEF f, g
<1>3. f[c] = g[c]
  BY <1>0, <1>1, PlaysAgree
<1>4. g[k] = UNION {ReplayEffect(trace, m, k) : m \in g[c]}
  BY <1>0, <1>1 DEF Plays
<1>5. QED
  BY <1>2, <1>3, <1>4 DEF k

\* The evidence an effect is replayed against is its four entries.
SameEffect(t, u, n) ==
  /\ Entries(t, "effect_requested")[n] = Entries(u, "effect_requested")[n]
  /\ Entries(t, "budget_reserved")[n] = Entries(u, "budget_reserved")[n]
  /\ Entries(t, "effect_resolved")[n] = Entries(u, "effect_resolved")[n]
  /\ Entries(t, "budget_settled")[n] = Entries(u, "budget_settled")[n]

LEMMA EffectAgrees ==
  ASSUME NEW t, NEW u, NEW m, NEW n, SameEffect(t, u, n)
  PROVE  ReplayEffect(t, m, n) = ReplayEffect(u, m, n)
BY DEF ReplayEffect, SameEffect

(* The governance evidence of a sequence of answers *)

Hears(audit, answers, k) ==
  audit = [n \in 0..k |->
             IF n = 0 THEN run.program[<<>>].audit
             ELSE audit[n - 1] \o run.program[SubSeq(answers, 1, n)].decoded
                               \o run.program[SubSeq(answers, 1, n)].audit]

LEMMA HearsMore ==
  ASSUME NEW answers, NEW k \in Nat, NEW f, Hears(f, answers, k)
  PROVE  \E g : Hears(g, answers, k + 1)
<1> DEFINE Next(h, n) == h[n - 1] \o run.program[SubSeq(answers, 1, n)].decoded
                                  \o run.program[SubSeq(answers, 1, n)].audit
           base == run.program[<<>>].audit
           g == [n \in 0..(k + 1) |-> IF n <= k THEN f[n] ELSE Next(f, n)]
<1>1. f = [n \in 0..k |-> IF n = 0 THEN base ELSE Next(f, n)]
  BY Zenon DEF Hears
<1>2. \A n \in 0..k : g[n] = f[n]
  <2> HIDE DEF Next
  <2>1. QED
    OBVIOUS
<1>3. \A n \in 0..(k + 1) : n # 0 => n - 1 \in 0..k
  OBVIOUS
<1>4. ASSUME NEW n \in 0..(k + 1)
      PROVE  g[n] = IF n = 0 THEN base ELSE Next(g, n)
  <2> HIDE DEF base
  <2>1. n # 0 => g[n - 1] = f[n - 1]
    <3> HIDE DEF g
    <3>1. QED
      BY <1>2, <1>3
  <2>2. n # 0 => Next(g, n) = Next(f, n)
    <3> HIDE DEF g
    <3>1. QED
      BY <2>1, Zenon
  <2>3. CASE n <= k
    <3> HIDE DEF Next
    <3>1. n \in 0..k /\ g[n] = f[n]
      BY <1>2, <2>3
    <3> HIDE DEF g
    <3>2. f[n] = IF n = 0 THEN base ELSE Next(f, n)
      BY <1>1, <3>1
    <3>3. QED
      BY <2>2, <3>1, <3>2
  <2>4. CASE n = k + 1
    <3> HIDE DEF Next
    <3>1. g[n] = Next(f, n) /\ n # 0
      BY <2>4
    <3> HIDE DEF g
    <3>2. QED
      BY <2>2, <3>1
  <2>5. QED
    BY <2>3, <2>4
<1>5. Hears(g, answers, k + 1)
  <2> DEFINE body == [n \in 0..(k + 1) |-> IF n = 0 THEN base ELSE Next(g, n)]
  <2>1. g = [n \in 0..(k + 1) |-> g[n]]
    <3> HIDE DEF Next
    <3>1. QED
      OBVIOUS
  <2>2. g = body
    <3> HIDE DEF g, Next, base
    <3>1. QED
      BY <1>4, <2>1
  <2>3. QED
    BY <2>2, Zenon DEF Hears
<1>6. QED
  BY <1>5

LEMMA HearsExists ==
  ASSUME NEW answers
  PROVE  \A k \in Nat : \E f : Hears(f, answers, k)
<1> DEFINE S == {k \in Nat : \E f : Hears(f, answers, k)}
<1>1. 0 \in S
  <2>1. Hears([n \in 0..0 |-> run.program[<<>>].audit], answers, 0)
    BY DEF Hears
  <2>2. QED
    BY <2>1
<1>2. \A k \in Nat : k \in S => k + 1 \in S
  BY HearsMore
<1> HIDE DEF S
<1>3. \A k \in Nat : k \in S
  BY <1>1, <1>2, Induction
<1>4. QED
  BY <1>3 DEF S

LEMMA AuditChosen ==
  ASSUME NEW answers
  PROVE  GeneratedAudit(answers) = (CHOOSE f : Hears(f, answers, Len(answers)))[Len(answers)]
BY DEF GeneratedAudit, Hears

SamePrefixes(t, u, c) == \A n \in 1..c : SubSeq(t, 1, n) = SubSeq(u, 1, n)

LEMMA HearsAgree ==
  ASSUME NEW t, NEW u, NEW j \in Nat, NEW k \in Nat, NEW f, NEW g, NEW c \in Nat,
         Hears(f, t, j), Hears(g, u, k), c <= j, c <= k, SamePrefixes(t, u, c)
  PROVE  f[c] = g[c]
<1> DEFINE S == {n \in Nat : n <= c => f[n] = g[n]}
<1>1. 0 \in S
  <2>1. 0 \in 0..j /\ 0 \in 0..k
    OBVIOUS
  <2>2. f[0] = run.program[<<>>].audit
    BY <2>1 DEF Hears
  <2>3. g[0] = run.program[<<>>].audit
    BY <2>1 DEF Hears
  <2>4. QED
    BY <2>2, <2>3
<1>2. ASSUME NEW n \in Nat, n \in S PROVE n + 1 \in S
  <2> SUFFICES ASSUME n + 1 <= c PROVE f[n + 1] = g[n + 1]
    OBVIOUS
  <2> DEFINE i == n + 1
             x == SubSeq(t, 1, i)
             y == SubSeq(u, 1, i)
  <2>1. f[n] = g[n]
    BY <1>2
  <2>2. i \in 0..j /\ i \in 0..k /\ i # 0 /\ i - 1 = n /\ i \in 1..c
    OBVIOUS
  <2> HIDE DEF i, S
  <2>3. f[i] = f[n] \o run.program[x].decoded \o run.program[x].audit
    BY <2>2 DEF Hears
  <2>4. g[i] = g[n] \o run.program[y].decoded \o run.program[y].audit
    BY <2>2 DEF Hears
  <2>5. x = y
    BY <2>2 DEF SamePrefixes
  <2> HIDE DEF x, y
  <2>6. QED
    BY <2>1, <2>3, <2>4, <2>5 DEF i
<1> HIDE DEF S
<1>3. \A n \in Nat : n \in S
  BY <1>1, <1>2, Induction
<1>4. QED
  BY <1>3 DEF S

LEMMA AuditFirst == GeneratedAudit(<<>>) = run.program[<<>>].audit
<1> DEFINE f == CHOOSE f : Hears(f, <<>>, 0)
<1>1. Hears(f, <<>>, 0)
  BY HearsExists
<1>2. GeneratedAudit(<<>>) = f[0]
  <2>1. Len(<<>>) = 0
    BY EmptyIsSequence
  <2>2. QED
    BY <2>1, AuditChosen
<1> HIDE DEF f
<1>3. f[0] = run.program[<<>>].audit
  BY <1>1 DEF Hears
<1>4. QED
  BY <1>2, <1>3

LEMMA AuditNext ==
  ASSUME NEW answers, IsSequence(answers), NEW payload
  PROVE  LET next == Append(answers, payload)
         IN  GeneratedAudit(next)
               = GeneratedAudit(answers) \o run.program[next].decoded \o run.program[next].audit
<1> DEFINE next == Append(answers, payload)
           c == Len(answers)
           k == c + 1
           f == CHOOSE f : Hears(f, answers, c)
           g == CHOOSE g : Hears(g, next, k)
<1>1. /\ IsSequence(next) /\ Len(next) = k /\ c \in Nat
      /\ \A i \in 1..c : next[i] = answers[i]
  BY AppendIsSequence
<1>2. k \in Nat /\ k \in 0..k /\ k # 0 /\ k - 1 = c /\ c <= k
  BY <1>1
<1> HIDE DEF next, k
<1>3. SamePrefixes(answers, next, c)
  <2> SUFFICES ASSUME NEW n \in 1..c PROVE SubSeq(answers, 1, n) = SubSeq(next, 1, n)
    BY DEF SamePrefixes
  <2>1. n \in Nat /\ n <= Len(answers) /\ n <= Len(next) /\ \A i \in 1..n : answers[i] = next[i]
    BY <1>1, <1>2
  <2>2. QED
    BY <1>1, <2>1, SamePrefix
<1>4. SubSeq(next, 1, k) = next
  <2> DEFINE S == Range(next)
  <2>1. next \in Seq(S)
    BY <1>1 DEF IsSequence
  <2> HIDE DEF S
  <2>2. \A i \in 1..k : next[i] \in S
    BY <1>1, <2>1, ElementOfSeq, SequenceParts
  <2>3. /\ SubSeq(next, 1, k) \in Seq(S) /\ Len(SubSeq(next, 1, k)) = k
        /\ \A i \in 1..k : SubSeq(next, 1, k)[i] = next[i]
    BY <1>1, <1>2, <2>1, <2>2, SubSeqProperties
  <2>4. QED
    BY <1>1, <2>1, <2>3, SeqEqual
<1> HIDE DEF c
<1>5. Hears(f, answers, c) /\ Hears(g, next, k)
  BY <1>1, <1>2, HearsExists
<1>6. GeneratedAudit(answers) = f[c] /\ GeneratedAudit(next) = g[k]
  BY <1>1, AuditChosen DEF c
<1> HIDE DEF f, g
<1>7. f[c] = g[c]
  <2>1. c \in Nat /\ k \in Nat /\ c <= c /\ c <= k
    BY <1>1, <1>2
  <2>2. QED
    BY <1>3, <1>5, <2>1, HearsAgree
<1>8. g[k] = g[c] \o run.program[SubSeq(next, 1, k)].decoded \o run.program[SubSeq(next, 1, k)].audit
  BY <1>2, <1>5 DEF Hears
<1>9. QED
  BY <1>4, <1>6, <1>7, <1>8 DEF next

LEMMA WholePrefix ==
  ASSUME NEW s, IsSequence(s)
  PROVE  SubSeq(s, 1, Len(s)) = s
<1> DEFINE S == Range(s)
           k == Len(s)
<1>1. s \in Seq(S) /\ k \in Nat
  BY SequenceParts DEF IsSequence
<1>2. \A i \in 1..k : s[i] \in S
  <2> HIDE DEF S
  <2>1. QED
    BY <1>1, ElementOfSeq, SequenceParts
<1> HIDE DEF S, k
<1>3. Len(s) = k
  BY DEF k
<1>4. /\ SubSeq(s, 1, k) \in Seq(S) /\ Len(SubSeq(s, 1, k)) = k
      /\ \A i \in 1..k : SubSeq(s, 1, k)[i] = s[i]
  BY <1>1, <1>2, <1>3, SubSeqProperties
<1>5. SubSeq(s, 1, k) = s
  BY <1>1, <1>3, <1>4, SeqEqual
<1>6. QED
  BY <1>3, <1>5

\* A trace that has only been appended to still begins with the same prefix.
LEMMA PrefixOfMore ==
  ASSUME NEW p, IsSequence(p), NEW t, IsSequence(t), NEW u, IsSequence(u),
         IsPrefix(p, t)
  PROVE  IsPrefix(p, t \o u)
<1> DEFINE k == Len(p)
           w == t \o u
<1>1. k \in Nat /\ k <= Len(t) /\ SubSeq(p, 1, k) = SubSeq(t, 1, k)
  BY SequenceParts DEF IsPrefix
<1>2. /\ IsSequence(w) /\ Len(w) = Len(t) + Len(u) /\ Len(t) \in Nat /\ Len(u) \in Nat
      /\ \A i \in 1..(Len(t) + Len(u)) : w[i] = IF i <= Len(t) THEN t[i] ELSE u[i - Len(t)]
  BY ConcatIsSequence, ConcatParts, SequenceParts
<1> HIDE DEF w, k
<1>3. k <= Len(w) /\ \A i \in 1..k : t[i] = w[i]
  BY <1>1, <1>2
<1>4. SubSeq(t, 1, k) = SubSeq(w, 1, k)
  BY <1>1, <1>2, <1>3, SamePrefix
<1>5. QED
  BY <1>1, <1>3, <1>4 DEF IsPrefix, k, w

LEMMA PrefixOfItself ==
  ASSUME NEW s, IsSequence(s)
  PROVE  IsPrefix(s, s)
BY SequenceParts DEF IsPrefix

LEMMA AuditsConcat ==
  ASSUME NEW s, IsSequence(s), NEW t, IsSequence(t)
  PROVE  Audits(s \o t) = Audits(s) \o Audits(t)
<1> DEFINE w == s \o t
           a == Audits(s)
           b == Audits(t)
           c == Audits(w)
           One(e) == [event |-> "audit", about |-> e]
<1>1. /\ IsSequence(w) /\ Len(w) = Len(s) + Len(t) /\ Len(s) \in Nat /\ Len(t) \in Nat
      /\ \A i \in 1..(Len(s) + Len(t)) : w[i] = IF i <= Len(s) THEN s[i] ELSE t[i - Len(s)]
      /\ DOMAIN s = 1..Len(s) /\ DOMAIN t = 1..Len(t) /\ DOMAIN w = 1..Len(w)
  BY ConcatIsSequence, ConcatParts, SequenceParts
<1> HIDE DEF w, One
<1>2. /\ DOMAIN a = DOMAIN s /\ DOMAIN b = DOMAIN t /\ DOMAIN c = DOMAIN w
      /\ \A i \in DOMAIN s : a[i] = One(s[i])
      /\ \A i \in DOMAIN t : b[i] = One(t[i])
      /\ \A i \in DOMAIN w : c[i] = One(w[i])
  BY DEF Audits, One
<1>3. IsSequence(a) /\ IsSequence(b) /\ IsSequence(c)
  BY <1>1, AuditsIsSequence
<1> HIDE DEF a, b, c
<1>4. Len(a) = Len(s) /\ Len(b) = Len(t) /\ Len(c) = Len(w)
  <2>1. DOMAIN a = 1..Len(a) /\ DOMAIN b = 1..Len(b) /\ DOMAIN c = 1..Len(c)
        /\ Len(a) \in Nat /\ Len(b) \in Nat /\ Len(c) \in Nat
    BY <1>3, SequenceParts
  <2>2. \A i, j \in Nat : 1..i = 1..j => i = j
    <3> SUFFICES ASSUME NEW i \in Nat, NEW j \in Nat, 1..i = 1..j PROVE i = j
      OBVIOUS
    <3>1. i \in 1..i <=> i \in 1..j
      OBVIOUS
    <3>2. j \in 1..j <=> j \in 1..i
      OBVIOUS
    <3>3. QED
      BY <3>1, <3>2
  <2>3. QED
    BY <1>1, <1>2, <2>1, <2>2
<1>5. /\ IsSequence(a \o b) /\ Len(a \o b) = Len(c)
      /\ \A i \in 1..Len(c) : (a \o b)[i] = IF i <= Len(s) THEN a[i] ELSE b[i - Len(s)]
  <2>1. /\ IsSequence(a \o b) /\ Len(a \o b) = Len(a) + Len(b)
        /\ \A i \in 1..(Len(a) + Len(b)) : (a \o b)[i] = IF i <= Len(a) THEN a[i] ELSE b[i - Len(a)]
    BY <1>3, ConcatIsSequence, ConcatParts
  <2> DEFINE ab == a \o b
  <2> HIDE DEF ab
  <2>2. /\ IsSequence(ab) /\ Len(ab) = Len(a) + Len(b)
        /\ \A i \in 1..(Len(a) + Len(b)) : ab[i] = IF i <= Len(a) THEN a[i] ELSE b[i - Len(a)]
    BY <2>1 DEF ab
  <2>3. /\ IsSequence(ab) /\ Len(ab) = Len(c)
        /\ \A i \in 1..Len(c) : ab[i] = IF i <= Len(s) THEN a[i] ELSE b[i - Len(s)]
    BY <1>1, <1>4, <2>2
  <2>4. QED
    BY <2>3 DEF ab
<1>6. \A i \in 1..Len(c) : c[i] = IF i <= Len(s) THEN a[i] ELSE b[i - Len(s)]
  <2> SUFFICES ASSUME NEW i \in 1..Len(c)
               PROVE  c[i] = IF i <= Len(s) THEN a[i] ELSE b[i - Len(s)]
    OBVIOUS
  <2>1. i \in DOMAIN w /\ w[i] = IF i <= Len(s) THEN s[i] ELSE t[i - Len(s)]
    BY <1>1, <1>4
  <2>2. IF i <= Len(s) THEN i \in DOMAIN s ELSE i - Len(s) \in DOMAIN t
    BY <1>1, <1>4
  <2>3. QED
    BY <1>2, <2>1, <2>2
<1> DEFINE ab == a \o b
<1>7. IsSequence(ab) /\ Len(c) = Len(ab) /\ \A i \in 1..Len(c) : c[i] = ab[i]
  <2>1. /\ IsSequence(ab) /\ Len(ab) = Len(c)
        /\ \A i \in 1..Len(c) : ab[i] = IF i <= Len(s) THEN a[i] ELSE b[i - Len(s)]
    BY <1>5
  <2> HIDE DEF ab
  <2>2. QED
    BY <1>6, <2>1
<1> HIDE DEF ab
<1>8. c = ab
  BY <1>3, <1>7, SequencesEqual
<1>9. QED
  BY <1>8 DEF ab, a, b, c, w

(* What a trace that grows keeps *)

EffectEvents == {"effect_requested", "budget_reserved", "effect_resolved", "budget_settled"}

LEMMA EntriesGrow ==
  ASSUME NEW t, IsSequence(t), NEW u, IsSequence(u), NEW event
  PROVE  \A n \in 1..Count(t, event) : Entries(t \o u, event)[n] = Entries(t, event)[n]
<1> DEFINE a == Entries(t, event)
           b == Entries(u, event)
           w == Entries(t \o u, event)
<1>1. w = a \o b /\ IsSequence(a) /\ IsSequence(b)
  <2>1. w = a \o b
    BY EntriesConcat
  <2>2. IsSequence(a) /\ IsSequence(b)
    BY EntriesIsSequence
  <2>3. QED
    BY <2>1, <2>2
<1> HIDE DEF a, b, w
<1>2. \A n \in 1..Len(a) : w[n] = a[n]
  <2>1. /\ Len(a) \in Nat /\ Len(b) \in Nat
        /\ \A i \in 1..(Len(a) + Len(b)) : (a \o b)[i] = IF i <= Len(a) THEN a[i] ELSE b[i - Len(a)]
    BY <1>1, ConcatParts, SequenceParts
  <2>2. \A i \in 1..(Len(a) + Len(b)) : w[i] = IF i <= Len(a) THEN a[i] ELSE b[i - Len(a)]
    BY <1>1, <2>1
  <2>3. QED
    BY <2>1, <2>2
<1>3. QED
  BY <1>2 DEF a, w, Count

\* The effects a trace records replay to the same machines when it grows.
LEMMA ReplayedGrows ==
  ASSUME NEW t, IsSequence(t), NEW u, IsSequence(u), NEW c \in Nat,
         \A event \in EffectEvents : c <= Count(t, event)
  PROVE  ReplayedTo(t \o u, c) = ReplayedTo(t, c)
<1> DEFINE w == t \o u
<1>1. \A event \in EffectEvents : Count(t, event) \in Nat
  BY EntriesIsSequence, SequenceParts DEF Count
<1>2. \A event : \A n \in 1..Count(t, event) : Entries(w, event)[n] = Entries(t, event)[n]
  BY EntriesGrow
<1> HIDE DEF w
<1>3. ASSUME NEW n \in 1..c, NEW m
      PROVE  ReplayEffect(w, m, n) = ReplayEffect(t, m, n)
  <2>1. \A event \in EffectEvents : Entries(w, event)[n] = Entries(t, event)[n]
    <3> TAKE event \in EffectEvents
    <3>1. n \in 1..Count(t, event)
      BY <1>1
    <3>2. QED
      BY <1>2, <3>1
  <2>2. SameEffect(w, t, n)
    BY <2>1 DEF EffectEvents, SameEffect
  <2>3. QED
    BY <2>2, EffectAgrees
<1>4. QED
  BY <1>3, ReplayedAgree DEF w

(* Machines that differ only in the trace they are bound to *)

Alike(m, n) == m.answers = n.answers /\ m.budget = n.budget /\ m.pending = n.pending

LEMMA YieldedParts ==
  ASSUME run \in Runs, NEW m, IsMachine(m), CanYield(m)
  PROVE  LET y == Yielded(m)
         IN  /\ IsSuspended(y) /\ Reaction(y) = Reaction(m)
             /\ y.answers = m.answers /\ y.checkpoint = m.checkpoint
             /\ DOMAIN y.pending.held = {Reaction(m).dimension}
             /\ Reaction(m).dimension \in CountDimensions
             /\ UsageHeld(y) = {}
<1> DEFINE y == Yielded(m)
           r == Reaction(m)
<1>1. IsReaction(r) /\ r.step = "yield"
  BY ReactionsAreReactions DEF CanYield
<1>2. /\ DOMAIN y = {"answers", "budget", "pending", "checkpoint"}
      /\ y.answers = m.answers /\ y.checkpoint = m.checkpoint
      /\ DOMAIN y.pending = {"request", "expected", "before", "held"}
      /\ y.pending.request = r.request /\ y.pending.expected = r.expected
  BY DEF Yielded, IsMachine
<1>3. DOMAIN y.pending.held = {r.dimension}
  BY DEF Yielded, IsMachine, ReservationsFor
<1>4. Reaction(y) = r
  BY <1>2 DEF Reaction
<1> HIDE DEF y
<1>5. r.dimension \in CountDimensions
  BY <1>1 DEF IsReaction
<1>6. UsageHeld(y) = {}
  BY <1>3, <1>5 DEF UsageHeld, CountDimensions, UsageDimensions
<1>7. IsSuspended(y)
  BY <1>1, <1>2, <1>4 DEF IsSuspended, IsMachine
<1>8. QED
  BY <1>2, <1>3, <1>4, <1>5, <1>6, <1>7 DEF y

LEMMA AlikeYields ==
  ASSUME NEW m, IsMachine(m), NEW n, IsMachine(n), Alike(m, n)
  PROVE  /\ Reaction(m) = Reaction(n)
         /\ CanYield(m) <=> CanYield(n)
         /\ Alike(Yielded(m), Yielded(n))
<1>1. Reaction(m) = Reaction(n)
  BY DEF Alike, Reaction
<1>2. CanYield(m) <=> CanYield(n)
  BY <1>1 DEF Alike, CanYield
<1>3. Alike(Yielded(m), Yielded(n))
  BY <1>1 DEF Alike, Yielded, IsMachine
<1>4. QED
  BY <1>1, <1>2, <1>3

LEMMA AlikeEvidence ==
  ASSUME NEW m, NEW n, Alike(m, n)
  PROVE  /\ Requested(m) = Requested(n)
         /\ UsageHeld(m) = UsageHeld(n)
         /\ Admitted(m) = Admitted(n)
         /\ ReservedEvidence(m) = ReservedEvidence(n)
<1>1. UsageHeld(m) = UsageHeld(n)
  BY DEF Alike, UsageHeld
<1>2. Admitted(m) = Admitted(n)
  BY <1>1 DEF Alike, Admitted
<1>3. Requested(m) = Requested(n)
  BY DEF Alike, Requested
<1>4. ReservedEvidence(m) = ReservedEvidence(n)
  BY <1>2 DEF Alike, ReservedEvidence
<1>5. QED
  BY <1>1, <1>2, <1>3, <1>4

\* What is held for the effect once these maximums are reserved.
MoreHeld(m, maximums) ==
  [d \in DOMAIN m.pending.held \cup DOMAIN maximums |->
     IF d \in DOMAIN maximums THEN ReservationsFor(m.budget, maximums)[d] ELSE m.pending.held[d]]

LEMMA ReservedParts ==
  ASSUME NEW m, IsSuspended(m), NEW maximums
  PROVE  LET u == UsageReserved(m, maximums)
         IN  /\ DOMAIN u = {"answers", "budget", "pending", "checkpoint"}
             /\ u.answers = m.answers /\ u.checkpoint = m.checkpoint
             /\ IF DOMAIN maximums = {} THEN u.budget = m.budget /\ u.pending = m.pending
                ELSE /\ u.budget = Reserve(m.budget, maximums)
                     /\ u.pending = [m.pending EXCEPT !.held = MoreHeld(m, maximums)]
<1>1. CASE DOMAIN maximums = {}
  BY <1>1 DEF UsageReserved, IsSuspended, IsMachine
<1>2. CASE DOMAIN maximums # {}
  <2> DEFINE held == MoreHeld(m, maximums)
             u == UsageReserved(m, maximums)
  <2>1. u = [m EXCEPT !.budget = Reserve(m.budget, maximums), !.pending.held = held]
    BY <1>2 DEF UsageReserved, MoreHeld
  <2> HIDE DEF held, u
  <2>2. /\ DOMAIN u = {"answers", "budget", "pending", "checkpoint"}
        /\ u.answers = m.answers /\ u.checkpoint = m.checkpoint
        /\ u.budget = Reserve(m.budget, maximums)
        /\ u.pending = [m.pending EXCEPT !.held = held]
    BY <2>1 DEF IsSuspended, IsMachine
  <2>3. QED
    BY <1>2, <2>2 DEF held, u
<1>3. QED
  BY <1>1, <1>2

LEMMA AlikeReserves ==
  ASSUME NEW m, IsSuspended(m), NEW n, IsSuspended(n), Alike(m, n), NEW maximums
  PROVE  /\ CanReserveUsage(m, maximums) <=> CanReserveUsage(n, maximums)
         /\ Alike(UsageReserved(m, maximums), UsageReserved(n, maximums))
<1>1. CanReserveUsage(m, maximums) <=> CanReserveUsage(n, maximums)
  BY DEF Alike, CanReserveUsage
<1>2. m.answers = n.answers /\ m.budget = n.budget /\ m.pending = n.pending
  BY DEF Alike
<1> DEFINE u == UsageReserved(m, maximums)
           w == UsageReserved(n, maximums)
           Held(k) == MoreHeld(k, maximums)
<1>3. u.answers = w.answers
  <2>1. u.answers = m.answers
    BY ReservedParts
  <2>2. w.answers = n.answers
    BY ReservedParts
  <2> HIDE DEF u, w
  <2>3. QED
    BY <1>2, <2>1, <2>2
<1>4. CASE DOMAIN maximums = {}
  <2>1. u.budget = m.budget /\ u.pending = m.pending /\ w.budget = n.budget /\ w.pending = n.pending
    BY <1>4, ReservedParts
  <2> HIDE DEF u, w
  <2>2. QED
    BY <1>1, <1>2, <1>3, <2>1 DEF Alike, u, w
<1>5. CASE DOMAIN maximums # {}
  <2>1. /\ u.budget = Reserve(m.budget, maximums) /\ w.budget = Reserve(n.budget, maximums)
        /\ u.pending = [m.pending EXCEPT !.held = Held(m)]
        /\ w.pending = [n.pending EXCEPT !.held = Held(n)]
    BY <1>5, ReservedParts
  <2>2. Held(m) = Held(n)
    BY <1>2 DEF MoreHeld
  <2> HIDE DEF Held, u, w
  <2>3. QED
    BY <1>1, <1>2, <1>3, <2>1, <2>2 DEF Alike, u, w
<1>6. QED
  BY <1>4, <1>5

\* Only the dimensions and amounts of a declaration matter.
LEMMA SameDeclaration ==
  ASSUME NEW m, NEW a, NEW x, DOMAIN a = DOMAIN x, \A d \in DOMAIN x : a[d] = x[d]
  PROVE  /\ CanReserveUsage(m, a) <=> CanReserveUsage(m, x)
         /\ UsageReserved(m, a) = UsageReserved(m, x)
<1>1. CanReserveUsage(m, a) <=> CanReserveUsage(m, x)
  BY DEF CanReserveUsage
<1>2. ReservationsFor(m.budget, a) = ReservationsFor(m.budget, x)
  BY DEF ReservationsFor
<1>3. Reserve(m.budget, a) = Reserve(m.budget, x)
  <2> DEFINE b == m.budget
             Left(z) == [d \in BudgetDimension |-> IF d \in DOMAIN z THEN b.remaining[d] - z[d]
                                                                     ELSE b.remaining[d]]
             Lines(z) == b.reservations \cup {ReservationsFor(b, z)[d] : d \in DOMAIN ReservationsFor(b, z)}
             Id(z) == b.next_id + (IF DOMAIN z = UsageDimensions THEN 2 ELSE 1)
  <2>1. Left(a) = Left(x)
    OBVIOUS
  <2>2. Lines(a) = Lines(x)
    BY <1>2
  <2>3. Id(a) = Id(x)
    OBVIOUS
  <2>4. /\ Reserve(b, a) = [remaining |-> Left(a), reservations |-> Lines(a), next_id |-> Id(a)]
        /\ Reserve(b, x) = [remaining |-> Left(x), reservations |-> Lines(x), next_id |-> Id(x)]
    BY Zenon DEF Reserve
  <2> HIDE DEF b, Left, Lines, Id
  <2>5. QED
    BY <2>1, <2>2, <2>3, <2>4 DEF b
<1>4. UsageReserved(m, a) = UsageReserved(m, x)
  <2> DEFINE Held(z) == [d \in DOMAIN m.pending.held \cup DOMAIN z |->
                           IF d \in DOMAIN z THEN ReservationsFor(m.budget, z)[d]
                                             ELSE m.pending.held[d]]
             After(z) == [m EXCEPT !.budget = Reserve(m.budget, z), !.pending.held = Held(z)]
  <2>1. Held(a) = Held(x)
    BY <1>2
  <2>2. /\ UsageReserved(m, a) = IF DOMAIN a = {} THEN m ELSE After(a)
        /\ UsageReserved(m, x) = IF DOMAIN x = {} THEN m ELSE After(x)
    BY Zenon DEF UsageReserved
  <2>3. After(a) = After(x)
    <3> HIDE DEF Held
    <3>1. QED
      BY <1>3, <2>1
  <2> HIDE DEF After
  <2>4. QED
    BY <2>2, <2>3
<1>5. QED
  BY <1>1, <1>4

\* The recorded maximums are those that were declared.
LEMMA AdmittedIsDeclared ==
  ASSUME NEW m, IsSuspended(m), UsageHeld(m) = {}, NEW maximums, CanReserveUsage(m, maximums)
  PROVE  LET admitted == Admitted(UsageReserved(m, maximums))
         IN  DOMAIN admitted = DOMAIN maximums /\ \A d \in DOMAIN maximums : admitted[d] = maximums[d]
<1> DEFINE u == UsageReserved(m, maximums)
           held == MoreHeld(m, maximums)
<1>1. DOMAIN maximums \subseteq UsageDimensions
  BY DEF CanReserveUsage
<1>2. CASE DOMAIN maximums = {}
  <2>1. u.pending = m.pending
    BY <1>2, ReservedParts
  <2> HIDE DEF u
  <2>2. UsageHeld(u) = {}
    BY <2>1 DEF UsageHeld
  <2>3. DOMAIN Admitted(u) = {}
    BY <2>2 DEF Admitted
  <2>4. QED
    BY <1>2, <2>3 DEF u
<1>3. CASE DOMAIN maximums # {}
  <2>1. u.pending = [m.pending EXCEPT !.held = held]
    BY <1>3, ReservedParts
  <2> HIDE DEF u, held
  <2>2. u.pending.held = held
    BY <2>1 DEF IsSuspended
  <2>3. DOMAIN held = DOMAIN m.pending.held \cup DOMAIN maximums
    BY DEF held, MoreHeld
  <2>4. UsageHeld(u) = DOMAIN maximums
    BY <1>1, <2>2, <2>3 DEF UsageHeld
  <2>5. \A d \in DOMAIN maximums : held[d].maximum = maximums[d]
    BY DEF held, MoreHeld, ReservationsFor
  <2>6. DOMAIN Admitted(u) = DOMAIN maximums
    BY <2>4 DEF Admitted
  <2>7. \A d \in DOMAIN maximums : Admitted(u)[d] = maximums[d]
    BY <2>2, <2>4, <2>5 DEF Admitted
  <2>8. QED
    BY <2>6, <2>7 DEF u
<1>4. QED
  BY <1>2, <1>3

LEMMA AlikeSupplied ==
  ASSUME NEW m, IsSuspended(m), NEW n, IsSuspended(n), Alike(m, n), NEW payload, NEW usage
  PROVE  /\ AcceptsAnswer(m, payload, usage) <=> AcceptsAnswer(n, payload, usage)
         /\ Alike(Supplied(m, payload, usage), Supplied(n, payload, usage))
<1>1. m.answers = n.answers /\ m.budget = n.budget /\ m.pending = n.pending
  BY DEF Alike
<1>2. Spent(m, usage) = Spent(n, usage)
  BY <1>1 DEF Spent
<1>3. SettledDimensions(m, usage) = SettledDimensions(n, usage)
  BY <1>1, <1>2 DEF SettledDimensions
<1>4. ExpectsUsage(m, usage) <=> ExpectsUsage(n, usage)
  BY AlikeEvidence DEF ExpectsUsage
<1>5. AcceptsAnswer(m, payload, usage) <=> AcceptsAnswer(n, payload, usage)
  BY <1>1, <1>3, <1>4 DEF AcceptsAnswer
<1>6. Alike(Supplied(m, payload, usage), Supplied(n, payload, usage))
  <2> DEFINE Settled(k) == Settle(k.budget, k.pending.held, Spent(k, usage), SettledDimensions(k, usage))
  <2>1. Settled(m) = Settled(n)
    BY <1>1, <1>2, <1>3
  <2>2. DOMAIN m = {"answers", "budget", "pending", "checkpoint"} /\ DOMAIN n = DOMAIN m
    BY DEF IsSuspended, IsMachine
  <2> DEFINE After(k) == IF AcceptsAnswer(k, payload, usage)
                         THEN [[k EXCEPT !.budget = Settled(k)]
                                 EXCEPT !.answers = Append(k.answers, payload), !.pending = None]
                         ELSE IF ExpectsUsage(k, usage) THEN [k EXCEPT !.budget = Settled(k)] ELSE k
  <2>3. Supplied(m, payload, usage) = After(m) /\ Supplied(n, payload, usage) = After(n)
    BY DEF Supplied
  <2> HIDE DEF Settled
  <2>4. Alike(After(m), After(n))
    BY <1>1, <1>4, <1>5, <2>1, <2>2 DEF Alike
  <2> HIDE DEF After
  <2>5. QED
    BY <2>3, <2>4
<1>7. QED
  BY <1>5, <1>6

LEMMA SuppliedIsMachine ==
  ASSUME run \in Runs, NEW m, IsSuspended(m), NEW payload, NEW usage,
         AcceptsAnswer(m, payload, usage)
  PROVE  LET supplied == Supplied(m, payload, usage)
         IN  IsMachine(supplied) /\ supplied.answers = Append(m.answers, payload)
<1> DEFINE supplied == Supplied(m, payload, usage)
           settled == Settle(m.budget, m.pending.held, Spent(m, usage), SettledDimensions(m, usage))
           answers == Append(m.answers, payload)
<1>1. supplied = [[m EXCEPT !.budget = settled] EXCEPT !.answers = answers, !.pending = None]
  BY DEF Supplied
<1>2. answers \in DOMAIN run.program
  BY ReactionsAreReactions DEF IsSuspended, AcceptsAnswer
<1> HIDE DEF settled, supplied, answers
<1>3. /\ DOMAIN supplied = DOMAIN m /\ supplied.answers = answers
      /\ supplied.checkpoint = m.checkpoint
  BY <1>1 DEF IsSuspended, IsMachine
<1>4. IsMachine(supplied)
  BY <1>2, <1>3 DEF IsSuspended, IsMachine
<1>5. QED
  BY <1>3, <1>4 DEF supplied, answers

\* An effect whose four entries are those of a recording replays to the
\* machine that the recording supplied.
LEMMA EffectReplays ==
  ASSUME run \in Runs, NEW r, IsMachine(r), CanYield(r), NEW maximums,
         CanReserveUsage(Yielded(r), maximums), NEW payload, NEW usage, NEW t, NEW k,
         NEW u, u = UsageReserved(Yielded(r), maximums),
         AcceptsAnswer(u, payload, usage),
         Entries(t, "effect_requested")[k] = Requested(u),
         Entries(t, "budget_reserved")[k] = ReservedEvidence(u),
         Entries(t, "effect_resolved")[k] = ResolvedEvidence(u, payload, usage),
         Entries(t, "budget_settled")[k]
           = SettledEvidence(Admitted(u), usage, Supplied(u, payload, usage).budget)
  PROVE  ReplayEffect(t, r, k) = {Supplied(u, payload, usage)}
<1> DEFINE y == Yielded(r)
           a == Entries(t, "budget_reserved")[k].maximums
           e == Entries(t, "effect_resolved")[k]
<1>1. IsSuspended(y) /\ UsageHeld(y) = {}
  BY YieldedParts
<1>2. a = Admitted(u)
  BY DEF ReservedEvidence
<1>3. DOMAIN a = DOMAIN maximums /\ \A d \in DOMAIN maximums : a[d] = maximums[d]
  BY <1>1, <1>2, AdmittedIsDeclared
<1> HIDE DEF a, y
<1>4. CanReserveUsage(y, a) /\ UsageReserved(y, a) = u
  BY <1>3, SameDeclaration DEF y
<1>5. IsSuspended(u) /\ u.pending.request = y.pending.request
  BY <1>1, UsageReservedIsSuspended DEF y
<1>6. Requested(y) = Requested(u)
  BY <1>5 DEF Requested
<1>7. e.payload = payload /\ e.usage = usage /\ e.request = u.pending.request
  BY DEF ResolvedEvidence
<1> DEFINE reserved == UsageReserved(Yielded(r), Entries(t, "budget_reserved")[k].maximums)
           supplied == Supplied(reserved, e.payload, e.usage)
<1>8. reserved = u
  BY <1>4 DEF y, a
<1> HIDE DEF reserved, e
<1>9. supplied = Supplied(u, payload, usage)
  BY <1>7, <1>8
<1> HIDE DEF supplied
<1>10. /\ Requested(Yielded(r)) = Entries(t, "effect_requested")[k]
       /\ CanReserveUsage(Yielded(r), Entries(t, "budget_reserved")[k].maximums)
       /\ ReservedEvidence(reserved) = Entries(t, "budget_reserved")[k]
       /\ e.request = reserved.pending.request
       /\ AcceptsAnswer(reserved, e.payload, e.usage)
       /\ SettledEvidence(Admitted(reserved), e.usage, supplied.budget)
            = Entries(t, "budget_settled")[k]
  BY <1>4, <1>6, <1>7, <1>8, <1>9 DEF y, a
<1>11. ReplayEffect(t, r, k) = {supplied}
  BY <1>10 DEF ReplayEffect, reserved, supplied, e
<1>12. QED
  BY <1>9, <1>11

(* What a trace says of the machine at each phase of a session *)

Unfinished(t) == \A n \in DOMAIN t : t[n].event # "run_completed"

\* The trace records c effects to their settlement.
Tally(t, requested, reserved, c) ==
  /\ Count(t, "effect_requested") = requested
  /\ Count(t, "budget_reserved") = reserved
  /\ Count(t, "effect_resolved") = c
  /\ Count(t, "budget_settled") = c

Audible(m)  == IsSequence(m.answers) /\ IsSequence(GeneratedAudit(m.answers))
Heard(t, m) == Entries(t, "audit") = Audits(GeneratedAudit(m.answers))

\* The machine runs on from where the recorded effects leave it; the evidence
\* of its last reaction is not on the trace yet.
RunsOn(t, m) ==
  /\ Unfinished(t) /\ Audible(m)
  /\ Entries(t, "audit") \o Audits(Reaction(m).audit) = Audits(GeneratedAudit(m.answers))
  /\ LET c == Count(t, "effect_resolved")
     IN  /\ Tally(t, c, c, c)
         /\ \E r \in ReplayedTo(t, c) : IsMachine(r) /\ Alike(r, m)

\* It has yielded an effect, which the trace has requested.
Asks(t, m) ==
  /\ Unfinished(t) /\ Audible(m) /\ Heard(t, m)
  /\ LET c == Count(t, "effect_resolved")
     IN  /\ Tally(t, c + 1, c, c)
         /\ Entries(t, "effect_requested")[c + 1] = Requested(m)
         /\ \E r \in ReplayedTo(t, c) : IsMachine(r) /\ CanYield(r) /\ Alike(Yielded(r), m)

\* It has also reserved the usage of that effect, which the trace has evidence
\* of.
Waits(t, m) ==
  /\ Unfinished(t) /\ Audible(m) /\ Heard(t, m)
  /\ LET c == Count(t, "effect_resolved")
     IN  /\ Tally(t, c + 1, c + 1, c)
         /\ Entries(t, "effect_requested")[c + 1] = Requested(m)
         /\ Entries(t, "budget_reserved")[c + 1] = ReservedEvidence(m)
         /\ \E r \in ReplayedTo(t, c) :
              /\ IsMachine(r) /\ CanYield(r) /\ CanReserveUsage(Yielded(r), Admitted(m))
              /\ Alike(UsageReserved(Yielded(r), Admitted(m)), m)

\* A snapshot is described by the trace it is bound to.
Described(snapshot) ==
  LET prefix == snapshot.checkpoint
  IN  /\ Len(prefix) > 0 /\ Last(prefix) = ReservedEvidence(snapshot)
      /\ Waits(prefix, snapshot)
      /\ snapshot = [answers |-> snapshot.answers, budget |-> snapshot.budget,
                     pending |-> snapshot.pending, checkpoint |-> prefix]

(* Appending to a trace *)

LEMMA CountAppend ==
  ASSUME NEW t, IsSequence(t), NEW e, NEW event
  PROVE  /\ Count(t, event) \in Nat
         /\ Count(Append(t, e), event)
              = IF e.event = event THEN Count(t, event) + 1 ELSE Count(t, event)
         /\ e.event = event => Entries(Append(t, e), event)[Count(t, event) + 1] = e
         /\ e.event # event => Entries(Append(t, e), event) = Entries(t, event)
<1> DEFINE a == Entries(t, event)
           b == Entries(Append(t, e), event)
<1>1. b = IF e.event = event THEN Append(a, e) ELSE a
  BY EntriesAppend
<1>2. IsSequence(a)
  BY EntriesIsSequence
<1> HIDE DEF a, b
<1>3. Len(a) \in Nat /\ Len(Append(a, e)) = Len(a) + 1 /\ Append(a, e)[Len(a) + 1] = e
  BY <1>2, AppendIsSequence
<1>4. QED
  BY <1>1, <1>3 DEF a, b, Count

LEMMA UnfinishedAppend ==
  ASSUME NEW t, IsSequence(t), Unfinished(t), NEW e, e.event # "run_completed"
  PROVE  Unfinished(Append(t, e))
<1> DEFINE w == Append(t, e)
<1>1. /\ DOMAIN t = 1..Len(t) /\ Len(t) \in Nat /\ DOMAIN w = 1..(Len(t) + 1)
      /\ \A i \in 1..Len(t) : w[i] = t[i]
      /\ w[Len(t) + 1] = e
  BY AppendIsSequence
<1> HIDE DEF w
<1>2. \A i \in 1..(Len(t) + 1) : i \in 1..Len(t) \/ i = Len(t) + 1
  BY <1>1
<1>3. Unfinished(w)
  BY <1>1, <1>2 DEF Unfinished
<1>4. QED
  BY <1>3 DEF w

LEMMA UnfinishedAudits ==
  ASSUME NEW t, IsSequence(t), Unfinished(t), NEW events, IsSequence(events)
  PROVE  Unfinished(t \o Audits(events))
<1> DEFINE a == Audits(events)
           w == t \o a
<1>1. IsSequence(a) /\ \A n \in DOMAIN a : a[n].event = "audit"
  BY AuditsIsSequence DEF Audits
<1> HIDE DEF a
<1>2. /\ DOMAIN w = 1..(Len(t) + Len(a)) /\ Len(t) \in Nat /\ Len(a) \in Nat
      /\ DOMAIN t = 1..Len(t) /\ DOMAIN a = 1..Len(a)
      /\ \A i \in 1..(Len(t) + Len(a)) : w[i] = IF i <= Len(t) THEN t[i] ELSE a[i - Len(t)]
  BY <1>1, ConcatParts, SequenceParts
<1> HIDE DEF w
<1>3. ASSUME NEW n \in DOMAIN w PROVE w[n].event # "run_completed"
  <2>1. CASE n <= Len(t)
    BY <1>2, <2>1 DEF Unfinished
  <2>2. CASE ~ (n <= Len(t))
    <3>1. n - Len(t) \in DOMAIN a /\ w[n] = a[n - Len(t)]
      BY <1>2, <2>2
    <3>2. QED
      BY <1>1, <3>1
  <2>3. QED
    BY <2>1, <2>2
<1>4. QED
  BY <1>3 DEF Unfinished, w, a

LEMMA SameReplay ==
  ASSUME NEW t, NEW u, \A event \in EffectEvents : Entries(u, event) = Entries(t, event),
         NEW c \in Nat
  PROVE  ReplayedTo(u, c) = ReplayedTo(t, c)
<1>1. \A n : SameEffect(u, t, n)
  BY DEF EffectEvents, SameEffect
<1>2. \A n \in 1..c : \A m : ReplayEffect(u, m, n) = ReplayEffect(t, m, n)
  BY <1>1, EffectAgrees
<1>3. QED
  BY <1>2, ReplayedAgree

LEMMA ReplayedAppend ==
  ASSUME NEW t, IsSequence(t), NEW e, NEW c \in Nat,
         \A event \in EffectEvents : c <= Count(t, event)
  PROVE  ReplayedTo(Append(t, e), c) = ReplayedTo(t, c)
<1> DEFINE one == <<e>>
<1>1. IsSequence(one) /\ Append(t, e) = t \o one
  BY SingletonIsSequence, AppendConcat
<1> HIDE DEF one
<1>2. ReplayedTo(t \o one, c) = ReplayedTo(t, c)
  BY <1>1, ReplayedGrows
<1>3. QED
  BY <1>1, <1>2

\* What governance evidence leaves as it is.
LEMMA AuditsKeep ==
  ASSUME NEW t, IsSequence(t), NEW events, IsSequence(events)
  PROVE  LET w == t \o Audits(events)
         IN  /\ IsSequence(w)
             /\ Entries(w, "audit") = Entries(t, "audit") \o Audits(events)
             /\ \A event \in EffectEvents : Entries(w, event) = Entries(t, event)
             /\ \A event \in EffectEvents : Count(w, event) = Count(t, event)
             /\ \A c \in Nat : ReplayedTo(w, c) = ReplayedTo(t, c)
             /\ Unfinished(t) => Unfinished(w)
<1> DEFINE w == t \o Audits(events)
<1>1. IsSequence(w)
  BY AuditsIsSequence, ConcatIsSequence
<1>2. \A event : Entries(w, event) = IF event = "audit" THEN Entries(t, event) \o Audits(events)
                                                        ELSE Entries(t, event)
  BY EntriesAudits
<1>3. Unfinished(t) => Unfinished(w)
  BY UnfinishedAudits
<1> HIDE DEF w
<1>4. \A event \in EffectEvents : Entries(w, event) = Entries(t, event)
  BY <1>2 DEF EffectEvents
<1>5. \A event \in EffectEvents : Count(w, event) = Count(t, event)
  BY <1>4 DEF Count
<1>6. \A c \in Nat : ReplayedTo(w, c) = ReplayedTo(t, c)
  BY <1>4, SameReplay
<1>7. QED
  BY <1>1, <1>2, <1>3, <1>4, <1>5, <1>6 DEF w

\* What an entry leaves as it is.
LEMMA AppendKeeps ==
  ASSUME NEW t, IsSequence(t), NEW e, e.event # "audit", e.event # "run_completed"
  PROVE  LET w == Append(t, e)
         IN  /\ IsSequence(w)
             /\ Entries(w, "audit") = Entries(t, "audit")
             /\ \A event \in EffectEvents :
                  IF e.event = event THEN Count(w, event) = Count(t, event) + 1
                                     ELSE Count(w, event) = Count(t, event)
             /\ \A event \in EffectEvents :
                  IF e.event = event THEN Entries(w, event)[Count(t, event) + 1] = e
                                     ELSE Entries(w, event) = Entries(t, event)
             /\ \A event \in EffectEvents :
                  \A n \in 1..Count(t, event) : Entries(w, event)[n] = Entries(t, event)[n]
             /\ \A c \in Nat : (\A event \in EffectEvents : c <= Count(t, event))
                                 => ReplayedTo(w, c) = ReplayedTo(t, c)
             /\ Unfinished(t) => Unfinished(w)
<1> DEFINE w == Append(t, e)
           one == <<e>>
<1>1. IsSequence(w)
  BY AppendIsSequence
<1>2. \A c \in Nat : (\A event \in EffectEvents : c <= Count(t, event))
                       => ReplayedTo(w, c) = ReplayedTo(t, c)
  BY ReplayedAppend
<1>3. \A event : IF e.event = event THEN Count(w, event) = Count(t, event) + 1
                                    ELSE Count(w, event) = Count(t, event)
  BY CountAppend
<1>4. \A event : IF e.event = event THEN Entries(w, event)[Count(t, event) + 1] = e
                                    ELSE Entries(w, event) = Entries(t, event)
  BY CountAppend
<1>5. \A event : \A n \in 1..Count(t, event) : Entries(w, event)[n] = Entries(t, event)[n]
  <2>1. IsSequence(one) /\ w = t \o one
    BY SingletonIsSequence, AppendConcat
  <2> HIDE DEF one, w
  <2>2. QED
    BY <2>1, EntriesGrow
<1>6. Unfinished(t) => Unfinished(w)
  BY UnfinishedAppend
<1> HIDE DEF w
<1>7. Entries(w, "audit") = Entries(t, "audit")
  BY <1>4
<1>8. QED
  BY <1>1, <1>2, <1>3, <1>4, <1>5, <1>6, <1>7 DEF w

LEMMA CountsAreNumbers ==
  ASSUME NEW t, IsSequence(t)
  PROVE  \A event : Count(t, event) \in Nat
BY EntriesIsSequence, SequenceParts DEF Count

\* The header of a trace has no entry of an effect, and no evidence.
LEMMA HeaderHasNone ==
  /\ IsSequence(Header)
  /\ \A n \in DOMAIN Header :
       Header[n].event \in {"run_header", "event_received", "fingerprints"}
  /\ \A event \in EffectEvents \cup {"audit"} : Entries(Header, event) = <<>>
<1> DEFINE t == Header
<1>1. IsSequence(t) /\ \A n \in DOMAIN t : t[n].event \in {"run_header", "event_received", "fingerprints"}
  <2> DEFINE S == {[event |-> "run_header"], [event |-> "event_received"], [event |-> "fingerprints"]}
  <2>1. t \in Seq(S) /\ Len(t) = 3
    BY DEF Header
  <2>2. t[1] \in S /\ t[2] \in S /\ t[3] \in S
    BY DEF Header
  <2>3. \A e \in S : e.event \in {"run_header", "event_received", "fingerprints"}
    OBVIOUS
  <2> HIDE DEF S, t
  <2>4. IsSequence(t) /\ DOMAIN t = 1..3
    BY <2>1, SeqOfRange, LenProperties DEF IsSequence
  <2>5. QED
    BY <2>2, <2>3, <2>4
<1> HIDE DEF t
<1>2. \A event \in EffectEvents \cup {"audit"} : Entries(t, event) = <<>>
  <2> TAKE event \in EffectEvents \cup {"audit"}
  <2>1. \A n \in 1..Len(t) : t[n].event # event
    BY <1>1, SequenceParts DEF EffectEvents
  <2>2. QED
    BY <1>1, <2>1, EntriesNone
<1>3. QED
  BY <1>1, <1>2 DEF t

LEMMA HeaderRunsOn ==
  ASSUME run \in Runs
  PROVE  IsMachine(NewMachine) /\ IsSequence(Header) /\ RunsOn(Header, NewMachine)
<1> DEFINE m == NewMachine
           t == Header
<1>1. /\ DOMAIN m = {"answers", "budget", "pending", "checkpoint"}
      /\ m.answers = <<>> /\ m.checkpoint = <<>>
  BY DEF NewMachine
<1>2. <<>> \in DOMAIN run.program
  BY RunsAssumption DEF IsProgram
<1>3. IsSequence(<<>>)
  BY EmptyIsSequence
<1> HIDE DEF m
<1>4. IsMachine(m)
  BY <1>1, <1>2, <1>3 DEF IsMachine
<1>5. /\ IsSequence(t)
      /\ \A n \in DOMAIN t : t[n].event \in {"run_header", "event_received", "fingerprints"}
      /\ \A event \in EffectEvents \cup {"audit"} : Entries(t, event) = <<>>
  BY HeaderHasNone
<1> HIDE DEF t
<1>6. \A event \in EffectEvents \cup {"audit"} : Entries(t, event) = <<>>
  BY <1>5
<1>7. \A event \in EffectEvents : Count(t, event) = 0
  BY <1>6, EmptyIsSequence DEF Count
<1>8. Tally(t, 0, 0, 0) /\ Count(t, "effect_resolved") = 0
  BY <1>7 DEF Tally, EffectEvents
<1>9. ReplayedTo(t, 0) = {m}
  BY ReplayedFirst DEF m
<1>10. Unfinished(t)
  BY <1>5 DEF Unfinished
<1>11. GeneratedAudit(m.answers) = Reaction(m).audit
  BY <1>1, AuditFirst DEF Reaction
<1>12. IsSequence(Reaction(m).audit)
  BY <1>4, ReactionsAreReactions DEF IsReaction
<1>13. Audible(m)
  BY <1>1, <1>3, <1>11, <1>12 DEF Audible
<1>14. Entries(t, "audit") \o Audits(Reaction(m).audit) = Audits(GeneratedAudit(m.answers))
  <2> DEFINE a == Audits(Reaction(m).audit)
  <2>1. IsSequence(a)
    BY <1>12, AuditsIsSequence
  <2> HIDE DEF a
  <2>2. <<>> \o a = a
    BY <2>1, ConcatEmpty
  <2>3. QED
    BY <1>6, <1>11, <2>2 DEF a
<1>15. Alike(m, m)
  BY DEF Alike
<1>16. RunsOn(t, m)
  BY <1>4, <1>8, <1>9, <1>10, <1>13, <1>14, <1>15 DEF RunsOn
<1>17. QED
  BY <1>4, <1>5, <1>16 DEF m, t

LEMMA PairIsConcat ==
  ASSUME NEW a, NEW b
  PROVE  <<a, b>> = <<a>> \o <<b>>
<1>1. <<a, b>> \in Seq({a, b}) /\ <<a>> \in Seq({a, b}) /\ <<b>> \in Seq({a, b})
  OBVIOUS
<1>2. <<a>> \o <<b>> \in Seq({a, b})
  BY <1>1
<1>3. Len(<<a, b>>) = 2 /\ Len(<<a>> \o <<b>>) = 2
  BY <1>1
<1>4. \A i \in 1..2 : <<a, b>>[i] = (<<a>> \o <<b>>)[i]
  BY <1>1
<1>5. QED
  BY <1>1, <1>2, <1>3, <1>4, SeqEqual

\* Two entries are appended one after the other.
LEMMA PairAppended ==
  ASSUME NEW w, IsSequence(w), NEW a, NEW b
  PROVE  w \o <<a, b>> = Append(Append(w, a), b)
<1> DEFINE one == <<a>>
           two == <<b>>
           both == <<a, b>>
           v == Append(w, a)
<1>1. both = one \o two
  BY PairIsConcat
<1>2. v = w \o one
  BY AppendConcat
<1>3. IsSequence(v) /\ IsSequence(one) /\ IsSequence(two)
  BY SingletonIsSequence, AppendIsSequence
<1>4. Append(v, b) = v \o two
  BY <1>3, AppendConcat
<1> HIDE DEF one, two, both, v
<1>5. (w \o one) \o two = w \o (one \o two)
  BY <1>3, ConcatAssoc
<1>6. w \o both = Append(v, b)
  BY <1>1, <1>2, <1>4, <1>5
<1>7. QED
  BY <1>6 DEF both, v

\* The evidence of the last reaction comes to the trace.
LEMMA AuditReachesTrace ==
  ASSUME run \in Runs, NEW t, IsSequence(t), NEW m, IsMachine(m), RunsOn(t, m)
  PROVE  LET w == t \o Audits(Reaction(m).audit)
             c == Count(w, "effect_resolved")
         IN  /\ IsSequence(w) /\ Unfinished(w) /\ Audible(m) /\ Heard(w, m)
             /\ Tally(w, c, c, c) /\ c \in Nat
             /\ \E r \in ReplayedTo(w, c) : IsMachine(r) /\ Alike(r, m)
<1> DEFINE events == Reaction(m).audit
           w == t \o Audits(events)
           c == Count(t, "effect_resolved")
<1>1. IsSequence(events)
  BY ReactionsAreReactions DEF IsReaction
<1>2. Entries(t, "audit") \o Audits(events) = Audits(GeneratedAudit(m.answers))
  BY DEF RunsOn
<1> HIDE DEF events
<1>3. /\ IsSequence(w)
      /\ Entries(w, "audit") = Entries(t, "audit") \o Audits(events)
      /\ \A event \in EffectEvents : Count(w, event) = Count(t, event)
      /\ \A k \in Nat : ReplayedTo(w, k) = ReplayedTo(t, k)
      /\ Unfinished(t) => Unfinished(w)
  BY <1>1, AuditsKeep
<1> HIDE DEF w
<1>4. c \in Nat
  BY CountsAreNumbers
<1>5. Unfinished(t) /\ Audible(m) /\ Tally(t, c, c, c)
  BY DEF RunsOn
<1>6. Count(w, "effect_resolved") = c /\ Tally(w, c, c, c)
  BY <1>3, <1>5 DEF Tally, EffectEvents
<1>7. \E r \in ReplayedTo(t, c) : IsMachine(r) /\ Alike(r, m)
  BY DEF RunsOn
<1>8. \E r \in ReplayedTo(w, c) : IsMachine(r) /\ Alike(r, m)
  BY <1>3, <1>4, <1>7
<1>9. Heard(w, m)
  BY <1>2, <1>3 DEF Heard
<1> HIDE DEF c
<1>10. QED
  BY <1>3, <1>4, <1>5, <1>6, <1>8, <1>9 DEF w, events

\* The machine yields and its request is recorded.
LEMMA RequestRecorded ==
  ASSUME run \in Runs, NEW t, IsSequence(t), NEW m, IsMachine(m), RunsOn(t, m), CanYield(m)
  PROVE  Asks(Append(t \o Audits(Reaction(m).audit), Requested(Yielded(m))), Yielded(m))
<1> DEFINE w == t \o Audits(Reaction(m).audit)
           y == Yielded(m)
           e == Requested(y)
           u == Append(w, e)
           c == Count(w, "effect_resolved")
<1>1. /\ IsSequence(w) /\ Unfinished(w) /\ Audible(m) /\ Heard(w, m)
      /\ Tally(w, c, c, c) /\ c \in Nat
      /\ \E r \in ReplayedTo(w, c) : IsMachine(r) /\ Alike(r, m)
  BY AuditReachesTrace
<1>2. y.answers = m.answers
  BY YieldedParts
<1> HIDE DEF w, y
<1>3. e.event = "effect_requested"
  BY DEF Requested
<1> HIDE DEF e
<1>4. /\ IsSequence(u)
      /\ Entries(u, "audit") = Entries(w, "audit")
      /\ \A event \in EffectEvents :
           IF e.event = event THEN Count(u, event) = Count(w, event) + 1
                              ELSE Count(u, event) = Count(w, event)
      /\ \A event \in EffectEvents :
           IF e.event = event THEN Entries(u, event)[Count(w, event) + 1] = e
                              ELSE Entries(u, event) = Entries(w, event)
      /\ \A k \in Nat : (\A event \in EffectEvents : k <= Count(w, event))
                          => ReplayedTo(u, k) = ReplayedTo(w, k)
      /\ Unfinished(w) => Unfinished(u)
  BY <1>1, <1>3, AppendKeeps
<1> HIDE DEF u
<1>5. Count(w, "effect_requested") = c /\ \A event \in EffectEvents : c <= Count(w, event)
  BY <1>1 DEF Tally, EffectEvents
<1>6. Count(u, "effect_resolved") = c /\ Tally(u, c + 1, c, c)
  BY <1>1, <1>3, <1>4 DEF Tally, EffectEvents
<1>7. Entries(u, "effect_requested")[c + 1] = Requested(y)
  BY <1>3, <1>4, <1>5 DEF EffectEvents, e
<1>8. PICK r \in ReplayedTo(w, c) : IsMachine(r) /\ Alike(r, m)
  BY <1>1
<1>9. r \in ReplayedTo(u, c)
  BY <1>1, <1>4, <1>5
<1>10. CanYield(r) /\ Alike(Yielded(r), y)
  BY <1>8, AlikeYields DEF y
<1>11. Audible(y) /\ Heard(u, y)
  BY <1>1, <1>2, <1>4 DEF Audible, Heard
<1> HIDE DEF c
<1>12. Asks(u, y)
  BY <1>1, <1>4, <1>6, <1>7, <1>8, <1>9, <1>10, <1>11 DEF Asks
<1>13. QED
  BY <1>12 DEF u, e, w, y

\* The machine completes and its outcome is recorded: the trace replays.
LEMMA OutcomeRecorded ==
  ASSUME run \in Runs, NEW t, IsSequence(t), NEW m, IsMachine(m), RunsOn(t, m),
         Reaction(m).step = "completed"
  PROVE  LET outcome == Reaction(m).outcome
             u == t \o Audits(Reaction(m).audit) \o <<StateCommitted(outcome), RunCompleted(outcome)>>
         IN  IsSequence(u) /\ Last(u) = RunCompleted(outcome) /\ Replays(u)
<1> DEFINE outcome == Reaction(m).outcome
           w == t \o Audits(Reaction(m).audit)
           state == StateCommitted(outcome)
           done == RunCompleted(outcome)
           v == Append(w, state)
           u == Append(v, done)
           c == Count(w, "effect_resolved")
<1>1. /\ IsSequence(w) /\ Unfinished(w) /\ Audible(m) /\ Heard(w, m)
      /\ Tally(w, c, c, c) /\ c \in Nat
      /\ \E r \in ReplayedTo(w, c) : IsMachine(r) /\ Alike(r, m)
  BY AuditReachesTrace
<1> HIDE DEF w
<1>2. state.event = "state_committed" /\ done.event = "run_completed"
  BY DEF StateCommitted, RunCompleted
<1>3. w \o <<state, done>> = u
  BY <1>1, PairAppended
<1> HIDE DEF state, done
<1>4. /\ IsSequence(v) /\ DOMAIN v = 1..Len(v) /\ Len(v) \in Nat /\ Unfinished(v)
  BY <1>1, <1>2, AppendIsSequence, UnfinishedAppend, SequenceParts
<1>5. \A event \in EffectEvents \cup {"audit"} : Entries(v, event) = Entries(w, event)
  <2> TAKE event \in EffectEvents \cup {"audit"}
  <2>1. state.event # event
    BY <1>2 DEF EffectEvents
  <2>2. QED
    BY <1>1, <2>1, CountAppend
<1> HIDE DEF v
<1>6. \A event \in EffectEvents \cup {"audit"} : Entries(u, event) = Entries(v, event)
  <2> TAKE event \in EffectEvents \cup {"audit"}
  <2>1. done.event # event
    BY <1>2 DEF EffectEvents
  <2>2. QED
    BY <1>4, <2>1, CountAppend
<1>7. /\ IsSequence(u) /\ Len(u) = Len(v) + 1 /\ DOMAIN u = 1..(Len(v) + 1)
      /\ \A i \in 1..Len(v) : u[i] = v[i]
      /\ u[Len(v) + 1] = done
  BY <1>4, AppendIsSequence
<1> HIDE DEF u
<1>8. \A event \in EffectEvents \cup {"audit"} : Entries(u, event) = Entries(w, event)
  BY <1>5, <1>6
<1>9. /\ Count(u, "effect_requested") = c /\ Count(u, "budget_reserved") = c
      /\ Count(u, "effect_resolved") = c /\ Count(u, "budget_settled") = c
  BY <1>1, <1>8 DEF Tally, Count, EffectEvents
<1>10. PICK r \in ReplayedTo(w, c) : IsMachine(r) /\ Alike(r, m)
  BY <1>1
<1>11. r \in ReplayedTo(u, c)
  <2>1. ReplayedTo(u, c) = ReplayedTo(w, c)
    BY <1>1, <1>8, SameReplay
  <2>2. QED
    BY <1>10, <2>1
<1>12. Reaction(r) = Reaction(m) /\ r.answers = m.answers
  BY <1>10, AlikeYields DEF Alike
<1>13. Entries(u, "audit") = Audits(GeneratedAudit(r.answers))
  BY <1>1, <1>8, <1>12 DEF Heard
<1> DEFINE completions == {n \in DOMAIN u : u[n].event = "run_completed"}
<1>14. completions = {Len(u)} /\ u[Len(u)] = done
  BY <1>2, <1>4, <1>7 DEF Unfinished
<1>15. \E first \in completions :
         /\ \A n \in completions : first <= n
         /\ u[first] = RunCompleted(Reaction(r).outcome)
  BY <1>4, <1>7, <1>12, <1>14 DEF done
<1> HIDE DEF c, completions
<1>16. Replays(u)
  BY <1>9, <1>11, <1>12, <1>13, <1>15 DEF Replays, completions
<1>17. Last(u) = done
  BY <1>7 DEF Last
<1>18. QED
  BY <1>3, <1>7, <1>16, <1>17 DEF w, state, done

\* The usage is reserved, its evidence recorded, and the machine sealed.
LEMMA ReservationRecorded ==
  ASSUME run \in Runs, NEW t, IsSequence(t), NEW m, IsSuspended(m), Asks(t, m),
         NEW maximums, CanReserveUsage(m, maximums)
  PROVE  LET reserved == UsageReserved(m, maximums)
             evidence == Append(t, ReservedEvidence(reserved))
         IN  Described([reserved EXCEPT !.checkpoint = evidence])
<1> DEFINE u == UsageReserved(m, maximums)
           e == ReservedEvidence(u)
           w == Append(t, e)
           sealed == [u EXCEPT !.checkpoint = w]
           c == Count(t, "effect_resolved")
           a == Admitted(u)
<1>1. c \in Nat
  BY CountsAreNumbers
<1>2. /\ Unfinished(t) /\ Audible(m) /\ Heard(t, m) /\ Tally(t, c + 1, c, c)
      /\ Entries(t, "effect_requested")[c + 1] = Requested(m)
      /\ \E r \in ReplayedTo(t, c) : IsMachine(r) /\ CanYield(r) /\ Alike(Yielded(r), m)
  BY DEF Asks
<1>3. PICK r \in ReplayedTo(t, c) : IsMachine(r) /\ CanYield(r) /\ Alike(Yielded(r), m)
  BY <1>2
<1>4. IsSuspended(Yielded(r)) /\ UsageHeld(Yielded(r)) = {}
  BY <1>3, YieldedParts
<1>5. UsageHeld(m) = {}
  BY <1>3, <1>4, AlikeEvidence
<1>6. DOMAIN a = DOMAIN maximums /\ \A d \in DOMAIN maximums : a[d] = maximums[d]
  BY <1>5, AdmittedIsDeclared
<1>7. CanReserveUsage(m, a) /\ UsageReserved(m, a) = u
  <2> HIDE DEF a
  <2>1. QED
    BY <1>6, SameDeclaration
<1>8. CanReserveUsage(Yielded(r), a) /\ Alike(UsageReserved(Yielded(r), a), u)
  <2> HIDE DEF a, u
  <2>1. QED
    BY <1>3, <1>4, <1>7, AlikeReserves
<1>9. /\ DOMAIN u = {"answers", "budget", "pending", "checkpoint"} /\ u.answers = m.answers
      /\ u.pending.request = m.pending.request
  BY ReservedParts, UsageReservedIsSuspended
<1>10. Requested(u) = Requested(m)
  BY <1>9 DEF Requested
<1>11. e.event = "budget_reserved"
  BY DEF ReservedEvidence
<1> HIDE DEF u
<1>12. /\ sealed = [answers |-> u.answers, budget |-> u.budget, pending |-> u.pending,
                    checkpoint |-> w]
       /\ Alike(u, sealed) /\ sealed.answers = u.answers /\ sealed.checkpoint = w
  <2> HIDE DEF w
  <2>1. sealed = [answers |-> u.answers, budget |-> u.budget, pending |-> u.pending,
                  checkpoint |-> w]
    BY <1>9
  <2>2. QED
    BY <2>1 DEF Alike
<1> HIDE DEF sealed
<1>13. /\ Requested(sealed) = Requested(u) /\ Admitted(sealed) = a
       /\ ReservedEvidence(sealed) = e
  BY <1>12, AlikeEvidence
<1> HIDE DEF e, a
<1>14. /\ IsSequence(w)
       /\ Entries(w, "audit") = Entries(t, "audit")
       /\ \A event \in EffectEvents :
            IF e.event = event THEN Count(w, event) = Count(t, event) + 1
                               ELSE Count(w, event) = Count(t, event)
       /\ \A event \in EffectEvents :
            IF e.event = event THEN Entries(w, event)[Count(t, event) + 1] = e
                               ELSE Entries(w, event) = Entries(t, event)
       /\ \A k \in Nat : (\A event \in EffectEvents : k <= Count(t, event))
                           => ReplayedTo(w, k) = ReplayedTo(t, k)
       /\ Unfinished(t) => Unfinished(w)
  BY <1>11, AppendKeeps
<1>15. Len(w) > 0 /\ Last(w) = e
  BY AppendIsSequence DEF Last
<1> HIDE DEF w
<1>16. Count(t, "budget_reserved") = c /\ \A event \in EffectEvents : c <= Count(t, event)
  BY <1>1, <1>2 DEF Tally, EffectEvents
<1>17. Count(w, "effect_resolved") = c /\ Tally(w, c + 1, c + 1, c)
  BY <1>1, <1>2, <1>11, <1>14 DEF Tally, EffectEvents
<1>18. Entries(w, "effect_requested")[c + 1] = Requested(sealed)
  BY <1>2, <1>10, <1>11, <1>13, <1>14 DEF EffectEvents
<1>19. Entries(w, "budget_reserved")[c + 1] = ReservedEvidence(sealed)
  BY <1>11, <1>13, <1>14, <1>16 DEF EffectEvents
<1>20. r \in ReplayedTo(w, c)
  BY <1>1, <1>14, <1>16
<1>21. Alike(UsageReserved(Yielded(r), a), sealed)
  BY <1>8, <1>12 DEF Alike
<1>22. Audible(sealed) /\ Heard(w, sealed)
  BY <1>2, <1>9, <1>12, <1>14 DEF Audible, Heard
<1> HIDE DEF c
<1>23. Waits(w, sealed)
  BY <1>2, <1>3, <1>8, <1>13, <1>14, <1>17, <1>18, <1>19, <1>20, <1>21, <1>22 DEF Waits
<1>24. Described(sealed)
  <2>1. sealed = [answers |-> sealed.answers, budget |-> sealed.budget,
                  pending |-> sealed.pending, checkpoint |-> w]
    BY <1>12
  <2>2. QED
    BY <1>12, <1>13, <1>15, <1>23, <2>1 DEF Described
<1>25. QED
  BY <1>24 DEF sealed, w, e, u

\* Recording that a snapshot was written says nothing of the machine.
LEMMA SnapshotRecorded ==
  ASSUME NEW t, IsSequence(t), NEW m, Waits(t, m)
  PROVE  Waits(Append(t, SnapshotWritten), m)
<1> DEFINE e == SnapshotWritten
           w == Append(t, e)
           c == Count(t, "effect_resolved")
<1>1. c \in Nat
  BY CountsAreNumbers
<1>2. /\ Unfinished(t) /\ Audible(m) /\ Heard(t, m) /\ Tally(t, c + 1, c + 1, c)
      /\ Entries(t, "effect_requested")[c + 1] = Requested(m)
      /\ Entries(t, "budget_reserved")[c + 1] = ReservedEvidence(m)
      /\ \E r \in ReplayedTo(t, c) :
           /\ IsMachine(r) /\ CanYield(r) /\ CanReserveUsage(Yielded(r), Admitted(m))
           /\ Alike(UsageReserved(Yielded(r), Admitted(m)), m)
  BY DEF Waits
<1>3. e.event = "snapshot_written"
  BY DEF SnapshotWritten
<1> HIDE DEF e
<1>4. /\ Entries(w, "audit") = Entries(t, "audit")
      /\ \A event \in EffectEvents : Count(w, event) = Count(t, event)
      /\ \A event \in EffectEvents : Entries(w, event) = Entries(t, event)
      /\ \A k \in Nat : (\A event \in EffectEvents : k <= Count(t, event))
                          => ReplayedTo(w, k) = ReplayedTo(t, k)
      /\ Unfinished(t) => Unfinished(w)
  <2>1. \A event \in EffectEvents : e.event # event
    BY <1>3 DEF EffectEvents
  <2>2. e.event # "audit" /\ e.event # "run_completed"
    BY <1>3
  <2>3. /\ Entries(w, "audit") = Entries(t, "audit")
        /\ \A event \in EffectEvents :
             IF e.event = event THEN Count(w, event) = Count(t, event) + 1
                                ELSE Count(w, event) = Count(t, event)
        /\ \A event \in EffectEvents :
             IF e.event = event THEN Entries(w, event)[Count(t, event) + 1] = e
                                ELSE Entries(w, event) = Entries(t, event)
        /\ \A k \in Nat : (\A event \in EffectEvents : k <= Count(t, event))
                            => ReplayedTo(w, k) = ReplayedTo(t, k)
        /\ Unfinished(t) => Unfinished(w)
    BY <2>2, AppendKeeps
  <2> HIDE DEF w
  <2>4. QED
    BY <2>1, <2>3
<1> HIDE DEF w
<1>5. \A event \in EffectEvents : c <= Count(t, event)
  BY <1>1, <1>2 DEF Tally, EffectEvents
<1>6. Count(w, "effect_resolved") = c /\ Tally(w, c + 1, c + 1, c)
  BY <1>2, <1>4 DEF Tally, EffectEvents
<1>7. /\ Entries(w, "effect_requested") = Entries(t, "effect_requested")
      /\ Entries(w, "budget_reserved") = Entries(t, "budget_reserved")
  BY <1>4 DEF EffectEvents
<1>8. ReplayedTo(w, c) = ReplayedTo(t, c)
  BY <1>1, <1>4, <1>5
<1>9. Heard(w, m)
  BY <1>2, <1>4 DEF Heard
<1> HIDE DEF c
<1>10. Waits(w, m)
  BY <1>2, <1>4, <1>6, <1>7, <1>8, <1>9 DEF Waits
<1>11. QED
  BY <1>10 DEF w, e

\* The effect is resolved and settled: the machine runs on.
LEMMA ResolutionRecorded ==
  ASSUME run \in Runs, NEW t, IsSequence(t), NEW m, IsSuspended(m), Waits(t, m),
         NEW payload, NEW usage, AcceptsAnswer(m, payload, usage)
  PROVE  LET supplied == Supplied(m, payload, usage)
         IN  RunsOn(Append(Append(t, ResolvedEvidence(m, payload, usage))
                             \o Audits(Reaction(supplied).decoded),
                           SettledEvidence(Admitted(m), usage, supplied.budget)), supplied)
<1> DEFINE s == Supplied(m, payload, usage)
           events == Reaction(s).decoded
           a == Admitted(m)
           e == ResolvedEvidence(m, payload, usage)
           f == SettledEvidence(a, usage, s.budget)
           t1 == Append(t, e)
           t2 == t1 \o Audits(events)
           t3 == Append(t2, f)
           c == Count(t, "effect_resolved")
<1>1. c \in Nat
  BY CountsAreNumbers
<1>2. /\ Unfinished(t) /\ Audible(m) /\ Heard(t, m) /\ Tally(t, c + 1, c + 1, c)
      /\ Entries(t, "effect_requested")[c + 1] = Requested(m)
      /\ Entries(t, "budget_reserved")[c + 1] = ReservedEvidence(m)
      /\ \E r \in ReplayedTo(t, c) :
           /\ IsMachine(r) /\ CanYield(r) /\ CanReserveUsage(Yielded(r), a)
           /\ Alike(UsageReserved(Yielded(r), a), m)
  BY DEF Waits
<1>3. PICK r \in ReplayedTo(t, c) :
           /\ IsMachine(r) /\ CanYield(r) /\ CanReserveUsage(Yielded(r), a)
           /\ Alike(UsageReserved(Yielded(r), a), m)
  BY <1>2
<1>4. IsMachine(s) /\ s.answers = Append(m.answers, payload)
  BY SuppliedIsMachine
<1>5. IsReaction(Reaction(s))
  BY <1>4, ReactionsAreReactions
<1>6. IsSequence(events) /\ IsSequence(Reaction(s).audit)
  BY <1>5 DEF IsReaction
<1>7. e.event = "effect_resolved" /\ f.event = "budget_settled"
  BY DEF ResolvedEvidence, SettledEvidence
<1> DEFINE u == UsageReserved(Yielded(r), a)
           v == Supplied(u, payload, usage)
<1>8. IsSuspended(u)
  BY <1>3, YieldedParts, UsageReservedIsSuspended
<1>9. Alike(u, m)
  BY <1>3
<1> HIDE DEF u
<1>10. AcceptsAnswer(u, payload, usage) /\ Alike(v, s)
  BY <1>8, <1>9, AlikeSupplied
<1>11. Requested(u) = Requested(m) /\ ReservedEvidence(u) = ReservedEvidence(m) /\ Admitted(u) = a
  BY <1>9, AlikeEvidence
<1>12. ResolvedEvidence(u, payload, usage) = e
  BY <1>9 DEF ResolvedEvidence, Alike
<1>13. SettledEvidence(Admitted(u), usage, v.budget) = f
  BY <1>10, <1>11 DEF Alike
<1>14. IsMachine(v)
  BY <1>8, <1>10, SuppliedIsMachine
<1> HIDE DEF s, events, e, f, v, a
<1>15. /\ IsSequence(t1)
       /\ Entries(t1, "audit") = Entries(t, "audit")
       /\ \A event \in EffectEvents :
            IF e.event = event THEN Count(t1, event) = Count(t, event) + 1
                               ELSE Count(t1, event) = Count(t, event)
       /\ \A event \in EffectEvents :
            IF e.event = event THEN Entries(t1, event)[Count(t, event) + 1] = e
                               ELSE Entries(t1, event) = Entries(t, event)
       /\ \A k \in Nat : (\A event \in EffectEvents : k <= Count(t, event))
                           => ReplayedTo(t1, k) = ReplayedTo(t, k)
       /\ Unfinished(t) => Unfinished(t1)
  BY <1>7, AppendKeeps
<1> HIDE DEF t1
<1>16. /\ IsSequence(t2)
       /\ Entries(t2, "audit") = Entries(t1, "audit") \o Audits(events)
       /\ \A event \in EffectEvents : Entries(t2, event) = Entries(t1, event)
       /\ \A event \in EffectEvents : Count(t2, event) = Count(t1, event)
       /\ \A k \in Nat : ReplayedTo(t2, k) = ReplayedTo(t1, k)
       /\ Unfinished(t1) => Unfinished(t2)
  BY <1>6, <1>15, AuditsKeep
<1> HIDE DEF t2
<1>17. /\ IsSequence(t3)
       /\ Entries(t3, "audit") = Entries(t2, "audit")
       /\ \A event \in EffectEvents :
            IF f.event = event THEN Count(t3, event) = Count(t2, event) + 1
                               ELSE Count(t3, event) = Count(t2, event)
       /\ \A event \in EffectEvents :
            IF f.event = event THEN Entries(t3, event)[Count(t2, event) + 1] = f
                               ELSE Entries(t3, event) = Entries(t2, event)
       /\ \A k \in Nat : (\A event \in EffectEvents : k <= Count(t2, event))
                           => ReplayedTo(t3, k) = ReplayedTo(t2, k)
       /\ Unfinished(t2) => Unfinished(t3)
  BY <1>7, <1>16, AppendKeeps
<1> HIDE DEF t3
<1>18. /\ Count(t, "effect_requested") = c + 1 /\ Count(t, "budget_reserved") = c + 1
       /\ Count(t, "budget_settled") = c /\ \A event \in EffectEvents : c <= Count(t, event)
  BY <1>1, <1>2 DEF Tally, EffectEvents
<1>19. /\ Count(t2, "effect_requested") = c + 1 /\ Count(t2, "budget_reserved") = c + 1
       /\ Count(t2, "effect_resolved") = c + 1 /\ Count(t2, "budget_settled") = c
       /\ \A event \in EffectEvents : c <= Count(t2, event)
  BY <1>1, <1>7, <1>15, <1>16, <1>18 DEF EffectEvents
<1>20. Count(t3, "effect_resolved") = c + 1 /\ Tally(t3, c + 1, c + 1, c + 1)
  BY <1>7, <1>17, <1>19 DEF Tally, EffectEvents
<1>21. ReplayedTo(t3, c) = ReplayedTo(t, c)
  BY <1>1, <1>15, <1>16, <1>17, <1>18, <1>19
<1>22. /\ Entries(t3, "effect_requested")[c + 1] = Requested(u)
       /\ Entries(t3, "budget_reserved")[c + 1] = ReservedEvidence(u)
  BY <1>2, <1>7, <1>11, <1>15, <1>16, <1>17 DEF EffectEvents
<1>23. Entries(t3, "effect_resolved")[c + 1] = ResolvedEvidence(u, payload, usage)
  BY <1>7, <1>12, <1>15, <1>16, <1>17 DEF EffectEvents
<1>24. Entries(t3, "budget_settled")[c + 1] = SettledEvidence(Admitted(u), usage, v.budget)
  BY <1>7, <1>13, <1>17, <1>19 DEF EffectEvents
<1>25. ReplayEffect(t3, r, c + 1) = {v}
  BY <1>3, <1>10, <1>22, <1>23, <1>24, EffectReplays DEF u, v
<1>26. v \in ReplayedTo(t3, c + 1)
  <2>1. ReplayedTo(t3, c + 1) = UNION {ReplayEffect(t3, x, c + 1) : x \in ReplayedTo(t3, c)}
    BY <1>1, ReplayedNext
  <2>2. r \in ReplayedTo(t3, c)
    BY <1>3, <1>21
  <2>3. QED
    BY <1>25, <2>1, <2>2
<1> DEFINE next == Append(m.answers, payload)
           audit == Reaction(s).audit
           before == GeneratedAudit(m.answers)
<1>27. /\ IsSequence(next) /\ IsSequence(before) /\ Reaction(s) = run.program[next]
       /\ IsSequence(m.answers)
  BY <1>2, <1>4, AppendIsSequence DEF Audible, Reaction
<1>28. GeneratedAudit(next) = before \o events \o audit
  BY <1>27, AuditNext DEF events
<1>29. Entries(t, "audit") = Audits(before)
  BY <1>2 DEF Heard
<1> HIDE DEF next, before, audit
<1>30. IsSequence(audit)
  BY <1>6 DEF audit
<1>31. IsSequence(before \o events) /\ IsSequence((before \o events) \o audit)
  BY <1>6, <1>27, <1>30, ConcatIsSequence
<1>32. Audits((before \o events) \o audit) = Audits(before \o events) \o Audits(audit)
  <2> DEFINE x == before \o events
  <2>1. IsSequence(x)
    BY <1>31
  <2> HIDE DEF x
  <2>2. Audits(x \o audit) = Audits(x) \o Audits(audit)
    BY <1>30, <2>1, AuditsConcat
  <2>3. QED
    BY <2>2 DEF x
<1>33. Audits(before \o events) = Audits(before) \o Audits(events)
  BY <1>6, <1>27, AuditsConcat
<1>34. Entries(t3, "audit") = Audits(before) \o Audits(events)
  BY <1>15, <1>16, <1>17, <1>29
<1>35. Entries(t3, "audit") \o Audits(Reaction(s).audit) = Audits(GeneratedAudit(s.answers))
  BY <1>4, <1>28, <1>32, <1>33, <1>34 DEF next, audit
<1>36. Audible(s)
  BY <1>4, <1>27, <1>28, <1>31 DEF Audible, next
<1>37. Unfinished(t3)
  BY <1>2, <1>15, <1>16, <1>17
<1> HIDE DEF c
<1>38. RunsOn(t3, s)
  BY <1>10, <1>14, <1>20, <1>26, <1>35, <1>36, <1>37 DEF RunsOn
<1>39. QED
  BY <1>38 DEF t3, t2, t1, e, f, events, s, a

(* Sessions whose trace tells their run *)

SnapshotsTold(snapshots, trace) ==
  \A n \in DOMAIN snapshots :
    Described(snapshots[n]) /\ IsPrefix(snapshots[n].checkpoint, trace)

Faithful(s) ==
  /\ SnapshotsTold(s.snapshots, s.trace)
  /\ s.phase = "completed" => Replays(s.trace) /\ Last(s.trace) = RunCompleted(s.outcome)
  /\ ~s.error => /\ s.phase = "running" => RunsOn(s.trace, s.machine)
                 /\ s.phase = "awaiting_admission" => Asks(s.trace, s.machine)
                 /\ s.phase = "awaiting_resolution" => Waits(s.trace, s.machine)

\* What a snapshot resumes is what the trace up to its checkpoint describes.
LEMMA DescribedResumes ==
  ASSUME run \in Runs, NEW snapshot, IsSuspended(snapshot), Described(snapshot)
  PROVE  LET prefix == snapshot.checkpoint
         IN  \E replayed \in ReplayedTo(prefix, Count(prefix, "budget_settled")) :
               snapshot = [UsageReserved(Yielded(replayed), Last(prefix).maximums)
                             EXCEPT !.checkpoint = prefix]
<1> DEFINE prefix == snapshot.checkpoint
           c == Count(prefix, "effect_resolved")
           a == Admitted(snapshot)
<1>1. Waits(prefix, snapshot) /\ Last(prefix) = ReservedEvidence(snapshot)
  BY DEF Described
<1>2. snapshot = [answers |-> snapshot.answers, budget |-> snapshot.budget,
                  pending |-> snapshot.pending, checkpoint |-> prefix]
  BY DEF Described
<1>3. Last(prefix).maximums = a
  BY <1>1 DEF ReservedEvidence
<1>4. Count(prefix, "budget_settled") = c
  BY <1>1 DEF Waits, Tally
<1>5. \E r \in ReplayedTo(prefix, c) : IsMachine(r) /\ CanYield(r) /\ Alike(UsageReserved(Yielded(r), a), snapshot)
  BY <1>1 DEF Waits
<1>6. PICK r \in ReplayedTo(prefix, c) : IsMachine(r) /\ CanYield(r) /\ Alike(UsageReserved(Yielded(r), a), snapshot)
  BY <1>5
<1> DEFINE u == UsageReserved(Yielded(r), a)
<1>7. DOMAIN u = {"answers", "budget", "pending", "checkpoint"}
  BY <1>6, YieldedParts, ReservedParts
<1>8. Alike(u, snapshot)
  BY <1>6
<1> HIDE DEF u, prefix
<1>9. [u EXCEPT !.checkpoint = prefix]
        = [answers |-> u.answers, budget |-> u.budget, pending |-> u.pending, checkpoint |-> prefix]
  BY <1>7
<1>10. snapshot = [u EXCEPT !.checkpoint = prefix]
  BY <1>2, <1>8, <1>9 DEF Alike
<1> HIDE DEF c, a
<1>11. r \in ReplayedTo(prefix, Count(prefix, "budget_settled"))
       /\ snapshot = [UsageReserved(Yielded(r), Last(prefix).maximums) EXCEPT !.checkpoint = prefix]
  BY <1>3, <1>4, <1>6, <1>10 DEF u
<1>12. QED
  BY <1>11 DEF prefix

LEMMA SnapshotsToldConcat ==
  ASSUME NEW snapshots, \A n \in DOMAIN snapshots : IsSuspended(snapshots[n]),
         NEW t, IsSequence(t), SnapshotsTold(snapshots, t), NEW u, IsSequence(u)
  PROVE  SnapshotsTold(snapshots, t \o u)
<1>1. ASSUME NEW n \in DOMAIN snapshots
      PROVE  Described(snapshots[n]) /\ IsPrefix(snapshots[n].checkpoint, t \o u)
  <2> DEFINE p == snapshots[n].checkpoint
  <2>1. IsSequence(p)
    BY DEF IsSuspended, IsMachine
  <2>2. Described(snapshots[n]) /\ IsPrefix(p, t)
    BY DEF SnapshotsTold
  <2> HIDE DEF p
  <2>3. IsPrefix(p, t \o u)
    BY <2>1, <2>2, PrefixOfMore
  <2>4. QED
    BY <2>2, <2>3 DEF p
<1>2. QED
  BY <1>1 DEF SnapshotsTold

LEMMA SnapshotsToldAppend ==
  ASSUME NEW snapshots, \A n \in DOMAIN snapshots : IsSuspended(snapshots[n]),
         NEW t, IsSequence(t), SnapshotsTold(snapshots, t), NEW e
  PROVE  SnapshotsTold(snapshots, Append(t, e))
<1> DEFINE one == <<e>>
<1>1. IsSequence(one) /\ Append(t, e) = t \o one
  BY SingletonIsSequence, AppendConcat
<1> HIDE DEF one
<1>2. QED
  BY <1>1, SnapshotsToldConcat

LEMMA StartedIsFaithful ==
  ASSUME run \in Runs
  PROVE  IsSession(Started) /\ Faithful(Started)
<1>1. IsMachine(NewMachine) /\ IsSequence(Header) /\ RunsOn(Header, NewMachine)
  BY HeaderRunsOn
<1> DEFINE s == Started
           empty == <<>>
<1>2. s = [machine |-> NewMachine, trace |-> Header, snapshots |-> empty,
           phase |-> "running", outcome |-> None, error |-> FALSE]
  BY DEF Started
<1>3. IsSequence(empty) /\ DOMAIN empty = {}
  BY EmptyIsSequence
<1> HIDE DEF s, empty
<1>4. IsSession(s)
  BY <1>1, <1>2, <1>3 DEF IsSession, Waiting
<1>5. Faithful(s)
  BY <1>1, <1>2, <1>3 DEF Faithful, SnapshotsTold
<1>6. QED
  BY <1>4, <1>5 DEF s

LEMMA RefusedIsFaithful ==
  ASSUME NEW s, IsSession(s), Faithful(s)
  PROVE  Faithful(Refused(s))
<1> DEFINE r == Refused(s)
<1>1. r = [s EXCEPT !.error = TRUE]
  BY DEF Refused
<1> HIDE DEF r
<1>2. /\ r.trace = s.trace /\ r.phase = s.phase /\ r.snapshots = s.snapshots /\ r.error = TRUE
      /\ r.outcome = s.outcome
  BY <1>1 DEF IsSession
<1>3. Faithful(r)
  BY <1>2 DEF Faithful
<1>4. QED
  BY <1>3 DEF r

LEMMA FailIsFaithful ==
  ASSUME NEW s, IsSession(s), Faithful(s)
  PROVE  Faithful(Fail(s))
<1> DEFINE t == Append(s.trace, RunFailed)
           f == Fail(s)
<1>1. f = [s EXCEPT !.trace = t, !.phase = "failed", !.error = FALSE]
  BY DEF Fail
<1>2. SnapshotsTold(s.snapshots, t)
  BY SnapshotsToldAppend DEF IsSession, Faithful
<1> HIDE DEF f, t
<1>3. f.trace = t /\ f.phase = "failed" /\ f.snapshots = s.snapshots
  BY <1>1 DEF IsSession
<1>4. Faithful(f)
  BY <1>2, <1>3 DEF Faithful
<1>5. QED
  BY <1>4 DEF f

LEMMA ProgressedIsFaithful ==
  ASSUME run \in Runs, NEW s, IsSession(s), Faithful(s), ~s.error
  PROVE  Faithful(Progressed(s))
<1> DEFINE m == s.machine
           r == Reaction(m)
           audited == s.trace \o Audits(r.audit)
           p == Progressed(s)
<1>1. CASE s.phase # "running"
  BY <1>1 DEF Progressed
<1>2. CASE s.phase = "running"
  <2>1. IsMachine(m) /\ IsSequence(s.trace) /\ RunsOn(s.trace, m) /\ IsReaction(r)
    BY <1>2, ReactionsAreReactions DEF IsSession, Faithful
  <2>2. IsSequence(Audits(r.audit))
    BY <2>1, AuditsIsSequence DEF IsReaction
  <2>3. SnapshotsTold(s.snapshots, audited) /\ IsSequence(audited)
    BY <2>1, <2>2, SnapshotsToldConcat, ConcatIsSequence DEF IsSession, Faithful
  <2>4. DOMAIN s = {"machine", "trace", "snapshots", "phase", "outcome", "error"}
        /\ \A n \in DOMAIN s.snapshots : IsSuspended(s.snapshots[n])
    BY DEF IsSession
  <2>5. CASE CanYield(m)
    <3> DEFINE y == Yielded(m)
               t == Append(audited, Requested(y))
    <3>1. Asks(t, y)
      BY <2>1, <2>5, RequestRecorded
    <3>2. SnapshotsTold(s.snapshots, t)
      <4> HIDE DEF audited
      <4>1. QED
        BY <2>3, <2>4, SnapshotsToldAppend
    <3>3. p = [s EXCEPT !.machine = y, !.trace = t, !.phase = "awaiting_admission"]
      BY <1>2, <2>5 DEF Progressed
    <3> HIDE DEF y, t, p
    <3>4. /\ p.machine = y /\ p.trace = t /\ p.phase = "awaiting_admission"
          /\ p.snapshots = s.snapshots
      BY <2>4, <3>3
    <3>5. Faithful(p)
      BY <3>1, <3>2, <3>4 DEF Faithful
    <3>6. QED
      BY <3>5 DEF p
  <2>6. CASE ~CanYield(m) /\ r.step = "completed"
    <3> DEFINE last == <<StateCommitted(r.outcome), RunCompleted(r.outcome)>>
               t == audited \o last
    <3>1. IsSequence(t) /\ Last(t) = RunCompleted(r.outcome) /\ Replays(t)
      BY <2>1, <2>6, OutcomeRecorded
    <3>2. IsSequence(last)
      <4>1. last \in Seq({StateCommitted(r.outcome), RunCompleted(r.outcome)})
        OBVIOUS
      <4>2. QED
        BY <4>1, SeqOfRange DEF IsSequence
    <3>3. SnapshotsTold(s.snapshots, t)
      <4> HIDE DEF audited, last
      <4>1. QED
        BY <2>3, <2>4, <3>2, SnapshotsToldConcat
    <3>4. p = [s EXCEPT !.trace = t, !.phase = "completed", !.outcome = r.outcome]
      BY <1>2, <2>6 DEF Progressed
    <3> HIDE DEF t, p
    <3>5. /\ p.trace = t /\ p.phase = "completed" /\ p.snapshots = s.snapshots
          /\ p.outcome = r.outcome
      BY <2>4, <3>4
    <3>6. Faithful(p)
      BY <3>1, <3>3, <3>5 DEF Faithful
    <3>7. QED
      BY <3>6 DEF p
  <2>7. CASE ~CanYield(m) /\ r.step # "completed"
    <3>1. p = [s EXCEPT !.trace = audited, !.error = TRUE]
      BY <1>2, <2>7 DEF Progressed
    <3> HIDE DEF audited, p
    <3>2. p.trace = audited /\ p.phase = "running" /\ p.snapshots = s.snapshots /\ p.error = TRUE
      BY <1>2, <2>4, <3>1
    <3>3. Faithful(p)
      BY <2>3, <3>2 DEF Faithful
    <3>4. QED
      BY <3>3 DEF p
  <2>8. QED
    BY <2>5, <2>6, <2>7
<1>3. QED
  BY <1>1, <1>2

LEMMA AdmitIsFaithful ==
  ASSUME run \in Runs, NEW s, IsSession(s), Faithful(s), ~s.error, NEW request, NEW maximums
  PROVE  Faithful(Admit(s, request, maximums))
<1> DEFINE a == Admit(s, request, maximums)
<1>1. CASE ~ (/\ s.phase = "awaiting_admission"
              /\ request = s.machine.pending.request
              /\ CanReserveUsage(s.machine, maximums))
  <2>1. a = Refused(s)
    BY <1>1 DEF Admit
  <2>2. QED
    BY <2>1, RefusedIsFaithful
<1>2. CASE /\ s.phase = "awaiting_admission"
           /\ request = s.machine.pending.request
           /\ CanReserveUsage(s.machine, maximums)
  <2> DEFINE m == s.machine
             reserved == UsageReserved(m, maximums)
             evidence == Append(s.trace, ReservedEvidence(reserved))
             sealed   == [reserved EXCEPT !.checkpoint = evidence]
             trace    == Append(evidence, SnapshotWritten)
             snaps    == Append(s.snapshots, sealed)
  <2>1. IsSuspended(m) /\ IsSequence(s.trace) /\ Asks(s.trace, m)
    BY <1>2 DEF IsSession, Faithful, Waiting
  <2>2. Described(sealed)
    BY <1>2, <2>1, ReservationRecorded
  <2>3. a = [s EXCEPT !.machine = sealed, !.trace = trace, !.snapshots = snaps,
                      !.phase = "awaiting_resolution"]
    BY <1>2 DEF Admit
  <2>4. DOMAIN reserved = {"answers", "budget", "pending", "checkpoint"}
    BY <2>1, ReservedParts
  <2>5. IsSequence(evidence)
    BY <2>1, AppendIsSequence
  <2>6. SnapshotsTold(s.snapshots, evidence)
    BY <2>1, SnapshotsToldAppend DEF IsSession, Faithful
  <2> HIDE DEF a, reserved, evidence
  <2>7. sealed.checkpoint = evidence
    BY <2>4
  <2> HIDE DEF sealed
  <2>8. Waits(evidence, sealed)
    BY <2>2, <2>7 DEF Described
  <2>9. Waits(trace, sealed)
    BY <2>5, <2>8, SnapshotRecorded
  <2>10. /\ DOMAIN s = {"machine", "trace", "snapshots", "phase", "outcome", "error"}
         /\ IsSequence(s.snapshots) /\ \A n \in DOMAIN s.snapshots : IsSuspended(s.snapshots[n])
    BY DEF IsSession
  <2>11. SnapshotsTold(s.snapshots, trace)
    BY <2>5, <2>6, <2>10, SnapshotsToldAppend
  <2>12. IsPrefix(evidence, trace)
    <3> DEFINE one == <<SnapshotWritten>>
    <3>1. IsSequence(one) /\ trace = evidence \o one
      BY <2>5, SingletonIsSequence, AppendConcat
    <3> HIDE DEF one, trace
    <3>2. IsPrefix(evidence, evidence \o one)
      BY <2>5, <3>1, PrefixOfItself, PrefixOfMore
    <3>3. QED
      BY <3>1, <3>2
  <2> HIDE DEF trace
  <2>13. /\ DOMAIN snaps = 1..(Len(s.snapshots) + 1) /\ Len(s.snapshots) \in Nat
         /\ DOMAIN s.snapshots = 1..Len(s.snapshots)
         /\ \A i \in 1..Len(s.snapshots) : snaps[i] = s.snapshots[i]
         /\ snaps[Len(s.snapshots) + 1] = sealed
    BY <2>10, AppendIsSequence
  <2> HIDE DEF snaps
  <2>14. SnapshotsTold(snaps, trace)
    <3> SUFFICES ASSUME NEW n \in DOMAIN snaps
                 PROVE  Described(snaps[n]) /\ IsPrefix(snaps[n].checkpoint, trace)
      BY DEF SnapshotsTold
    <3>1. n \in 1..Len(s.snapshots) \/ n = Len(s.snapshots) + 1
      BY <2>13
    <3>2. CASE n \in 1..Len(s.snapshots)
      BY <2>11, <2>13, <3>2 DEF SnapshotsTold
    <3>3. CASE n = Len(s.snapshots) + 1
      BY <2>2, <2>7, <2>12, <2>13, <3>3
    <3>4. QED
      BY <3>1, <3>2, <3>3
  <2>15. /\ a.machine = sealed /\ a.trace = trace /\ a.snapshots = snaps
         /\ a.phase = "awaiting_resolution"
    BY <2>3, <2>10
  <2>16. Faithful(a)
    BY <2>9, <2>14, <2>15 DEF Faithful
  <2>17. QED
    BY <2>16 DEF a
<1>3. QED
  BY <1>1, <1>2

LEMMA ResolveIsFaithful ==
  ASSUME run \in Runs, NEW s, IsSession(s), Faithful(s), ~s.error,
         NEW request, NEW payload, NEW usage
  PROVE  Faithful(Resolve(s, request, payload, usage))
<1> DEFINE m == s.machine
           supplied == Supplied(m, payload, usage)
           resolved == Append(s.trace, ResolvedEvidence(m, payload, usage))
           r == Resolve(s, request, payload, usage)
<1>0. /\ DOMAIN s = {"machine", "trace", "snapshots", "phase", "outcome", "error"}
      /\ IsSequence(s.trace) /\ \A n \in DOMAIN s.snapshots : IsSuspended(s.snapshots[n])
      /\ SnapshotsTold(s.snapshots, s.trace)
  BY DEF IsSession, Faithful
<1>1. CASE s.phase # "awaiting_resolution" \/ request # m.pending.request
  BY <1>1, RefusedIsFaithful DEF Resolve
<1>2. SnapshotsTold(s.snapshots, resolved) /\ IsSequence(resolved)
  BY <1>0, SnapshotsToldAppend, AppendIsSequence
<1>3. CASE /\ s.phase = "awaiting_resolution" /\ request = m.pending.request
           /\ ~AcceptsAnswer(m, payload, usage)
  <2>1. r = [s EXCEPT !.machine = supplied, !.trace = resolved, !.error = TRUE]
    BY <1>3 DEF Resolve
  <2> HIDE DEF supplied, resolved, r
  <2>2. r.trace = resolved /\ r.phase = "awaiting_resolution" /\ r.snapshots = s.snapshots
        /\ r.error = TRUE
    BY <1>0, <1>3, <2>1
  <2>3. Faithful(r)
    BY <1>2, <2>2 DEF Faithful
  <2>4. QED
    BY <2>3 DEF r
<1>4. CASE /\ s.phase = "awaiting_resolution" /\ request = m.pending.request
           /\ AcceptsAnswer(m, payload, usage)
  <2>1. IsSuspended(m) /\ Waits(s.trace, m)
    BY <1>4 DEF IsSession, Faithful, Waiting
  <2> DEFINE decoded == Audits(Reaction(supplied).decoded)
             f == SettledEvidence(Admitted(m), usage, supplied.budget)
             one == <<f>>
             t == Append(resolved \o decoded, f)
  <2>2. RunsOn(t, supplied)
    BY <1>0, <1>4, <2>1, ResolutionRecorded
  <2>3. IsSequence(decoded)
    <3>1. IsReaction(Reaction(supplied))
      BY <1>4, <2>1, SuppliedIsMachine, ReactionsAreReactions
    <3>2. QED
      BY <3>1, AuditsIsSequence DEF IsReaction
  <2>4. r = [s EXCEPT !.machine = supplied, !.trace = resolved \o decoded \o one, !.phase = "running"]
    BY <1>4 DEF Resolve
  <2> HIDE DEF supplied, resolved, decoded, f, r
  <2> DEFINE front == resolved \o decoded
  <2>5. IsSequence(front) /\ SnapshotsTold(s.snapshots, front)
    BY <1>0, <1>2, <2>3, SnapshotsToldConcat, ConcatIsSequence
  <2> HIDE DEF front
  <2>6. SnapshotsTold(s.snapshots, Append(front, f)) /\ Append(front, f) = front \o one
    BY <1>0, <2>5, SnapshotsToldAppend, AppendConcat
  <2>7. SnapshotsTold(s.snapshots, t)
    BY <2>6 DEF front
  <2>8. t = resolved \o decoded \o one
    BY <2>6 DEF front
  <2> HIDE DEF t, one
  <2>9. /\ r.machine = supplied /\ r.trace = t /\ r.phase = "running"
        /\ r.snapshots = s.snapshots
    BY <1>0, <2>4, <2>8
  <2>10. Faithful(r)
    BY <2>2, <2>7, <2>9 DEF Faithful
  <2>11. QED
    BY <2>10 DEF r
<1>5. QED
  BY <1>1, <1>3, <1>4

LEMMA RestoredIsFaithful ==
  ASSUME NEW trace, IsSequence(trace), NEW snapshot, IsSuspended(snapshot),
         CanRewind(trace, snapshot), Described(snapshot)
  PROVE  Faithful(Restored(trace, snapshot))
<1> DEFINE p == snapshot.checkpoint
           cut == SubSeq(trace, 1, Len(p))
           t == Append(cut, SnapshotWritten)
           s == Restored(trace, snapshot)
           one == <<SnapshotWritten>>
           q == <<snapshot>>
<1>1. IsSequence(p)
  BY DEF IsSuspended, IsMachine
<1>2. cut = p
  <2>1. SubSeq(p, 1, Len(p)) = p
    BY <1>1, WholePrefix
  <2>2. SubSeq(p, 1, Len(p)) = cut
    BY DEF CanRewind, IsPrefix
  <2> HIDE DEF cut
  <2>3. QED
    BY <2>1, <2>2
<1>3. s = [machine |-> snapshot, trace |-> t, snapshots |-> q,
           phase |-> "awaiting_resolution", outcome |-> None, error |-> FALSE]
  BY DEF Restored, RestoredOn
<1>4. q = [n \in {1} |-> snapshot]
  OBVIOUS
<1> HIDE DEF s, cut, q
<1>5. Waits(p, snapshot)
  BY DEF Described
<1> HIDE DEF p
<1>6. Waits(t, snapshot)
  BY <1>1, <1>2, <1>5, SnapshotRecorded
<1>7. IsPrefix(p, t)
  <2>1. IsSequence(one) /\ t = p \o one
    BY <1>1, <1>2, SingletonIsSequence, AppendConcat
  <2> HIDE DEF one, t
  <2>2. IsPrefix(p, p \o one)
    BY <1>1, <2>1, PrefixOfItself, PrefixOfMore
  <2>3. QED
    BY <2>1, <2>2
<1> HIDE DEF t
<1>8. SnapshotsTold(q, t)
  BY <1>4, <1>7 DEF SnapshotsTold, p
<1>9. Faithful(s)
  BY <1>3, <1>6, <1>8 DEF Faithful
<1>10. QED
  BY <1>9 DEF s

(* The program being recorded never changes, so what is said of a machine or *)
(* of a session stays true of it.                                            *)

LEMMA SameReplays ==
  ASSUME run' = run
  PROVE  /\ \A a : GeneratedAudit(a)' = GeneratedAudit(a)
         /\ \A t, c : ReplayedTo(t, c)' = ReplayedTo(t, c)
         /\ \A m : (IsMachine(m)' <=> IsMachine(m)) /\ Reaction(m)' = Reaction(m)
         /\ \A m : (CanYield(m)' <=> CanYield(m)) /\ Yielded(m)' = Yielded(m)
<1>1. ASSUME NEW m
      PROVE  /\ IsMachine(m)' <=> IsMachine(m)
             /\ Reaction(m)' = Reaction(m)
             /\ CanYield(m)' <=> CanYield(m)
             /\ Yielded(m)' = Yielded(m)
  BY DEF IsMachine, Reaction, CanYield, Yielded
<1>2. ASSUME NEW a PROVE GeneratedAudit(a)' = GeneratedAudit(a)
  BY DEF GeneratedAudit
<1>3. ASSUME NEW t, NEW c PROVE ReplayedTo(t, c)' = ReplayedTo(t, c)
  BY DEF ReplayedTo, ReplayEffect, CanYield, Yielded, Reaction, NewMachine
<1>4. QED
  BY <1>1, <1>2, <1>3

LEMMA SameFaithful ==
  ASSUME run' = run
  PROVE  /\ \A s : IsSession(s)' <=> IsSession(s)
         /\ \A m : IsSuspended(m)' <=> IsSuspended(m)
         /\ \A snapshot : Described(snapshot)' <=> Described(snapshot)
         /\ \A s : Faithful(s)' <=> Faithful(s)
<1>1. ASSUME NEW m PROVE IsSuspended(m)' <=> IsSuspended(m)
  BY SameReplays DEF IsSuspended
<1>2. ASSUME NEW s PROVE IsSession(s)' <=> IsSession(s)
  BY <1>1, SameReplays DEF IsSession
<1>3. ASSUME NEW t, NEW m
      PROVE  /\ Audible(m)' <=> Audible(m)
             /\ Heard(t, m)' <=> Heard(t, m)
  BY SameReplays DEF Audible, Heard
<1>4. ASSUME NEW t, NEW m PROVE RunsOn(t, m)' <=> RunsOn(t, m)
  BY <1>3, SameReplays DEF RunsOn
<1>5. ASSUME NEW t, NEW m PROVE Asks(t, m)' <=> Asks(t, m)
  BY <1>3, SameReplays DEF Asks
<1>6. ASSUME NEW t, NEW m PROVE Waits(t, m)' <=> Waits(t, m)
  BY <1>3, SameReplays DEF Waits
<1>7. ASSUME NEW t PROVE Replays(t)' <=> Replays(t)
  BY SameReplays DEF Replays
<1>8. ASSUME NEW snapshot PROVE Described(snapshot)' <=> Described(snapshot)
  BY <1>6 DEF Described
<1>9. ASSUME NEW snapshots, NEW t
      PROVE  SnapshotsTold(snapshots, t)' <=> SnapshotsTold(snapshots, t)
  BY <1>8 DEF SnapshotsTold
<1>10. ASSUME NEW s PROVE Faithful(s)' <=> Faithful(s)
  BY <1>4, <1>5, <1>6, <1>7, <1>9 DEF Faithful
<1>11. QED
  BY <1>1, <1>2, <1>8, <1>10

(* The record session *)

RecordInv ==
  /\ run \in Runs
  /\ IsSession(session)
  /\ Faithful(session)

LEMMA RecordInitInv ==
  ASSUME RecordInit
  PROVE  RecordInv
BY StartedIsFaithful DEF RecordInit, RecordInv

LEMMA RecordNextInv ==
  ASSUME RecordInv, [RecordNext]_recordVars
  PROVE  RecordInv'
<1> DEFINE s == session
<1>1. run \in Runs /\ IsSession(s) /\ Faithful(s)
  BY DEF RecordInv
<1>2. ASSUME run' = run, NEW t, session' = t, IsSession(t), Faithful(t)
      PROVE  RecordInv'
  <2>1. IsSession(t)' /\ Faithful(t)'
    BY <1>2, SameFaithful
  <2>2. QED
    BY <1>1, <1>2, <2>1 DEF RecordInv
<1>3. CASE Progress
  <2>1. CASE s.phase = "running"
    BY <1>1, <1>2, <1>3, <2>1, ProgressedIsSession, ProgressedIsFaithful DEF Progress, CallsOn
  <2>2. CASE s.phase # "running"
    BY <1>1, <1>2, <1>3, <2>2 DEF Progress, Progressed
  <2>3. QED
    BY <2>1, <2>2
<1>4. ASSUME NEW request, NEW maximums, AdmitEffect(request, maximums) PROVE RecordInv'
  BY <1>1, <1>2, <1>4, AdmitIsSession, AdmitIsFaithful DEF AdmitEffect, CallsOn
<1>5. ASSUME NEW request, NEW payload, NEW usage, ResolveEffect(request, payload, usage)
      PROVE  RecordInv'
  BY <1>1, <1>2, <1>5, ResolveIsSession, ResolveIsFaithful DEF ResolveEffect, CallsOn
<1>6. CASE FailSession
  BY <1>1, <1>2, <1>6, FailIsSession, FailIsFaithful DEF FailSession
<1>7. CASE RestoreSession
  <2>1. PICK n \in DOMAIN s.snapshots :
          CanRewind(s.trace, s.snapshots[n]) /\ session' = Restored(s.trace, s.snapshots[n])
    BY <1>7 DEF RestoreSession
  <2>2. run' = run
    BY <1>7 DEF RestoreSession
  <2>3. IsSequence(s.trace) /\ IsSuspended(s.snapshots[n]) /\ Described(s.snapshots[n])
    BY <1>1 DEF IsSession, Faithful, SnapshotsTold
  <2> HIDE DEF s
  <2>4. IsSession(Restored(s.trace, s.snapshots[n])) /\ Faithful(Restored(s.trace, s.snapshots[n]))
    BY <2>1, <2>3, RestoredIsSession, RestoredIsFaithful
  <2>5. QED
    BY <1>2, <2>1, <2>2, <2>4
<1>8. CASE Over \/ UNCHANGED recordVars
  BY <1>1, <1>2, <1>8 DEF Over, recordVars
<1>9. QED
  BY <1>3, <1>4, <1>5, <1>6, <1>7, <1>8 DEF RecordNext

LEMMA RecordInvariant == RecordSpec => []RecordInv
<1>1. RecordInit => RecordInv
  BY RecordInitInv
<1>2. RecordInv /\ [RecordNext]_recordVars => RecordInv'
  BY RecordNextInv
<1>3. QED
  BY <1>1, <1>2, PTL DEF RecordSpec

\* What the invariant says of recordings and snapshots.
LEMMA RecordInvImplies == RecordInv => CompletedRunReplays /\ SnapshotsMatchTheirTrace
<1>1. RecordInv => CompletedRunReplays
  BY DEF RecordInv, Faithful, CompletedRunReplays
<1>2. RecordInv => SnapshotsMatchTheirTrace
  <2> SUFFICES ASSUME RecordInv, NEW k \in DOMAIN session.snapshots
               PROVE  LET snapshot == session.snapshots[k]
                          prefix == snapshot.checkpoint
                      IN  /\ CanRewind(session.trace, snapshot)
                          /\ \E replayed \in ReplayedTo(prefix, Count(prefix, "budget_settled")) :
                               snapshot = [UsageReserved(Yielded(replayed), Last(prefix).maximums)
                                             EXCEPT !.checkpoint = prefix]
    BY DEF SnapshotsMatchTheirTrace
  <2> DEFINE snapshot == session.snapshots[k]
  <2>1. run \in Runs /\ IsSuspended(snapshot) /\ Described(snapshot) /\ CanRewind(session.trace, snapshot)
    BY DEF RecordInv, IsSession, Faithful, SnapshotsTold, CanRewind
  <2> HIDE DEF snapshot
  <2>2. \E replayed \in ReplayedTo(snapshot.checkpoint, Count(snapshot.checkpoint, "budget_settled")) :
          snapshot = [UsageReserved(Yielded(replayed), Last(snapshot.checkpoint).maximums)
                        EXCEPT !.checkpoint = snapshot.checkpoint]
    BY <2>1, DescribedResumes
  <2>3. QED
    BY <2>1, <2>2 DEF snapshot
<1>3. QED
  BY <1>1, <1>2

\* Whatever is declared, answered, refused or restored on the way, replay
\* accepts the trace of a recording that completed (run.rs: record, replay_run).
THEOREM CompletedRecordingsReplay == RecordSpec => []CompletedRunReplays
BY RecordInvImplies, RecordInvariant, PTL

\* A sealed snapshot can be resumed from the session's trace for as long as
\* the session lasts, and is the machine that the trace up to its checkpoint
\* describes (run.rs: admit, restore).
THEOREM SnapshotsAreDescribed == RecordSpec => []SnapshotsMatchTheirTrace
BY RecordInvImplies, RecordInvariant, PTL
=============================================================================
