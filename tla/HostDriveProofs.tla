--------------------------- MODULE HostDriveProofs ---------------------------
(***************************************************************************)
(* The grant last given to the host can always be resumed, and it is the   *)
(* only one whose effect may be in doubt, for every program, host, number  *)
(* of crashes and of resumes; and the files on disk can be replayed and    *)
(* resumed.  What HostSessionProofs says of a session in memory is carried *)
(* over to a process that persists it.                                     *)
(***************************************************************************)
EXTENDS HostDrive, HostSessionProofs

(* Prefixes *)

LEMMA PrefixParts ==
  ASSUME NEW s, IsSequence(s), NEW t, IsSequence(t), IsPrefix(s, t)
  PROVE  /\ Len(s) \in Nat /\ Len(t) \in Nat /\ Len(s) <= Len(t)
         /\ DOMAIN s = 1..Len(s) /\ DOMAIN t = 1..Len(t)
         /\ SubSeq(t, 1, Len(s)) = s
         /\ \A i \in 1..Len(s) : s[i] = t[i]
<1> DEFINE S == Range(s) \cup Range(t)
<1>1. /\ DOMAIN s = 1..Len(s) /\ Len(s) \in Nat /\ DOMAIN t = 1..Len(t) /\ Len(t) \in Nat
      /\ Len(s) <= Len(t) /\ SubSeq(s, 1, Len(s)) = SubSeq(t, 1, Len(s))
  BY SequenceParts DEF IsPrefix
<1>2. SubSeq(t, 1, Len(s)) = s
  <2>1. SubSeq(s, 1, Len(s)) = s
    BY SubSeqFull DEF IsSequence
  <2>2. QED
    BY <1>1, <2>1
<1>3. t \in Seq(S)
  BY SeqMonotonic DEF IsSequence
<1> HIDE DEF S
<1>4. \A i \in 1..Len(s) : t[i] \in S
  BY <1>1, <1>3, ElementOfSeq
<1>5. \A i \in 1..Len(s) : SubSeq(t, 1, Len(s))[i] = t[i]
  BY <1>1, <1>4, SubSeqProperties
<1>6. QED
  BY <1>1, <1>2, <1>5

LEMMA PrefixIntro ==
  ASSUME NEW s, IsSequence(s), NEW t, IsSequence(t), Len(s) <= Len(t),
         \A i \in 1..Len(s) : s[i] = t[i]
  PROVE  IsPrefix(s, t)
<1>1. Len(s) \in Nat /\ Len(t) \in Nat
  BY SequenceParts
<1>2. SubSeq(s, 1, Len(s)) = SubSeq(t, 1, Len(s))
  BY <1>1, SamePrefix
<1>3. QED
  BY <1>2 DEF IsPrefix

LEMMA PrefixGrows ==
  ASSUME NEW s, IsSequence(s), NEW t, IsSequence(t), IsPrefix(s, t), NEW u, IsSequence(u)
  PROVE  IsSequence(t \o u) /\ IsPrefix(s, t \o u)
<1>1. IsSequence(t \o u)
  BY ConcatIsSequence
<1>2. /\ Len(s) \in Nat /\ Len(t) \in Nat /\ Len(s) <= Len(t)
      /\ \A i \in 1..Len(s) : s[i] = t[i]
  BY PrefixParts
<1>3. /\ Len(t \o u) = Len(t) + Len(u) /\ Len(u) \in Nat
      /\ \A i \in 1..(Len(t) + Len(u)) : (t \o u)[i] = IF i <= Len(t) THEN t[i] ELSE u[i - Len(t)]
  BY ConcatParts, SequenceParts
<1> DEFINE v == t \o u
<1> HIDE DEF v
<1>4. Len(s) <= Len(v) /\ \A i \in 1..Len(s) : s[i] = v[i]
  BY <1>2, <1>3 DEF v
<1>5. QED
  BY <1>1, <1>4, PrefixIntro DEF v

LEMMA PrefixSelf ==
  ASSUME NEW s, IsSequence(s)
  PROVE  IsPrefix(s, s)
BY PrefixIntro, SequenceParts
-----------------------------------------------------------------------------
(* Traces *)

\* The grant a sealed trace is for: its last two entries say which.
GrantOf(trace) ==
  [request |-> trace[Len(trace) - 1].request, max_usage |-> trace[Len(trace)].maximums,
   checkpoint |-> trace]

Reserves(entry) == entry.event = "budget_reserved"

\* A reservation is followed by its seal, and the seal by the resolution that
\* the host gave under this grant.
Followed(trace, done) ==
  \A n \in DOMAIN trace : Reserves(trace[n]) =>
    /\ n + 1 \in DOMAIN trace => trace[n + 1].event = "snapshot_written"
    /\ n + 2 \in DOMAIN trace =>
         /\ trace[n + 2].event = "effect_resolved"
         /\ [grant |-> GrantOf(SubSeq(trace, 1, n)), payload |-> trace[n + 2].payload] \in done

\* No effect is in doubt on this trace.
Settled(trace) == \A n \in DOMAIN trace : Reserves(trace[n]) => n + 2 \in DOMAIN trace

\* A trace that was sealed: it ends with a reservation.
EndsReserved(trace) == Len(trace) > 1 /\ Reserves(trace[Len(trace)])

\* A snapshot is the continuation of the trace it is bound to, and what was
\* resolved on that trace was performed.
SealedWell(snapshot, done) ==
  /\ EndsReserved(snapshot.checkpoint)
  /\ GrantFor(snapshot) = GrantOf(snapshot.checkpoint)
  /\ Followed(snapshot.checkpoint, done)

SnapshotsSealed(s, done) ==
  \A n \in DOMAIN s.snapshots :
    IsPrefix(s.snapshots[n].checkpoint, s.trace) /\ SealedWell(s.snapshots[n], done)

\* The trace of a session that has not failed, in each phase.
TraceFollowed(s, done) ==
  /\ s.phase # "failed" => Followed(s.trace, done)
  /\ s.phase \in {"running", "awaiting_admission"} => Settled(s.trace)
  /\ s.phase = "awaiting_admission" => Len(s.trace) > 0 /\ Last(s.trace) = Requested(s.machine)
  /\ s.phase = "awaiting_resolution" => Len(s.snapshots) > 0 /\ SealedWell(s.machine, done)

LEMMA FollowedMore ==
  ASSUME NEW trace, NEW done, NEW more, Followed(trace, done), done \subseteq more
  PROVE  Followed(trace, more)
BY DEF Followed

\* An entry that is kept keeps what follows it.
LEMMA FollowedKept ==
  ASSUME NEW trace, IsSequence(trace), NEW done, Followed(trace, done),
         NEW all, IsSequence(all), IsPrefix(trace, all),
         NEW n \in DOMAIN trace, Reserves(all[n]), n + 2 \in DOMAIN trace
  PROVE  /\ all[n + 1].event = "snapshot_written" /\ all[n + 2].event = "effect_resolved"
         /\ [grant |-> GrantOf(SubSeq(all, 1, n)), payload |-> all[n + 2].payload] \in done
<1>1. /\ DOMAIN trace = 1..Len(trace) /\ Len(trace) \in Nat /\ Len(all) \in Nat
      /\ Len(trace) <= Len(all) /\ \A i \in 1..Len(trace) : trace[i] = all[i]
  BY PrefixParts
<1>2. n \in 1..Len(trace) /\ n + 1 \in 1..Len(trace) /\ n + 2 \in 1..Len(trace)
  BY <1>1
<1>3. trace[n] = all[n] /\ trace[n + 1] = all[n + 1] /\ trace[n + 2] = all[n + 2]
  BY <1>1, <1>2
<1>4. SubSeq(trace, 1, n) = SubSeq(all, 1, n)
  <2>1. n \in Nat /\ n <= Len(trace) /\ n <= Len(all) /\ \A i \in 1..n : trace[i] = all[i]
    BY <1>1, <1>2
  <2>2. QED
    BY <2>1, SamePrefix
<1>5. /\ trace[n + 1].event = "snapshot_written" /\ trace[n + 2].event = "effect_resolved"
      /\ [grant |-> GrantOf(SubSeq(trace, 1, n)), payload |-> trace[n + 2].payload] \in done
  BY <1>1, <1>2, <1>3 DEF Followed
<1>6. QED
  BY <1>3, <1>4, <1>5

\* A trace without an effect in doubt goes on with entries of other kinds.
LEMMA FollowedExtension ==
  ASSUME NEW trace, IsSequence(trace), NEW done, Followed(trace, done), Settled(trace),
         NEW entries, IsSequence(entries), \A n \in DOMAIN entries : ~Reserves(entries[n])
  PROVE  Followed(trace \o entries, done) /\ Settled(trace \o entries)
<1> DEFINE all == trace \o entries
<1>1. IsSequence(all) /\ IsPrefix(trace, all)
  BY PrefixSelf, PrefixGrows
<1>2. /\ DOMAIN all = 1..(Len(trace) + Len(entries))
      /\ \A i \in 1..(Len(trace) + Len(entries)) :
           all[i] = IF i <= Len(trace) THEN trace[i] ELSE entries[i - Len(trace)]
  BY ConcatParts
<1>3. /\ DOMAIN trace = 1..Len(trace) /\ Len(trace) \in Nat
      /\ DOMAIN entries = 1..Len(entries) /\ Len(entries) \in Nat
  BY SequenceParts
<1> HIDE DEF all
<1>4. ASSUME NEW n \in DOMAIN all, Reserves(all[n])
      PROVE  n \in DOMAIN trace /\ n + 2 \in DOMAIN trace
  <2>1. CASE n > Len(trace)
    <3>1. n - Len(trace) \in DOMAIN entries /\ all[n] = entries[n - Len(trace)]
      BY <1>2, <1>3, <2>1
    <3>2. QED
      BY <1>4, <3>1
  <2>2. CASE n <= Len(trace)
    <3>1. n \in DOMAIN trace /\ all[n] = trace[n]
      BY <1>2, <1>3, <2>2
    <3>2. QED
      BY <1>4, <3>1 DEF Settled
  <2>3. QED
    BY <1>2, <1>3, <2>1, <2>2
<1>5. Settled(all)
  <2>1. DOMAIN trace \subseteq DOMAIN all
    BY <1>2, <1>3
  <2>2. QED
    BY <1>4, <2>1 DEF Settled
<1>6. Followed(all, done)
  BY <1>1, <1>4, FollowedKept DEF Followed
<1>7. QED
  BY <1>5, <1>6 DEF all

\* A reservation is the first of the next effect.
LEMMA ReservationExtension ==
  ASSUME NEW trace, IsSequence(trace), NEW done, Followed(trace, done), Settled(trace), NEW entry
  PROVE  Followed(Append(trace, entry), done)
<1> DEFINE all == Append(trace, entry)
<1>1. /\ IsSequence(all) /\ DOMAIN all = 1..(Len(trace) + 1)
      /\ DOMAIN trace = 1..Len(trace) /\ Len(trace) \in Nat /\ Len(all) = Len(trace) + 1
      /\ \A i \in 1..Len(trace) : all[i] = trace[i]
  BY AppendIsSequence
<1> HIDE DEF all
<1>2. IsPrefix(trace, all)
  BY <1>1, PrefixIntro
<1>3. SUFFICES ASSUME NEW n \in DOMAIN all, Reserves(all[n])
               PROVE  /\ n + 1 \in DOMAIN all => all[n + 1].event = "snapshot_written"
                      /\ n + 2 \in DOMAIN all =>
                           /\ all[n + 2].event = "effect_resolved"
                           /\ [grant |-> GrantOf(SubSeq(all, 1, n)), payload |-> all[n + 2].payload] \in done
  BY DEF Followed, all
<1>4. CASE n = Len(trace) + 1
  BY <1>1, <1>4
<1>5. CASE n <= Len(trace)
  <2>1. n \in DOMAIN trace /\ n + 2 \in DOMAIN trace
    BY <1>1, <1>3, <1>5 DEF Settled
  <2>2. QED
    BY <1>1, <1>2, <1>3, <2>1, FollowedKept
<1>6. QED
  BY <1>1, <1>4, <1>5

\* A seal follows its reservation.
LEMMA SealExtension ==
  ASSUME NEW trace, IsSequence(trace), NEW done, Followed(trace, done), EndsReserved(trace)
  PROVE  Followed(trace \o <<SnapshotWritten>>, done)
<1> DEFINE all == Append(trace, SnapshotWritten)
<1>1. /\ IsSequence(all) /\ DOMAIN all = 1..(Len(trace) + 1)
      /\ DOMAIN trace = 1..Len(trace) /\ Len(trace) \in Nat /\ Len(all) = Len(trace) + 1
      /\ \A i \in 1..Len(trace) : all[i] = trace[i]
      /\ all[Len(trace) + 1] = SnapshotWritten
  BY AppendIsSequence
<1>2. all = trace \o <<SnapshotWritten>>
  BY AppendConcat
<1> HIDE DEF all
<1>3. IsPrefix(trace, all)
  BY <1>1, PrefixIntro
<1>4. SUFFICES ASSUME NEW n \in DOMAIN all, Reserves(all[n])
               PROVE  /\ n + 1 \in DOMAIN all => all[n + 1].event = "snapshot_written"
                      /\ n + 2 \in DOMAIN all =>
                           /\ all[n + 2].event = "effect_resolved"
                           /\ [grant |-> GrantOf(SubSeq(all, 1, n)), payload |-> all[n + 2].payload] \in done
  BY <1>2 DEF Followed
<1>5. n # Len(trace) + 1
  BY <1>1, <1>4 DEF Reserves, SnapshotWritten
<1>6. CASE n = Len(trace)
  <2>1. n + 1 = Len(trace) + 1 /\ n + 2 \notin DOMAIN all
    BY <1>1, <1>6
  <2>2. QED
    BY <1>1, <2>1 DEF SnapshotWritten
<1>7. CASE n + 1 = Len(trace)
  <2>1. n \in DOMAIN trace /\ n + 1 \in DOMAIN trace /\ trace[n] = all[n]
    BY <1>1, <1>4, <1>7
  <2>2. trace[n + 1].event = "snapshot_written"
    BY <1>4, <2>1 DEF Followed
  <2>3. QED
    BY <1>7, <2>2 DEF EndsReserved, Reserves
<1>8. CASE n + 1 < Len(trace)
  <2>1. n \in DOMAIN trace /\ n + 2 \in DOMAIN trace
    BY <1>1, <1>4, <1>8
  <2>2. QED
    BY <1>1, <1>3, <1>4, <2>1, FollowedKept
<1>9. QED
  BY <1>1, <1>5, <1>6, <1>7, <1>8

\* The resolution of a sealed effect settles it.
LEMMA ResolutionExtension ==
  ASSUME NEW sealed, IsSequence(sealed), NEW done, Followed(sealed, done), EndsReserved(sealed),
         NEW entry, entry.event = "effect_resolved",
         [grant |-> GrantOf(sealed), payload |-> entry.payload] \in done
  PROVE  LET all == Append(sealed \o <<SnapshotWritten>>, entry)
         IN  Followed(all, done) /\ Settled(all)
<1> DEFINE trace == sealed \o <<SnapshotWritten>>
           all == Append(trace, entry)
<1>1. IsSequence(trace) /\ Followed(trace, done) /\ IsPrefix(sealed, trace)
  BY SealExtension, PrefixSelf, PrefixGrows, SingletonIsSequence
<1>2. /\ Len(sealed) \in Nat /\ DOMAIN sealed = 1..Len(sealed)
      /\ Len(trace) = Len(sealed) + 1 /\ DOMAIN trace = 1..(Len(sealed) + 1)
      /\ trace[Len(sealed) + 1] = SnapshotWritten
      /\ \A i \in 1..Len(sealed) : trace[i] = sealed[i]
  <2>1. trace = Append(sealed, SnapshotWritten)
    BY AppendConcat
  <2> HIDE DEF trace
  <2>2. QED
    BY <2>1, AppendIsSequence
<1> HIDE DEF trace
<1>3. /\ IsSequence(all) /\ DOMAIN all = 1..(Len(sealed) + 2) /\ Len(all) = Len(sealed) + 2
      /\ \A i \in 1..(Len(sealed) + 1) : all[i] = trace[i]
      /\ all[Len(sealed) + 2] = entry
  BY <1>1, <1>2, AppendIsSequence
<1> HIDE DEF all
<1>4. IsPrefix(trace, all)
  BY <1>1, <1>2, <1>3, PrefixIntro
<1>5. ASSUME NEW n \in DOMAIN all, Reserves(all[n])
      PROVE  n \in 1..Len(sealed)
  <2>1. n # Len(sealed) + 1
    BY <1>2, <1>3, <1>5 DEF Reserves, SnapshotWritten
  <2>2. n # Len(sealed) + 2
    BY <1>3, <1>5 DEF Reserves
  <2>3. QED
    BY <1>2, <1>3, <2>1, <2>2
<1>6. Settled(all)
  BY <1>2, <1>3, <1>5 DEF Settled
<1>7. ASSUME NEW n \in DOMAIN all, Reserves(all[n])
      PROVE  /\ n + 1 \in DOMAIN all => all[n + 1].event = "snapshot_written"
             /\ n + 2 \in DOMAIN all =>
                  /\ all[n + 2].event = "effect_resolved"
                  /\ [grant |-> GrantOf(SubSeq(all, 1, n)), payload |-> all[n + 2].payload] \in done
  <2>1. CASE n = Len(sealed)
    <3>1. all[n + 1] = SnapshotWritten /\ all[n + 2] = entry
      <4>1. Len(sealed) + 1 \in 1..(Len(sealed) + 1)
        BY <1>2
      <4>2. all[Len(sealed) + 1] = SnapshotWritten
        BY <1>2, <1>3, <4>1
      <4>3. QED
        BY <1>3, <2>1, <4>2
    <3>2. SubSeq(all, 1, n) = sealed
      <4>1. Len(sealed) <= Len(all) /\ \A i \in 1..Len(sealed) : sealed[i] = all[i]
        BY <1>2, <1>3
      <4>2. IsPrefix(sealed, all)
        BY <1>3, <4>1, PrefixIntro
      <4>3. QED
        BY <1>3, <2>1, <4>2, PrefixParts
    <3>3. all[n + 1].event = "snapshot_written"
      BY <3>1 DEF SnapshotWritten
    <3>4. [grant |-> GrantOf(SubSeq(all, 1, n)), payload |-> all[n + 2].payload]
            = [grant |-> GrantOf(sealed), payload |-> entry.payload]
      BY <3>1, <3>2
    <3>5. QED
      BY <3>1, <3>3, <3>4
  <2>2. CASE n < Len(sealed)
    <3>1. n \in DOMAIN trace /\ n + 2 \in DOMAIN trace
      BY <1>2, <1>5, <1>7, <2>2
    <3>2. QED
      BY <1>1, <1>3, <1>4, <1>7, <3>1, FollowedKept
  <2>3. QED
    BY <1>2, <1>5, <1>7, <2>1, <2>2
<1>8. Followed(all, done)
  BY <1>7 DEF Followed
<1>9. QED
  BY <1>6, <1>8 DEF all, trace
-----------------------------------------------------------------------------
(* The operations of the record session *)

LEMMA AuditsReserveNothing ==
  ASSUME NEW events, IsSequence(events)
  PROVE  IsSequence(Audits(events)) /\ \A n \in DOMAIN Audits(events) : ~Reserves(Audits(events)[n])
BY AuditsIsSequence DEF Audits, Reserves

LEMMA EntryReservesNothing ==
  ASSUME NEW entry, ~Reserves(entry)
  PROVE  IsSequence(<<entry>>) /\ \A n \in DOMAIN <<entry>> : ~Reserves(<<entry>>[n])
BY SingletonIsSequence

\* What is appended leaves the snapshots on the trace.
LEMMA SnapshotsKept ==
  ASSUME NEW s, IsSession(s), NEW done, SnapshotsSealed(s, done), NEW entries, IsSequence(entries),
         NEW t, t.snapshots = s.snapshots, t.trace = s.trace \o entries
  PROVE  SnapshotsSealed(t, done)
<1>1. SUFFICES ASSUME NEW n \in DOMAIN s.snapshots
               PROVE  IsPrefix(s.snapshots[n].checkpoint, s.trace \o entries)
  BY DEF SnapshotsSealed
<1>2. IsSequence(s.snapshots[n].checkpoint) /\ IsSequence(s.trace)
  BY DEF IsSession, IsSuspended, IsMachine
<1>3. IsPrefix(s.snapshots[n].checkpoint, s.trace)
  BY DEF SnapshotsSealed
<1>4. QED
  BY <1>2, <1>3, PrefixGrows

\* progress: the evidence of the steps, and a request or the end.
LEMMA ProgressedFollowed ==
  ASSUME run \in Runs, NEW s, IsSession(s), s.phase = "running",
         NEW done, SnapshotsSealed(s, done), TraceFollowed(s, done)
  PROVE  SnapshotsSealed(Progressed(s), done) /\ TraceFollowed(Progressed(s), done)
<1> DEFINE m == s.machine
           r == Reaction(m)
           audits == Audits(r.audit)
           audited == s.trace \o audits
           p == Progressed(s)
<1>1. /\ IsSequence(s.trace)
      /\ DOMAIN s = {"machine", "trace", "snapshots", "phase", "outcome", "error"}
  BY DEF IsSession
<1>2. IsSequence(audits) /\ \A n \in DOMAIN audits : ~Reserves(audits[n])
  BY ReactionsAreReactions, AuditsReserveNothing DEF IsSession, IsReaction
<1>3. Followed(s.trace, done) /\ Settled(s.trace)
  BY DEF TraceFollowed
<1> HIDE DEF audits
<1>4. IsSequence(audited) /\ Followed(audited, done) /\ Settled(audited)
  BY <1>1, <1>2, <1>3, ConcatIsSequence, FollowedExtension
<1> HIDE DEF audited, p
<1>5. ASSUME NEW entries, IsSequence(entries), \A n \in DOMAIN entries : ~Reserves(entries[n]),
             p.trace = audited \o entries, p.snapshots = s.snapshots,
             p.phase # "awaiting_resolution",
             p.phase = "awaiting_admission" => Len(p.trace) > 0 /\ Last(p.trace) = Requested(p.machine)
      PROVE  SnapshotsSealed(p, done) /\ TraceFollowed(p, done)
  <2>1. Followed(p.trace, done) /\ Settled(p.trace)
    BY <1>4, <1>5, FollowedExtension
  <2>2. SnapshotsSealed(p, done)
    <3> SUFFICES ASSUME NEW n \in DOMAIN s.snapshots
                 PROVE  /\ IsPrefix(s.snapshots[n].checkpoint, audited \o entries)
                        /\ SealedWell(s.snapshots[n], done)
      BY <1>5 DEF SnapshotsSealed
    <3>1. IsSequence(s.snapshots[n].checkpoint) /\ IsPrefix(s.snapshots[n].checkpoint, s.trace)
      BY DEF IsSession, IsSuspended, IsMachine, SnapshotsSealed
    <3>2. IsPrefix(s.snapshots[n].checkpoint, audited)
      BY <1>1, <1>2, <3>1, PrefixGrows DEF audited
    <3>3. IsPrefix(s.snapshots[n].checkpoint, audited \o entries)
      BY <1>4, <1>5, <3>1, <3>2, PrefixGrows
    <3>4. QED
      BY <3>3 DEF SnapshotsSealed
  <2>3. QED
    BY <1>5, <2>1, <2>2 DEF TraceFollowed
<1>6. CASE CanYield(m)
  <2> DEFINE y == Yielded(m)
             e == Requested(y)
  <2>1. p = [s EXCEPT !.machine = y, !.trace = Append(audited, e), !.phase = "awaiting_admission"]
    BY <1>6 DEF Progressed, p, audited, audits
  <2>2. ~Reserves(e)
    BY DEF Reserves, Requested
  <2> HIDE DEF y
  <2>3. /\ p.machine = y /\ p.trace = Append(audited, e)
        /\ p.phase = "awaiting_admission" /\ p.snapshots = s.snapshots
    BY <1>1, <2>1
  <2> HIDE DEF e
  <2>4. p.trace = audited \o <<e>> /\ Len(p.trace) > 0 /\ Last(p.trace) = e
    BY <1>4, <2>3, AppendConcat, AppendIsSequence DEF Last
  <2>5. IsSequence(<<e>>) /\ \A n \in DOMAIN <<e>> : ~Reserves(<<e>>[n])
    BY <2>2, EntryReservesNothing
  <2>6. QED
    BY <1>5, <2>3, <2>4, <2>5 DEF e, p
<1>7. CASE ~CanYield(m) /\ r.step = "completed"
  <2> DEFINE end == <<StateCommitted(r.outcome), RunCompleted(r.outcome)>>
  <2>1. p = [s EXCEPT !.trace = audited \o end, !.phase = "completed", !.outcome = r.outcome]
    BY <1>7 DEF Progressed, p, audited, audits
  <2>2. IsSequence(end) /\ \A n \in DOMAIN end : ~Reserves(end[n])
    <3>1. end \in Seq({StateCommitted(r.outcome), RunCompleted(r.outcome)})
      OBVIOUS
    <3>2. IsSequence(end)
      BY <3>1, SeqOfRange DEF IsSequence
    <3>3. QED
      BY <3>2 DEF Reserves, StateCommitted, RunCompleted
  <2> HIDE DEF end
  <2>3. p.trace = audited \o end /\ p.phase = "completed" /\ p.snapshots = s.snapshots
    BY <1>1, <2>1
  <2>4. QED
    BY <1>5, <2>2, <2>3 DEF p
<1>8. CASE ~CanYield(m) /\ r.step # "completed"
  <2>1. p = [s EXCEPT !.trace = audited, !.error = TRUE]
    BY <1>8 DEF Progressed, p, audited, audits
  <2>2. p.trace = audited /\ p.phase = "running" /\ p.snapshots = s.snapshots
    BY <1>1, <2>1
  <2>3. SnapshotsSealed(p, done)
    BY <1>1, <1>2, <2>2, SnapshotsKept DEF audited
  <2>4. QED
    BY <1>4, <2>2, <2>3 DEF TraceFollowed, p
<1>9. QED
  BY <1>6, <1>7, <1>8

\* fail: nothing more is asked of the trace.
LEMMA FailFollowed ==
  ASSUME NEW s, IsSession(s), NEW done, SnapshotsSealed(s, done)
  PROVE  SnapshotsSealed(Fail(s), done) /\ TraceFollowed(Fail(s), done)
<1>1. /\ Fail(s).trace = s.trace \o <<RunFailed>> /\ Fail(s).snapshots = s.snapshots
      /\ Fail(s).phase = "failed"
  BY AppendConcat DEF IsSession, Fail
<1>2. SnapshotsSealed(Fail(s), done)
  BY <1>1, SnapshotsKept, SingletonIsSequence
<1>3. QED
  BY <1>1, <1>2 DEF TraceFollowed

\* admit: the continuation is sealed with the trace that says for which grant.
LEMMA AdmitFollowed ==
  ASSUME NEW s, IsSession(s), ~s.error, NEW request, NEW maximums,
         NEW done, SnapshotsSealed(s, done), TraceFollowed(s, done)
  PROVE  LET a == Admit(s, request, maximums)
         IN  SnapshotsSealed(a, done) /\ (~a.error => TraceFollowed(a, done))
<1> DEFINE a == Admit(s, request, maximums)
<1>1. /\ IsSequence(s.trace) /\ IsSequence(s.snapshots) /\ IsMachine(s.machine)
      /\ DOMAIN s = {"machine", "trace", "snapshots", "phase", "outcome", "error"}
  BY DEF IsSession
<1>2. CASE /\ s.phase = "awaiting_admission"
           /\ request = s.machine.pending.request
           /\ CanReserveUsage(s.machine, maximums)
  <2> DEFINE reserved == UsageReserved(s.machine, maximums)
             entry == ReservedEvidence(reserved)
             evidence == Append(s.trace, entry)
             sealed == [reserved EXCEPT !.checkpoint = evidence]
             trace == Append(evidence, SnapshotWritten)
             snaps == Append(s.snapshots, sealed)
  <2>1. a = [s EXCEPT !.machine = sealed, !.trace = trace, !.snapshots = snaps,
                      !.phase = "awaiting_resolution"]
    BY <1>2 DEF Admit
  <2>2. IsSuspended(reserved) /\ reserved.pending.request = s.machine.pending.request
    BY <1>2, UsageReservedIsSuspended DEF IsSession, Waiting
  <2>3. /\ Followed(s.trace, done) /\ Settled(s.trace)
        /\ Len(s.trace) > 0 /\ Last(s.trace) = Requested(s.machine)
    BY <1>2 DEF TraceFollowed
  <2>4. Reserves(entry) /\ entry.maximums = Admitted(reserved)
    BY DEF Reserves, ReservedEvidence
  <2> HIDE DEF reserved, entry, snaps, a
  <2>5. /\ IsSequence(evidence) /\ Len(evidence) = Len(s.trace) + 1 /\ Len(s.trace) \in Nat
        /\ evidence[Len(s.trace) + 1] = entry
        /\ \A i \in 1..Len(s.trace) : evidence[i] = s.trace[i]
        /\ DOMAIN s.trace = 1..Len(s.trace)
    BY <1>1, AppendIsSequence
  <2>6. Followed(evidence, done)
    BY <1>1, <2>3, ReservationExtension
  <2>7. evidence = s.trace \o <<entry>>
    BY <1>1, AppendConcat
  <2> HIDE DEF evidence
  <2>8. /\ sealed.checkpoint = evidence /\ sealed.pending = reserved.pending
    BY <2>2 DEF IsSuspended, IsMachine
  <2>9. trace = evidence \o <<SnapshotWritten>>
    BY <2>5, AppendConcat
  <2> HIDE DEF sealed, trace
  <2>10. /\ a.machine = sealed /\ a.trace = trace /\ a.snapshots = snaps
         /\ a.phase = "awaiting_resolution" /\ a.error = s.error
    BY <1>1, <2>1
  <2>11. SealedWell(sealed, done)
    <3>1. Len(s.trace) > 0 /\ s.trace[Len(s.trace)] = Requested(s.machine)
      BY <2>3 DEF Last
    <3>2. EndsReserved(evidence)
      BY <2>4, <2>5, <3>1 DEF EndsReserved
    <3>3. evidence[Len(evidence) - 1].request = s.machine.pending.request
      BY <2>5, <3>1 DEF Requested
    <3>4. GrantFor(sealed) = GrantOf(evidence)
      <4>1. Admitted(sealed) = Admitted(reserved)
        BY <2>8 DEF Admitted, UsageHeld
      <4>2. evidence[Len(evidence)].maximums = Admitted(sealed)
        BY <2>4, <2>5, <4>1
      <4>3. QED
        BY <2>2, <2>8, <3>3, <4>2 DEF GrantFor, GrantOf
    <3>5. QED
      BY <2>6, <2>8, <3>2, <3>4 DEF SealedWell
  <2>12. Followed(trace, done)
    BY <2>5, <2>6, <2>8, <2>9, <2>11, SealExtension DEF SealedWell
  <2>13. SnapshotsSealed(a, done)
    <3>1. /\ DOMAIN s.snapshots = 1..Len(s.snapshots) /\ Len(s.snapshots) \in Nat
          /\ DOMAIN snaps = 1..(Len(s.snapshots) + 1)
          /\ \A i \in 1..Len(s.snapshots) : snaps[i] = s.snapshots[i]
          /\ snaps[Len(s.snapshots) + 1] = sealed
      BY <1>1, AppendIsSequence DEF snaps
    <3>2. ASSUME NEW n \in 1..Len(s.snapshots)
          PROVE  IsPrefix(snaps[n].checkpoint, trace) /\ SealedWell(snaps[n], done)
      <4>1. /\ IsSequence(s.snapshots[n].checkpoint) /\ snaps[n] = s.snapshots[n]
            /\ IsPrefix(s.snapshots[n].checkpoint, s.trace) /\ SealedWell(s.snapshots[n], done)
        BY <3>1 DEF IsSession, IsSuspended, IsMachine, SnapshotsSealed
      <4>2. IsPrefix(s.snapshots[n].checkpoint, evidence)
        BY <1>1, <2>7, <4>1, PrefixGrows, SingletonIsSequence
      <4>3. IsPrefix(s.snapshots[n].checkpoint, trace)
        BY <2>5, <2>9, <4>1, <4>2, PrefixGrows, SingletonIsSequence
      <4>4. QED
        BY <4>1, <4>3
    <3>3. IsPrefix(sealed.checkpoint, trace)
      BY <2>5, <2>8, <2>9, PrefixSelf, PrefixGrows, SingletonIsSequence
    <3>4. ASSUME NEW n \in DOMAIN snaps
          PROVE  IsPrefix(snaps[n].checkpoint, trace) /\ SealedWell(snaps[n], done)
      <4>1. CASE n \in 1..Len(s.snapshots)
        BY <3>2, <4>1
      <4>2. CASE n = Len(s.snapshots) + 1
        BY <2>11, <3>1, <3>3, <4>2
      <4>3. QED
        BY <3>1, <4>1, <4>2
    <3>5. QED
      BY <2>10, <3>4 DEF SnapshotsSealed
  <2>14. TraceFollowed(a, done)
    <3>1. Len(snaps) > 0
      BY <1>1, AppendIsSequence DEF snaps
    <3>2. QED
      BY <2>10, <2>11, <2>12, <3>1 DEF TraceFollowed
  <2>15. QED
    BY <2>13, <2>14 DEF a
<1>3. CASE ~ (/\ s.phase = "awaiting_admission"
              /\ request = s.machine.pending.request
              /\ CanReserveUsage(s.machine, maximums))
  <2>1. a = [s EXCEPT !.error = TRUE]
    BY <1>3 DEF Admit, Refused
  <2> HIDE DEF a
  <2>2. a.trace = s.trace /\ a.snapshots = s.snapshots /\ a.error
    BY <1>1, <2>1
  <2>3. QED
    BY <2>2 DEF a, SnapshotsSealed
<1>4. QED
  BY <1>2, <1>3

\* resolve: what is recorded is what was done under the grant of the trace.
LEMMA ResolveFollowed ==
  ASSUME run \in Runs, NEW s, IsSession(s), Sealed(s), NEW request, NEW payload, NEW usage,
         NEW done, SnapshotsSealed(s, done), TraceFollowed(s, done),
         [grant |-> GrantFor(s.machine), payload |-> payload] \in done
  PROVE  LET r == Resolve(s, request, payload, usage)
         IN  SnapshotsSealed(r, done) /\ (~r.error => TraceFollowed(r, done))
<1> DEFINE m == s.machine
           supplied == Supplied(m, payload, usage)
           evidence == ResolvedEvidence(m, payload, usage)
           resolved == Append(s.trace, evidence)
           r == Resolve(s, request, payload, usage)
<1>1. /\ IsSequence(s.trace)
      /\ DOMAIN s = {"machine", "trace", "snapshots", "phase", "outcome", "error"}
  BY DEF IsSession
<1>2. IsSequence(<<evidence>>) /\ resolved = s.trace \o <<evidence>> /\ IsSequence(resolved)
  BY <1>1, SingletonIsSequence, AppendConcat, AppendIsSequence
<1>3. CASE s.phase # "awaiting_resolution" \/ request # m.pending.request
  <2>1. r = [s EXCEPT !.error = TRUE]
    BY <1>3 DEF Resolve, Refused
  <2> HIDE DEF r
  <2>2. r.trace = s.trace /\ r.snapshots = s.snapshots /\ r.error
    BY <1>1, <2>1
  <2>3. QED
    BY <2>2 DEF r, SnapshotsSealed
<1>4. CASE /\ s.phase = "awaiting_resolution" /\ request = m.pending.request
           /\ ~AcceptsAnswer(m, payload, usage)
  <2>1. r = [s EXCEPT !.machine = supplied, !.trace = resolved, !.error = TRUE]
    BY <1>4 DEF Resolve
  <2> HIDE DEF r, supplied, resolved
  <2>2. r.trace = resolved /\ r.snapshots = s.snapshots /\ r.error
    BY <1>1, <2>1
  <2>3. SnapshotsSealed(r, done)
    BY <1>2, <2>2, SnapshotsKept
  <2>4. QED
    BY <2>2, <2>3 DEF r
<1>5. CASE /\ s.phase = "awaiting_resolution" /\ request = m.pending.request
           /\ AcceptsAnswer(m, payload, usage)
  <2> DEFINE audits == Audits(Reaction(supplied).decoded)
             entry == SettledEvidence(Admitted(m), usage, supplied.budget)
  <2>1. IsSuspended(m) /\ payload \in m.pending.expected
    BY <1>5 DEF IsSession, Waiting, AcceptsAnswer
  <2>2. Reaction(supplied) = run.program[Append(m.answers, payload)]
    <3>1. supplied.answers = Append(m.answers, payload)
      BY <1>5, <2>1 DEF Supplied, IsSuspended, IsMachine
    <3>2. QED
      BY <3>1 DEF Reaction
  <2>3. Append(m.answers, payload) \in DOMAIN run.program
    BY <2>1, ReactionsAreReactions DEF IsSuspended
  <2>4. IsReaction(Reaction(supplied))
    BY <2>2, <2>3, RunsAssumption DEF IsProgram
  <2>5. IsSequence(audits) /\ \A n \in DOMAIN audits : ~Reserves(audits[n])
    BY <2>4, AuditsReserveNothing DEF IsReaction
  <2>6. IsSequence(<<entry>>) /\ \A n \in DOMAIN <<entry>> : ~Reserves(<<entry>>[n])
    <3>1. ~Reserves(entry)
      BY DEF Reserves, SettledEvidence
    <3>2. QED
      BY <3>1, EntryReservesNothing
  <2>7. r = [s EXCEPT !.machine = supplied, !.trace = resolved \o audits \o <<entry>>,
                      !.phase = "running"]
    BY <1>5 DEF Resolve
  <2> HIDE DEF audits, entry, r, supplied
  <2>8. /\ r.trace = resolved \o audits \o <<entry>> /\ r.phase = "running"
        /\ r.snapshots = s.snapshots
    BY <1>1, <2>7
  <2>9. Followed(resolved, done) /\ Settled(resolved)
    <3>1. SealedWell(m, done) /\ s.trace = m.checkpoint \o <<SnapshotWritten>>
      BY <1>5 DEF TraceFollowed, Sealed, EndsWithSeal
    <3>2. IsSequence(m.checkpoint) /\ Followed(m.checkpoint, done) /\ EndsReserved(m.checkpoint)
      BY <2>1, <3>1 DEF SealedWell, IsSuspended, IsMachine
    <3>3. evidence.event = "effect_resolved" /\ evidence.payload = payload
      BY DEF ResolvedEvidence
    <3>4. [grant |-> GrantOf(m.checkpoint), payload |-> evidence.payload] \in done
      BY <3>1, <3>3 DEF SealedWell
    <3> HIDE DEF evidence
    <3>5. QED
      BY <3>1, <3>2, <3>3, <3>4, ResolutionExtension
  <2> HIDE DEF resolved
  <2>10. /\ IsSequence(resolved \o audits) /\ Followed(resolved \o audits, done)
         /\ Settled(resolved \o audits)
    BY <1>2, <2>5, <2>9, ConcatIsSequence, FollowedExtension
  <2>11. Followed(r.trace, done) /\ Settled(r.trace)
    BY <2>6, <2>8, <2>10, FollowedExtension
  <2>12. SnapshotsSealed(r, done)
    <3> SUFFICES ASSUME NEW n \in DOMAIN s.snapshots
                 PROVE  IsPrefix(s.snapshots[n].checkpoint, r.trace) /\ SealedWell(s.snapshots[n], done)
      BY <2>8 DEF SnapshotsSealed
    <3>1. /\ IsSequence(s.snapshots[n].checkpoint) /\ IsPrefix(s.snapshots[n].checkpoint, s.trace)
          /\ SealedWell(s.snapshots[n], done)
      BY DEF IsSession, IsSuspended, IsMachine, SnapshotsSealed
    <3>2. IsPrefix(s.snapshots[n].checkpoint, resolved)
      BY <1>1, <1>2, <3>1, PrefixGrows
    <3>3. IsPrefix(s.snapshots[n].checkpoint, resolved \o audits)
      BY <1>2, <2>5, <3>1, <3>2, PrefixGrows
    <3>4. IsPrefix(s.snapshots[n].checkpoint, r.trace)
      BY <2>6, <2>8, <2>10, <3>1, <3>3, PrefixGrows
    <3>5. QED
      BY <3>1, <3>4
  <2>13. QED
    BY <2>8, <2>11, <2>12 DEF r, TraceFollowed
<1>6. QED
  BY <1>3, <1>4, <1>5

\* restore: the trace is the one the snapshot was sealed with.
LEMMA RestoredFollowed ==
  ASSUME NEW trace, IsSequence(trace), NEW snapshot, IsSuspended(snapshot),
         CanRewind(trace, snapshot), NEW done, SealedWell(snapshot, done)
  PROVE  LET s == Restored(trace, snapshot)
         IN  SnapshotsSealed(s, done) /\ TraceFollowed(s, done)
<1> DEFINE sealed == snapshot.checkpoint
           s == Restored(trace, snapshot)
<1>1. IsSequence(sealed) /\ IsPrefix(sealed, trace)
  BY DEF IsSuspended, IsMachine, CanRewind
<1>2. SubSeq(trace, 1, Len(sealed)) = sealed
  BY <1>1, PrefixParts
<1>3. /\ s.machine = snapshot /\ s.snapshots = <<snapshot>> /\ s.phase = "awaiting_resolution"
      /\ s.trace = Append(sealed, SnapshotWritten)
  BY <1>2 DEF Restored, RestoredOn
<1> HIDE DEF s
<1>4. s.trace = sealed \o <<SnapshotWritten>>
  BY <1>1, <1>3, AppendConcat
<1>5. IsPrefix(sealed, s.trace)
  BY <1>1, <1>4, PrefixSelf, PrefixGrows, SingletonIsSequence
<1>6. Followed(s.trace, done)
  BY <1>1, <1>4, SealExtension DEF SealedWell
<1>7. SnapshotsSealed(s, done)
  BY <1>3, <1>5 DEF SnapshotsSealed
<1>8. QED
  BY <1>3, <1>6, <1>7 DEF s, TraceFollowed
-----------------------------------------------------------------------------
(* The operations of the host session *)

\* What a session keeps on its trace and in its snapshots.
Kept(s, done) == SnapshotsSealed(s, done) /\ TraceFollowed(s, done)

\* The snapshots of a session stay, and the ones a step adds come after them.
Extends(snapshots, earlier) ==
  \A n \in DOMAIN earlier : n \in DOMAIN snapshots /\ snapshots[n] = earlier[n]

LEMMA CloseKept ==
  ASSUME NEW s, IsSession(s), NEW done, SnapshotsSealed(s, done), ~Terminal, Close(s)
  PROVE  Kept(session', done) /\ session'.snapshots = s.snapshots
<1>1. session' = Fail(s)
  BY DEF Close, Emit
<1>2. QED
  BY <1>1, FailFollowed, FailIsSession DEF Kept

LEMMA RefusalKept ==
  ASSUME HostInv, NEW done, Kept(session, done), Close(session)
  PROVE  Kept(session', done) /\ session'.snapshots = session.snapshots
<1>1. CASE Terminal
  BY <1>1 DEF Close
<1>2. CASE ~Terminal
  BY <1>2, CloseKept DEF HostInv, Kept
<1>3. QED
  BY <1>1, <1>2

LEMMA AdvanceKept ==
  ASSUME HostInv, NEW s, IsSession(s), NEW done, Kept(s, done), ~Terminal,
         Advance(s), s.phase \in {"running", "awaiting_resolution"}
  PROVE  Kept(session', done) /\ session'.snapshots = s.snapshots
<1> DEFINE p == Progressed(s)
<1>1. IsSession(p) /\ Kept(p, done) /\ p.snapshots = s.snapshots
  <2>1. CASE s.phase = "running"
    BY <2>1, ProgressedIsSession, ProgressedFollowed DEF HostInv, Kept
  <2>2. CASE s.phase = "awaiting_resolution"
    BY <2>2 DEF Progressed
  <2>3. QED
    BY <2>1, <2>2
<1>2. Close(p) \/ session' = p
  BY DEF Advance, Emit, EmitGrant
<1> HIDE DEF p
<1>3. QED
  BY <1>1, <1>2, CloseKept DEF Kept

LEMMA AckKept ==
  ASSUME HostInv, NEW done, Kept(session, done), NEW reply, AcceptAck(reply)
  PROVE  Kept(session', done) /\ session'.snapshots = session.snapshots
<1>1. Kind = "hello" /\ ~Terminal /\ Advance(session)
  BY DEF AcceptAck, Acknowledges, Terminal
<1>2. session.phase \in {"running", "awaiting_resolution"}
  <2>1. CASE restarts = 0
    BY <1>1, <2>1 DEF HostInv, OutstandingMatchesSession, Started
  <2>2. CASE restarts # 0
    <3>1. session = Restored(session.trace, session.machine)
      BY <1>1, <2>2 DEF HostInv, OutstandingMatchesSession
    <3>2. QED
      BY <3>1 DEF Restored, RestoredOn
  <2>3. QED
    BY <2>1, <2>2
<1>3. QED
  BY <1>1, <1>2, AdvanceKept DEF HostInv

LEMMA AdmissionKept ==
  ASSUME HostInv, NEW done, Kept(session, done), NEW reply, AcceptAdmission(reply)
  PROVE  Kept(session', done) /\ Extends(session'.snapshots, session.snapshots)
<1> DEFINE a == Admit(session, reply.request, reply.maximums)
<1>1. ~Terminal /\ IF a.error THEN Close(a) /\ UNCHANGED granted ELSE EmitGrant(a)
  BY DEF AcceptAdmission, Admits, Terminal
<1>2. /\ IsSession(a)
      /\ \/ a.error /\ a.snapshots = session.snapshots
         \/ a.snapshots = Append(session.snapshots, a.machine)
  BY AdmitIsSession DEF HostInv
<1>3. SnapshotsSealed(a, done) /\ (~a.error => TraceFollowed(a, done))
  BY AdmitFollowed DEF HostInv, Kept
<1> HIDE DEF a
<1>4. IsSequence(session.snapshots)
  BY DEF HostInv, IsSession
<1>5. Extends(a.snapshots, session.snapshots)
  BY <1>2, <1>4, AppendIsSequence DEF Extends
<1>6. CASE a.error
  BY <1>1, <1>2, <1>3, <1>5, <1>6, CloseKept
<1>7. CASE ~a.error
  BY <1>1, <1>3, <1>5, <1>7 DEF EmitGrant, Emit, Kept
<1>8. QED
  BY <1>6, <1>7

LEMMA ResolutionKept ==
  ASSUME ResolutionInv, NEW done, Kept(session, done), NEW reply, AcceptResolution(reply),
         [grant |-> reply.grant, payload |-> reply.payload] \in done
  PROVE  Kept(session', done) /\ session'.snapshots = session.snapshots
<1> DEFINE r == Resolve(session, reply.grant.request, reply.payload, reply.usage)
<1>1. /\ Kind = "execute_grant" /\ ~Terminal /\ reply.grant = outstanding.message.grant
      /\ IF r.error THEN Close(r) /\ UNCHANGED granted ELSE Advance(r)
  BY DEF AcceptResolution, Resolves, Terminal
<1>2. reply.grant = GrantFor(session.machine) /\ HostInv /\ run \in Runs /\ Sealed(session)
  BY <1>1 DEF ResolutionInv, HostInv, OutstandingMatchesSession
<1>3. IsSession(r) /\ (~r.error => r.phase = "running") /\ r.snapshots = session.snapshots
  BY ResolveIsSession DEF ResolutionInv, HostInv
<1>4. SnapshotsSealed(r, done) /\ (~r.error => TraceFollowed(r, done))
  BY <1>2, ResolveFollowed DEF ResolutionInv, HostInv, Kept
<1> HIDE DEF r
<1>5. CASE r.error
  BY <1>1, <1>3, <1>4, <1>5, CloseKept
<1>6. CASE ~r.error
  BY <1>1, <1>2, <1>3, <1>4, <1>6, AdvanceKept DEF Kept
<1>7. QED
  BY <1>5, <1>6

\* What a reply or the end of input does to a session.
LEMMA ReplyKept ==
  ASSUME ResolutionInv, NEW done, Kept(session, done), NEW reply, Reply(reply),
         reply.kind = "effect_resolution" => [grant |-> reply.grant, payload |-> reply.payload] \in done
  PROVE  Kept(session', done) /\ Extends(session'.snapshots, session.snapshots)
<1>1. HostInv /\ Extends(session.snapshots, session.snapshots)
  BY DEF ResolutionInv, Extends
<1>2. CASE AcceptAck(reply)
  BY <1>1, <1>2, AckKept
<1>3. CASE AcceptAdmission(reply)
  BY <1>1, <1>3, AdmissionKept
<1>4. CASE AcceptResolution(reply)
  <2>1. reply.kind = "effect_resolution"
    BY <1>4 DEF AcceptResolution, Resolves
  <2>2. QED
    BY <1>1, <1>4, <2>1, ResolutionKept
<1>5. CASE RefuseReply(reply)
  BY <1>1, <1>5, RefusalKept DEF RefuseReply
<1>6. QED
  BY <1>2, <1>3, <1>4, <1>5 DEF Reply

\* The invariant of the session is that of HostSession.
LEMMA ReplyResolutionInv ==
  ASSUME ResolutionInv, NEW reply, Reply(reply)
  PROVE  ResolutionInv' /\ run' = run /\ granted \subseteq granted' /\ applied \subseteq applied'
<1> USE DEF ResolutionInv
<1>1. CASE AcceptAck(reply)
  BY <1>1, AckStep, AckAnswered DEF AcceptAck, AppliedAsGranted, Sealed, AnsweredBy
<1>2. CASE AcceptAdmission(reply)
  BY <1>2, AdmissionStep, AdmissionAnswered DEF AcceptAdmission, AppliedAsGranted, Sealed, AnsweredBy
<1>3. CASE AcceptResolution(reply)
  <2>1. HostInv' /\ granted' = granted
    BY <1>3, ResolutionStep
  <2>2. Sealed(session') /\ AppliedAsGranted' /\ AnsweredBy(session'.trace, applied')
    BY <1>3, ResolutionAnswered
  <2>3. run' = run /\ applied \subseteq applied'
    BY <1>3 DEF AcceptResolution
  <2>4. QED
    BY <2>1, <2>2, <2>3 DEF Sealed, AnsweredBy
<1>4. CASE RefuseReply(reply)
  BY <1>4, RefusalStep, RefusalAnswered DEF RefuseReply, AppliedAsGranted, Sealed, AnsweredBy
<1>5. QED
  BY <1>1, <1>2, <1>3, <1>4 DEF Reply

LEMMA EndOfInputStep ==
  ASSUME ResolutionInv, NEW done, Kept(session, done), EndOfInput
  PROVE  /\ ResolutionInv' /\ UNCHANGED <<run, granted, applied>>
         /\ Kept(session', done) /\ session'.snapshots = session.snapshots
         /\ Kind' = Kind \/ Kind' = "failed"
<1>1. HostInv /\ Close(session) /\ UNCHANGED <<run, restarts, granted, applied>>
  BY DEF EndOfInput, ResolutionInv
<1>2. HostInv' /\ (Kind' = Kind \/ Kind' = "failed")
  BY <1>1, RefusalStep DEF Kind
<1>3. Kept(session', done) /\ session'.snapshots = session.snapshots
  BY <1>1, RefusalKept
<1>4. Sealed(session') /\ AnsweredBy(session'.trace, applied)
  BY <1>1, RefusalAnswered
<1>5. QED
  BY <1>1, <1>2, <1>3, <1>4 DEF ResolutionInv, AppliedAsGranted, Sealed, AnsweredBy

\* restore, of a snapshot and a trace from wherever they were kept.
LEMMA RestoreFromStep ==
  ASSUME ResolutionInv, NEW snapshot, IsSuspended(snapshot), GrantFor(snapshot) \in granted,
         NEW trace, IsSequence(trace), AnsweredBy(trace, applied),
         RestoreFrom(snapshot, trace), restarts' = restarts + 1
  PROVE  ResolutionInv' /\ Kind' = "hello"
<1> DEFINE s == Restored(trace, snapshot)
<1>1. /\ CanRewind(trace, snapshot) /\ session' = s /\ outstanding' = Hello
      /\ UNCHANGED <<run, granted, applied>> /\ restarts' > 0 /\ restarts' \in Nat
  BY DEF RestoreFrom, ResolutionInv, HostInv
<1>2. /\ IsSession(s) /\ ~s.error /\ s.machine = snapshot /\ s.snapshots = <<snapshot>>
      /\ s = Restored(s.trace, snapshot)
  BY <1>1, RestoredIsSession DEF ResolutionInv, HostInv
<1>3. EndsWithSeal(s) /\ AnsweredBy(s.trace, applied)
  BY <1>1, RestoredAnswered
<1>4. Kind' = "hello"
  BY <1>1 DEF Kind, Hello
<1> HIDE DEF s
<1>5. IsSession(session)'
  BY <1>1, <1>2, SameProgram
<1>6. AreGranted(session.snapshots)'
  BY <1>1, <1>2 DEF AreGranted
<1>7. Restored(session.trace, session.machine)' = Restored(session'.trace, session'.machine)
  BY DEF Restored, RestoredOn
<1>8. OutstandingMatchesSession'
  BY <1>1, <1>2, <1>4, <1>7 DEF OutstandingMatchesSession
<1>9. HostInv'
  BY <1>1, <1>2, <1>4, <1>5, <1>6, <1>8 DEF HostInv, ResolutionInv
<1>10. QED
  BY <1>1, <1>3, <1>4, <1>9 DEF ResolutionInv, AppliedAsGranted, Sealed, EndsWithSeal, AnsweredBy
-----------------------------------------------------------------------------
(* The inductive invariant of the process *)

\* A snapshot a session of this program sealed, for a grant that was emitted.
Storable(snapshot) ==
  IsSuspended(snapshot) /\ GrantFor(snapshot) \in granted /\ SealedWell(snapshot, performed)

\* What the directory holds was written by such a session.
DiskInv ==
  /\ DOMAIN disk = {"snapshots", "trace", "state"}
  /\ IsSequence(disk.trace) /\ AnsweredBy(disk.trace, applied)
  /\ IsSequence(disk.snapshots)
  /\ \A n \in DOMAIN disk.snapshots : Storable(disk.snapshots[n])

Written(count) ==
  \A n \in 1..count : n \in DOMAIN disk.snapshots /\ disk.snapshots[n] = session.snapshots[n]

\* Where a persist stands; a grant is written only after it.
PersistInv ==
  /\ files \in Nat
  /\ Persisting => files <= Len(session.snapshots) /\ Written(files)
  /\ at = "publish_state" => Kind = "completed"
  /\ at = "write_frame" /\ Kind = "execute_grant" =>
       disk.trace = session.trace /\ Written(Len(session.snapshots))

\* Snapshot k of the session is the one of the grant last entrusted, and it is
\* in file k, or still in the file it was resumed from.
Keeps(k, n) ==
  /\ k \in DOMAIN session.snapshots /\ GrantFor(session.snapshots[k]) = entrusted
  /\ n \in DOMAIN disk.snapshots /\ disk.snapshots[n] = session.snapshots[k]
  /\ n = k \/ (k = 1 /\ files = 0)
  /\ IsPrefix(session.snapshots[k].checkpoint, disk.trace)

Trusted == \E k \in DOMAIN session.snapshots, n \in DOMAIN disk.snapshots : Keeps(k, n)

EntrustedInv == entrusted # None \/ performed # {} => Trusted

\* What is in the pipes: the grant last entrusted, and answers to grants that
\* were performed.
PipesInv ==
  /\ to_host # None /\ to_host.message.kind = "execute_grant" =>
       Trusted /\ to_host.message.grant = entrusted
  /\ from_host # None /\ from_host.kind = "effect_resolution" =>
       [grant |-> from_host.grant, payload |-> from_host.payload] \in performed

\* The host performs an effect once, under a grant that was sealed.
PerformedInv ==
  /\ \A done \in performed :
       /\ IsSequence(done.grant.checkpoint) /\ EndsReserved(done.grant.checkpoint)
       /\ done.grant = GrantOf(done.grant.checkpoint)
  /\ \A one, other \in performed : one.grant = other.grant => one.payload = other.payload

DriveInv ==
  /\ ResolutionInv /\ Kept(session, performed)
  /\ DiskInv /\ PersistInv /\ EntrustedInv /\ PipesInv /\ PerformedInv

LEMMA DriveInvInit == DriveInit => DriveInv
<1> SUFFICES ASSUME DriveInit PROVE DriveInv
  OBVIOUS
<1>1. /\ HostInit /\ session = Started /\ Kind = "hello" /\ ResolutionInv
      /\ at = "write_frame" /\ files = 0
      /\ disk = [snapshots |-> <<>>, trace |-> <<>>, state |-> None]
      /\ to_host = None /\ from_host = None /\ performed = {} /\ entrusted = None
  BY ResolutionInvInit DEF DriveInit, HostInit, Hello, Kind
<1>2. Kept(session, performed)
  <2>1. session.trace = Header /\ session.phase = "running" /\ DOMAIN session.snapshots = {}
    BY <1>1 DEF Started
  <2>2. \A n \in DOMAIN Header : ~Reserves(Header[n])
    BY DEF Header, Reserves
  <2>3. QED
    BY <2>1, <2>2 DEF Kept, SnapshotsSealed, TraceFollowed, Followed, Settled
<1>3. DiskInv
  <2>1. IsSequence(<<>>)
    BY DEF IsSequence
  <2>2. QED
    BY <1>1, <2>1 DEF DiskInv, AnsweredBy
<1>4. PersistInv /\ EntrustedInv /\ PipesInv /\ PerformedInv
  BY <1>1 DEF PersistInv, Persisting, EntrustedInv, PipesInv, PerformedInv
<1>5. QED
  BY <1>1, <1>2, <1>3, <1>4 DEF DriveInv

\* What is done stays done.
LEMMA KeptMore ==
  ASSUME NEW s, NEW done, Kept(s, done), NEW more, done \subseteq more
  PROVE  Kept(s, more)
BY FollowedMore DEF Kept, SnapshotsSealed, TraceFollowed, SealedWell

LEMMA StorableMore ==
  ASSUME NEW snapshot, Storable(snapshot), run' = run, granted \subseteq granted',
         performed \subseteq performed', NEW same, same = snapshot
  PROVE  Storable(same)'
<1>1. SealedWell(snapshot, performed')
  BY FollowedMore DEF Storable, SealedWell
<1>2. IsSuspended(snapshot)'
  BY DEF Storable, IsSuspended, IsMachine, Reaction
<1>3. QED
  BY <1>1, <1>2 DEF Storable, SealedWell

LEMMA SameDisk ==
  ASSUME DiskInv, UNCHANGED <<disk, run>>, granted \subseteq granted', applied \subseteq applied',
         performed \subseteq performed'
  PROVE  DiskInv'
<1>1. \A n \in DOMAIN disk.snapshots : Storable(disk.snapshots[n])'
  BY StorableMore DEF DiskInv
<1>2. AnsweredBy(disk.trace, applied')
  BY MoreAnswers DEF DiskInv
<1>3. QED
  BY <1>1, <1>2 DEF DiskInv, AnsweredBy

\* The snapshot of the grant stays where it is.
LEMMA StillTrusted ==
  ASSUME Trusted, Extends(session'.snapshots, session.snapshots), UNCHANGED <<disk, entrusted>>,
         files' \in {0, files}
  PROVE  Trusted'
BY DEF Trusted, Keeps, Extends

LEMMA SameSession ==
  ASSUME ResolutionInv, UNCHANGED hostVars
  PROVE  ResolutionInv'
<1>1. HostInv'
  BY TerminalStep DEF ResolutionInv, hostVars, recordVars
<1>2. QED
  BY <1>1 DEF ResolutionInv, hostVars, recordVars, AppliedAsGranted, Sealed, AnsweredBy, EndsWithSeal

\* What the session has sealed can be stored.
LEMMA SealedAreStorable ==
  ASSUME DriveInv, NEW n \in DOMAIN session.snapshots
  PROVE  /\ Storable(session.snapshots[n])
         /\ IsPrefix(session.snapshots[n].checkpoint, session.trace)
BY DEF DriveInv, ResolutionInv, HostInv, IsSession, AreGranted, Kept, SnapshotsSealed, Storable
-----------------------------------------------------------------------------
(* The steps of the process *)

\* The last snapshot of a session that grants is the one of the grant.
LEMMA GrantsLast ==
  ASSUME DriveInv, Kind = "execute_grant"
  PROVE  LET k == Len(session.snapshots)
         IN  /\ k \in DOMAIN session.snapshots
             /\ GrantFor(session.snapshots[k]) = outstanding.message.grant
<1>1. /\ session.phase = "awaiting_resolution" /\ session.machine = Last(session.snapshots)
      /\ GrantFor(session.machine) = outstanding.message.grant
  BY DEF DriveInv, ResolutionInv, HostInv, OutstandingMatchesSession
<1>2. IsSequence(session.snapshots) /\ Len(session.snapshots) > 0
  BY <1>1 DEF DriveInv, ResolutionInv, HostInv, IsSession, Kept, TraceFollowed
<1>3. Len(session.snapshots) \in DOMAIN session.snapshots
  BY <1>2, SequenceParts
<1>4. QED
  BY <1>1, <1>3 DEF Last

LEMMA WriteFrameStep == DriveInv /\ WriteFrame => DriveInv'
<1> SUFFICES ASSUME DriveInv, WriteFrame PROVE DriveInv'
  OBVIOUS
<1>1. /\ at = "write_frame" /\ at' \in {"exited", "read_frame"} /\ to_host' = outstanding
      /\ entrusted' = IF Kind = "execute_grant" THEN outstanding.message.grant ELSE entrusted
      /\ UNCHANGED hostVars /\ UNCHANGED <<files, disk, from_host, performed>>
  BY DEF WriteFrame, KeepSession
<1>2. UNCHANGED <<run, session, outstanding, granted, applied>>
  BY <1>1 DEF hostVars, recordVars
<1>3. ResolutionInv' /\ Kept(session, performed)' /\ DiskInv'
  BY <1>1, <1>2, SameSession, SameDisk DEF DriveInv, Kept, SnapshotsSealed, TraceFollowed
<1>4. PersistInv'
  BY <1>1 DEF DriveInv, PersistInv, Persisting
<1>5. CASE Kind = "execute_grant"
  <2> DEFINE k == Len(session.snapshots)
  <2>1. k \in DOMAIN session.snapshots /\ GrantFor(session.snapshots[k]) = entrusted'
    BY <1>1, <1>5, GrantsLast
  <2>2. disk.trace = session.trace /\ Written(k)
    BY <1>1, <1>5 DEF DriveInv, PersistInv
  <2>3. k \in 1..k
    BY <2>1, SequenceParts DEF DriveInv, ResolutionInv, HostInv, IsSession
  <2>4. k \in DOMAIN disk.snapshots /\ disk.snapshots[k] = session.snapshots[k]
    BY <2>2, <2>3 DEF Written
  <2>5. IsPrefix(session.snapshots[k].checkpoint, disk.trace)
    BY <2>1, <2>2, SealedAreStorable
  <2> HIDE DEF k
  <2>6. Trusted'
    BY <1>1, <1>2, <2>1, <2>4, <2>5 DEF Trusted, Keeps
  <2>7. to_host'.message.grant = entrusted'
    BY <1>1, <1>5
  <2>8. QED
    BY <1>1, <1>3, <1>4, <2>6, <2>7 DEF DriveInv, EntrustedInv, PipesInv, PerformedInv
<1>6. CASE Kind # "execute_grant"
  <2>1. entrusted' = entrusted
    BY <1>1, <1>6
  <2>2. Trusted => Trusted'
    BY <1>1, <1>2, <2>1, StillTrusted DEF Extends
  <2>3. to_host'.message.kind # "execute_grant"
    BY <1>1, <1>6 DEF Kind
  <2>4. QED
    BY <1>1, <1>3, <1>4, <2>1, <2>2, <2>3 DEF DriveInv, EntrustedInv, PipesInv, PerformedInv
<1>7. QED
  BY <1>5, <1>6

\* A step that changes the session and starts a persist, or goes on at once.
LEMMA SessionStep ==
  ASSUME DriveInv, ResolutionInv', Kept(session', performed), run' = run,
         granted \subseteq granted', applied \subseteq applied',
         Extends(session'.snapshots, session.snapshots),
         files' = 0, UNCHANGED <<disk, to_host, performed, entrusted>>,
         from_host' \in {None, from_host}, at' # "publish_state",
         at' = "write_frame" => Kind' # "execute_grant"
  PROVE  DriveInv'
<1>1. DiskInv'
  BY SameDisk DEF DriveInv
<1>2. PersistInv'
  <2>1. 0 <= Len(session'.snapshots)
    BY SequenceParts DEF ResolutionInv, HostInv, IsSession
  <2>2. QED
    BY <2>1 DEF PersistInv, Written
<1>3. Trusted => Trusted'
  BY StillTrusted
<1>4. EntrustedInv' /\ PipesInv' /\ PerformedInv'
  BY <1>3 DEF DriveInv, EntrustedInv, PipesInv, PerformedInv
<1>5. QED
  BY <1>1, <1>2, <1>4 DEF DriveInv, Kept, SnapshotsSealed, TraceFollowed

LEMMA ReadFrameStep == DriveInv /\ ReadFrame => DriveInv'
<1> SUFFICES ASSUME DriveInv, ReadFrame PROVE DriveInv'
  OBVIOUS
<1>1. /\ from_host # None /\ Reply(from_host) /\ from_host' = None
      /\ at' = NextStop(outstanding') /\ files' = 0
      /\ UNCHANGED <<disk, to_host, performed, entrusted>>
  BY DEF ReadFrame, KeepHost
<1>2. from_host.kind = "effect_resolution" =>
        [grant |-> from_host.grant, payload |-> from_host.payload] \in performed
  BY <1>1 DEF DriveInv, PipesInv
<1>3. Kept(session', performed) /\ Extends(session'.snapshots, session.snapshots)
  BY <1>1, <1>2, ReplyKept DEF DriveInv
<1>4. ResolutionInv' /\ run' = run /\ granted \subseteq granted' /\ applied \subseteq applied'
  BY <1>1, ReplyResolutionInv DEF DriveInv
<1>5. at' # "publish_state" /\ (at' = "write_frame" => Kind' # "execute_grant")
  BY <1>1 DEF NextStop, Kind
<1>6. QED
  BY <1>1, <1>3, <1>4, <1>5, SessionStep

LEMMA ReadFailsStep == DriveInv /\ ReadFails => DriveInv'
<1> SUFFICES ASSUME DriveInv, ReadFails PROVE DriveInv'
  OBVIOUS
<1>1. /\ EndOfInput /\ at' = "persist" /\ files' = 0
      /\ UNCHANGED <<disk, to_host, from_host, performed, entrusted>>
  BY DEF ReadFails, KeepHost
<1>2. /\ ResolutionInv' /\ UNCHANGED <<run, granted, applied>> /\ Kept(session', performed)
      /\ session'.snapshots = session.snapshots
  BY <1>1, EndOfInputStep DEF DriveInv
<1>3. QED
  BY <1>1, <1>2, SessionStep DEF Extends

LEMMA WriteFailsStep == DriveInv /\ WriteFails => DriveInv'
<1> SUFFICES ASSUME DriveInv, WriteFails PROVE DriveInv'
  OBVIOUS
<1>1. /\ at' \in {"exited", "persist_and_exit"} /\ files' = 0
      /\ UNCHANGED <<disk, to_host, from_host, performed, entrusted>>
      /\ EndOfInput \/ UNCHANGED hostVars
  BY DEF WriteFails, KeepHost, KeepSession
<1>2. CASE EndOfInput
  <2>1. /\ ResolutionInv' /\ UNCHANGED <<run, granted, applied>> /\ Kept(session', performed)
        /\ session'.snapshots = session.snapshots
    BY <1>2, EndOfInputStep DEF DriveInv
  <2>2. QED
    BY <1>1, <2>1, SessionStep DEF Extends
<1>3. CASE UNCHANGED hostVars
  <2>1. ResolutionInv' /\ UNCHANGED <<run, session, granted, applied>>
    BY <1>3, SameSession DEF DriveInv, hostVars, recordVars
  <2>2. QED
    BY <1>1, <2>1, SessionStep DEF DriveInv, Extends
<1>4. QED
  BY <1>1, <1>2, <1>3
-----------------------------------------------------------------------------
(* The steps of a persist *)

\* Replacing one file of the directory, or adding the next.
Replaced(snapshots, n, snapshot) ==
  IF n \in DOMAIN snapshots THEN [snapshots EXCEPT ![n] = snapshot] ELSE Append(snapshots, snapshot)

LEMMA ReplacedParts ==
  ASSUME NEW snapshots, IsSequence(snapshots), NEW snapshot,
         NEW n, n \in DOMAIN snapshots \/ n = Len(snapshots) + 1,
         NEW result, result = Replaced(snapshots, n, snapshot)
  PROVE  /\ IsSequence(result) /\ result[n] = snapshot
         /\ \A i : i \in DOMAIN result <=> i \in DOMAIN snapshots \/ i = n
         /\ \A i \in DOMAIN snapshots : i # n => result[i] = snapshots[i]
<1>1. DOMAIN snapshots = 1..Len(snapshots) /\ Len(snapshots) \in Nat
  BY SequenceParts
<1>2. CASE n \in DOMAIN snapshots
  <2> DEFINE all == [snapshots EXCEPT ![n] = snapshot]
             S == Range(snapshots) \cup {snapshot}
  <2>1. /\ DOMAIN all = DOMAIN snapshots /\ all[n] = snapshot
        /\ \A i \in DOMAIN snapshots : i # n => all[i] = snapshots[i]
    BY <1>2
  <2>2. snapshots \in Seq(S)
    BY SeqMonotonic DEF IsSequence
  <2>3. all \in Seq(S)
    <3>1. snapshot \in S
      OBVIOUS
    <3> HIDE DEF S
    <3>2. QED
      BY <1>1, <1>2, <2>2, <3>1
  <2>4. IsSequence(all)
    BY <2>3, SeqOfRange DEF IsSequence
  <2>5. QED
    BY <1>2, <2>1, <2>4 DEF Replaced
<1>3. CASE n \notin DOMAIN snapshots
  <2>1. n = Len(snapshots) + 1
    BY <1>1, <1>3
  <2>2. Replaced(snapshots, n, snapshot) = Append(snapshots, snapshot)
    BY <1>3 DEF Replaced
  <2>3. /\ IsSequence(Append(snapshots, snapshot))
        /\ DOMAIN Append(snapshots, snapshot) = 1..(Len(snapshots) + 1)
        /\ \A i \in 1..Len(snapshots) : Append(snapshots, snapshot)[i] = snapshots[i]
        /\ Append(snapshots, snapshot)[Len(snapshots) + 1] = snapshot
    BY AppendIsSequence
  <2> DEFINE all == Append(snapshots, snapshot)
  <2> HIDE DEF all
  <2>4. 1..(Len(snapshots) + 1) = 1..Len(snapshots) \cup {Len(snapshots) + 1}
    BY <1>1
  <2>5. QED
    BY <1>1, <2>1, <2>2, <2>3, <2>4
<1>4. QED
  BY <1>2, <1>3

LEMMA PersistSnapshotStep == DriveInv /\ PersistSnapshot => DriveInv'
<1> SUFFICES ASSUME DriveInv, PersistSnapshot PROVE DriveInv'
  OBVIOUS
<1> DEFINE n == files + 1
           snapshot == session.snapshots[n]
           all == Replaced(disk.snapshots, n, snapshot)
<1>1. /\ Persisting /\ files < Len(session.snapshots) /\ files' = n /\ files \in Nat
      /\ Written(files)
      /\ disk' = [disk EXCEPT !.snapshots = all]
      /\ UNCHANGED hostVars /\ UNCHANGED <<at, to_host, from_host, performed, entrusted>>
  BY DEF PersistSnapshot, KeepSession, KeepHost, Replaced, DriveInv, PersistInv
<1>2. /\ DOMAIN disk = {"snapshots", "trace", "state"}
      /\ IsSequence(disk.trace) /\ AnsweredBy(disk.trace, applied)
      /\ IsSequence(disk.snapshots)
      /\ \A i \in DOMAIN disk.snapshots : Storable(disk.snapshots[i])
  BY DEF DriveInv, DiskInv
<1>3. /\ n \in Nat /\ n # 0 /\ n - 1 = files /\ 1..n = 1..files \cup {n}
      /\ n \in DOMAIN session.snapshots /\ n <= Len(session.snapshots)
  BY <1>1, SequenceParts DEF DriveInv, ResolutionInv, HostInv, IsSession
<1>4. files \in 0..Len(disk.snapshots)
  <2>1. files = 0 \/ files \in 1..files
    BY <1>1
  <2>2. files = 0 \/ files \in DOMAIN disk.snapshots
    BY <1>1, <2>1 DEF Written
  <2>3. DOMAIN disk.snapshots = 1..Len(disk.snapshots) /\ Len(disk.snapshots) \in Nat
    BY <1>2, SequenceParts
  <2>4. QED
    BY <2>2, <2>3
<1>5. Storable(snapshot) /\ snapshot = session.snapshots[n] /\ (files = 0 => n = 1)
  BY <1>3, SealedAreStorable
<1> HIDE DEF n, snapshot
<1>6. /\ IsSequence(all) /\ all[n] = snapshot
      /\ \A i : i \in DOMAIN all <=> i \in DOMAIN disk.snapshots \/ i = n
      /\ \A i \in DOMAIN disk.snapshots : i # n => all[i] = disk.snapshots[i]
  <2> DEFINE old == disk.snapshots
  <2>1. IsSequence(old) /\ (n \in DOMAIN old \/ n = Len(old) + 1)
    BY <1>2, <1>3, <1>4, SequenceParts
  <2>2. all = Replaced(old, n, snapshot)
    OBVIOUS
  <2> HIDE DEF old, all
  <2>3. /\ IsSequence(all) /\ all[n] = snapshot
        /\ \A i : i \in DOMAIN all <=> i \in DOMAIN old \/ i = n
        /\ \A i \in DOMAIN old : i # n => all[i] = old[i]
    BY <2>1, <2>2, ReplacedParts
  <2>4. QED
    BY <2>3 DEF old
<1> HIDE DEF all
<1>7. /\ DOMAIN disk' = {"snapshots", "trace", "state"}
      /\ disk'.snapshots = all /\ disk'.trace = disk.trace
  BY <1>1, <1>2
<1>8. UNCHANGED <<run, session, outstanding, granted, applied>>
  BY <1>1 DEF hostVars, recordVars
<1>9. ResolutionInv' /\ Kept(session, performed)'
  BY <1>1, <1>8, SameSession DEF DriveInv, Kept, SnapshotsSealed, TraceFollowed
<1>10. \A i \in DOMAIN all : Storable(all[i])
  BY <1>2, <1>5, <1>6
<1>11. DiskInv'
  <2>1. \A i \in DOMAIN disk'.snapshots : Storable(disk.snapshots[i])'
    BY <1>1, <1>7, <1>8, <1>10, StorableMore
  <2>2. QED
    BY <1>2, <1>6, <1>7, <1>8, <2>1 DEF DiskInv, AnsweredBy
<1>12. PersistInv'
  <2>1. Persisting' /\ at' # "publish_state" /\ at' # "write_frame"
    BY <1>1 DEF Persisting
  <2>2. ASSUME NEW i \in 1..n PROVE i \in DOMAIN all /\ all[i] = session.snapshots[i]
    <3>1. CASE i = n
      BY <1>5, <1>6, <3>1
    <3>2. CASE i # n
      <4>1. i \in 1..files
        BY <1>3, <3>2
      <4>2. i \in DOMAIN disk.snapshots /\ disk.snapshots[i] = session.snapshots[i]
        BY <1>1, <4>1 DEF Written
      <4>3. QED
        BY <1>6, <3>2, <4>2
    <3>3. QED
      BY <3>1, <3>2
  <2>3. Written(files)'
    BY <1>1, <1>7, <1>8, <2>2 DEF Written
  <2>4. QED
    BY <1>1, <1>3, <1>8, <2>1, <2>3 DEF PersistInv
<1>13. Trusted => Trusted'
  <2> SUFFICES ASSUME NEW k \in DOMAIN session.snapshots, NEW f \in DOMAIN disk.snapshots, Keeps(k, f)
               PROVE  Trusted'
    BY DEF Trusted
  <2>1. \E g \in DOMAIN all : all[g] = session.snapshots[k] /\ g = k
    <3>1. CASE f = k
      BY <1>5, <1>6, <3>1 DEF Keeps
    <3>2. CASE k = 1 /\ files = 0
      BY <1>5, <1>6, <3>2
    <3>3. QED
      BY <3>1, <3>2 DEF Keeps
  <2>2. QED
    BY <1>1, <1>7, <1>8, <2>1 DEF Trusted, Keeps
<1>14. QED
  BY <1>1, <1>9, <1>11, <1>12, <1>13 DEF DriveInv, EntrustedInv, PipesInv, PerformedInv

LEMMA PersistTraceStep == DriveInv /\ PersistTrace => DriveInv'
<1> SUFFICES ASSUME DriveInv, PersistTrace PROVE DriveInv'
  OBVIOUS
<1>1. /\ Persisting /\ files = Len(session.snapshots) /\ files' = files /\ files \in Nat
      /\ Written(files)
      /\ disk' = [disk EXCEPT !.trace = session.trace]
      /\ at' \in {"exited", "publish_state", "write_frame"}
      /\ at' = "publish_state" => Kind = "completed"
      /\ UNCHANGED hostVars /\ UNCHANGED <<to_host, from_host, performed, entrusted>>
  BY DEF PersistTrace, KeepSession, KeepHost, DriveInv, PersistInv
<1>2. UNCHANGED <<run, session, outstanding, granted, applied>>
  BY <1>1 DEF hostVars, recordVars
<1>3. ResolutionInv' /\ Kept(session, performed)'
  BY <1>1, <1>2, SameSession DEF DriveInv, Kept, SnapshotsSealed, TraceFollowed
<1>4. /\ DOMAIN disk' = {"snapshots", "trace", "state"}
      /\ disk'.snapshots = disk.snapshots /\ disk'.trace = session.trace
  BY <1>1 DEF DriveInv, DiskInv
<1>5. DiskInv'
  <2>1. \A i \in DOMAIN disk'.snapshots : Storable(disk.snapshots[i])'
    BY <1>1, <1>2, <1>4, StorableMore DEF DriveInv, DiskInv
  <2>2. IsSequence(disk'.snapshots) /\ IsSequence(session.trace) /\ AnsweredBy(session.trace, applied)
    BY <1>4 DEF DriveInv, DiskInv, ResolutionInv, HostInv, IsSession
  <2>3. QED
    BY <1>2, <1>4, <2>1, <2>2 DEF DiskInv, AnsweredBy
<1>6. PersistInv'
  <2>1. ~Persisting'
    BY <1>1 DEF Persisting
  <2>2. Kind' = Kind
    BY <1>2 DEF Kind
  <2>3. QED
    BY <1>1, <1>2, <1>4, <2>1, <2>2 DEF PersistInv, Written
<1>7. Trusted => Trusted'
  BY <1>1, <1>2, <1>4, SealedAreStorable DEF Trusted, Keeps
<1>8. QED
  BY <1>1, <1>3, <1>5, <1>6, <1>7 DEF DriveInv, EntrustedInv, PipesInv, PerformedInv

LEMMA PublishStateStep == DriveInv /\ PublishState => DriveInv'
<1> SUFFICES ASSUME DriveInv, PublishState PROVE DriveInv'
  OBVIOUS
<1>1. /\ at = "publish_state" /\ at' = "write_frame"
      /\ disk' = [disk EXCEPT !.state = session.outcome]
      /\ UNCHANGED hostVars /\ UNCHANGED <<files, to_host, from_host, performed, entrusted>>
  BY DEF PublishState, KeepSession, KeepHost
<1>2. UNCHANGED <<run, session, outstanding, granted, applied>>
  BY <1>1 DEF hostVars, recordVars
<1>3. ResolutionInv' /\ Kept(session, performed)'
  BY <1>1, <1>2, SameSession DEF DriveInv, Kept, SnapshotsSealed, TraceFollowed
<1>4. /\ DOMAIN disk' = {"snapshots", "trace", "state"}
      /\ disk'.snapshots = disk.snapshots /\ disk'.trace = disk.trace
  BY <1>1 DEF DriveInv, DiskInv
<1>5. DiskInv'
  <2>1. \A i \in DOMAIN disk'.snapshots : Storable(disk.snapshots[i])'
    BY <1>1, <1>2, <1>4, StorableMore DEF DriveInv, DiskInv
  <2>2. QED
    BY <1>2, <1>4, <2>1 DEF DriveInv, DiskInv, AnsweredBy
<1>6. PersistInv'
  BY <1>1, <1>2 DEF DriveInv, PersistInv, Persisting, Kind
<1>7. Trusted => Trusted'
  BY <1>1, <1>2, <1>4 DEF Trusted, Keeps
<1>8. QED
  BY <1>1, <1>3, <1>5, <1>6, <1>7 DEF DriveInv, EntrustedInv, PipesInv, PerformedInv
-----------------------------------------------------------------------------
(* A crash, a resume, and the host *)

LEMMA CrashStep == DriveInv /\ Crash => DriveInv'
<1> SUFFICES ASSUME DriveInv, Crash PROVE DriveInv'
  OBVIOUS
<1>1. /\ at' = "exited" /\ to_host' = None /\ from_host' = None
      /\ UNCHANGED hostVars /\ UNCHANGED <<files, disk, performed, entrusted>>
  BY DEF Crash, KeepSession, KeepHost
<1>2. UNCHANGED <<run, session, outstanding, granted, applied>>
  BY <1>1 DEF hostVars, recordVars
<1>3. ResolutionInv' /\ Kept(session, performed)' /\ DiskInv'
  BY <1>1, <1>2, SameSession, SameDisk DEF DriveInv, Kept, SnapshotsSealed, TraceFollowed
<1>4. PersistInv'
  BY <1>1 DEF DriveInv, PersistInv, Persisting
<1>5. Trusted => Trusted'
  BY <1>1, <1>2, StillTrusted DEF Extends
<1>6. QED
  BY <1>1, <1>3, <1>4, <1>5 DEF DriveInv, EntrustedInv, PipesInv, PerformedInv

LEMMA ResumeHostStep == DriveInv /\ ResumeHost => DriveInv'
<1> SUFFICES ASSUME DriveInv, ResumeHost PROVE DriveInv'
  OBVIOUS
<1>1. PICK n \in DOMAIN disk.snapshots :
        RestoreFrom(disk.snapshots[n], disk.trace) /\ entrusted' = GrantFor(disk.snapshots[n])
  BY DEF ResumeHost
<1> DEFINE snapshot == disk.snapshots[n]
<1>2. /\ restarts' = restarts + 1 /\ at' = "write_frame" /\ files' = 0
      /\ to_host' = None /\ from_host' = None /\ UNCHANGED <<disk, performed>>
  BY DEF ResumeHost
<1>3. Storable(snapshot) /\ IsSequence(disk.trace) /\ AnsweredBy(disk.trace, applied)
  BY DEF DriveInv, DiskInv
<1>4. /\ CanRewind(disk.trace, snapshot) /\ session' = Restored(disk.trace, snapshot)
      /\ UNCHANGED <<run, granted, applied>>
  BY <1>1 DEF RestoreFrom
<1>5. ResolutionInv' /\ Kind' = "hello"
  BY <1>1, <1>2, <1>3, RestoreFromStep DEF DriveInv, Storable
<1>6. Kept(session', performed)
  BY <1>3, <1>4, RestoredFollowed DEF Kept, Storable
<1>7. session'.snapshots = <<snapshot>>
  BY <1>4 DEF Restored, RestoredOn
<1>8. Trusted'
  <2>1. 1 \in DOMAIN session'.snapshots /\ session'.snapshots[1] = snapshot
    BY <1>7
  <2>2. IsPrefix(snapshot.checkpoint, disk.trace)
    BY <1>4 DEF CanRewind
  <2>3. QED
    BY <1>1, <1>2, <2>1, <2>2 DEF Trusted, Keeps
<1>9. DiskInv'
  BY <1>2, <1>4, SameDisk DEF DriveInv
<1>10. PersistInv'
  BY <1>2, <1>5 DEF PersistInv, Persisting
<1>11. QED
  BY <1>2, <1>5, <1>6, <1>8, <1>9, <1>10
     DEF DriveInv, EntrustedInv, PipesInv, PerformedInv, Kept, SnapshotsSealed, TraceFollowed

\* The host answers: the process and its files stay as they are.
LEMMA SendsStep ==
  ASSUME DriveInv, NEW reply, Sends(reply), performed \subseteq performed', PerformedInv',
         performed' # performed => Trusted,
         reply.kind = "effect_resolution" =>
           [grant |-> reply.grant, payload |-> reply.payload] \in performed'
  PROVE  DriveInv'
<1>1. /\ from_host' = reply /\ to_host' = None
      /\ UNCHANGED hostVars /\ UNCHANGED <<at, files, disk, entrusted>>
  BY DEF Sends, KeepSession
<1>2. UNCHANGED <<run, session, outstanding, granted, applied>>
  BY <1>1 DEF hostVars, recordVars
<1>3. ResolutionInv' /\ DiskInv'
  BY <1>1, <1>2, SameSession, SameDisk DEF DriveInv
<1>4. Kept(session, performed')
  BY KeptMore DEF DriveInv
<1>5. PersistInv'
  BY <1>1, <1>2 DEF DriveInv, PersistInv, Persisting, Written, Kind
<1>6. Trusted => Trusted'
  BY <1>1, <1>2, StillTrusted DEF Extends
<1>7. QED
  BY <1>1, <1>2, <1>3, <1>4, <1>5, <1>6
     DEF DriveInv, EntrustedInv, PipesInv, Kept, SnapshotsSealed, TraceFollowed

LEMMA HostPerformsStep ==
  ASSUME DriveInv, NEW payload, NEW usage, HostPerforms(payload, usage)
  PROVE  DriveInv'
<1> DEFINE grant == to_host.message.grant
           did == [grant |-> grant, payload |-> payload]
           reply == [session_id |-> RunId, in_reply_to |-> to_host.message_id,
                     kind |-> "effect_resolution", grant |-> grant, payload |-> payload,
                     usage |-> usage]
<1>1. /\ to_host # None /\ to_host.message.kind = "execute_grant"
      /\ \A done \in performed : done.grant = grant => done.payload = payload
      /\ performed' = performed \cup {did} /\ Sends(reply)
  BY DEF HostPerforms
<1>2. Trusted /\ grant = entrusted
  BY <1>1 DEF DriveInv, PipesInv
<1>3. PICK k \in DOMAIN session.snapshots : GrantFor(session.snapshots[k]) = entrusted
  BY <1>2 DEF Trusted, Keeps
<1>4. /\ IsSequence(grant.checkpoint) /\ EndsReserved(grant.checkpoint)
      /\ grant = GrantOf(grant.checkpoint)
  <2>1. Storable(session.snapshots[k])
    BY SealedAreStorable
  <2>2. grant.checkpoint = session.snapshots[k].checkpoint
    BY <1>2, <1>3 DEF GrantFor
  <2>3. QED
    BY <1>2, <1>3, <2>1, <2>2 DEF Storable, SealedWell, IsSuspended, IsMachine
<1>5. did.grant = grant /\ did.payload = payload
  OBVIOUS
<1>6. reply.grant = grant /\ reply.payload = payload
  OBVIOUS
<1> HIDE DEF grant, did, reply
<1>7. PerformedInv'
  BY <1>1, <1>4, <1>5 DEF DriveInv, PerformedInv
<1>8. [grant |-> reply.grant, payload |-> reply.payload] \in performed'
  BY <1>1, <1>6 DEF did
<1>9. QED
  BY <1>1, <1>2, <1>7, <1>8, SendsStep

LEMMA HostStepStep == DriveInv /\ HostStep => DriveInv'
<1> SUFFICES ASSUME DriveInv, HostStep PROVE DriveInv'
  OBVIOUS
<1>1. performed' = performed => PerformedInv'
  BY DEF DriveInv, PerformedInv
<1>2. CASE HostAcknowledges
  <2> DEFINE reply == [session_id |-> RunId, in_reply_to |-> to_host.message_id, kind |-> "hello_ack"]
  <2>1. Sends(reply) /\ performed' = performed /\ reply.kind = "hello_ack"
    BY <1>2 DEF HostAcknowledges
  <2> HIDE DEF reply
  <2>2. QED
    BY <1>1, <2>1, SendsStep
<1>3. ASSUME NEW maximums, HostDeclares(maximums)
      PROVE  DriveInv'
  <2> DEFINE reply == [session_id |-> RunId, in_reply_to |-> to_host.message_id,
                       kind |-> "effect_admission", request |-> to_host.message.request,
                       maximums |-> maximums]
  <2>1. Sends(reply) /\ performed' = performed
    BY <1>3 DEF HostDeclares
  <2>2. reply.kind = "effect_admission"
    OBVIOUS
  <2> HIDE DEF reply
  <2>3. QED
    BY <1>1, <2>1, <2>2, SendsStep
<1>4. QED
  BY <1>2, <1>3, HostPerformsStep DEF HostStep

LEMMA GoneStep == DriveInv /\ UNCHANGED driveVars => DriveInv'
<1> SUFFICES ASSUME DriveInv, UNCHANGED driveVars PROVE DriveInv'
  OBVIOUS
<1>1. /\ UNCHANGED hostVars
      /\ UNCHANGED <<at, files, disk, to_host, from_host, performed, entrusted>>
  BY DEF driveVars
<1>2. UNCHANGED <<run, session, outstanding, granted, applied>>
  BY <1>1 DEF hostVars, recordVars
<1>3. ResolutionInv' /\ Kept(session, performed)' /\ DiskInv'
  BY <1>1, <1>2, SameSession, SameDisk DEF DriveInv, Kept, SnapshotsSealed, TraceFollowed
<1>4. PersistInv'
  BY <1>1, <1>2 DEF DriveInv, PersistInv, Persisting, Written, Kind
<1>5. Trusted => Trusted'
  BY <1>1, <1>2, StillTrusted DEF Extends
<1>6. QED
  BY <1>1, <1>3, <1>4, <1>5 DEF DriveInv, EntrustedInv, PipesInv, PerformedInv

LEMMA DriveInvStep == DriveInv /\ [DriveNext]_driveVars => DriveInv'
BY WriteFrameStep, ReadFrameStep, PersistSnapshotStep, PersistTraceStep, PublishStateStep,
   HostStepStep, WriteFailsStep, ReadFailsStep, CrashStep, ResumeHostStep, GoneStep
   DEF DriveNext, ProcessStep, Gone

LEMMA DriveInvariant == DriveSpec => []DriveInv
BY DriveInvInit, DriveInvStep, PTL DEF DriveSpec
-----------------------------------------------------------------------------
(* The theorems *)

\* Whatever crashes, is resumed or fails to be written, the grant last given
\* to the host has a snapshot file that the trace file reaches (drive_host and
\* persist_host_session in crates/aster-cli/src/lib.rs).
THEOREM TheGrantIsDurable == DriveSpec => []GrantIsDurable
<1>1. DriveInv => GrantIsDurable
  BY DEF DriveInv, EntrustedInv, Trusted, Keeps, GrantIsDurable, Resumes, CanRewind
<1>2. QED
  BY <1>1, DriveInvariant, PTL

\* A sealed trace that goes on to another seal has its resolution in between.
LEMMA OneInDoubt ==
  ASSUME NEW last, IsSequence(last), EndsReserved(last), NEW done, Followed(last, done),
         NEW sealed, IsSequence(sealed), EndsReserved(sealed), IsPrefix(sealed, last), sealed # last
  PROVE  LET n == Len(sealed)
         IN  /\ n \in Nat /\ n + 2 \in DOMAIN last /\ last[n + 2].event = "effect_resolved"
             /\ [grant |-> GrantOf(sealed), payload |-> last[n + 2].payload] \in done
<1> DEFINE n == Len(sealed)
<1>1. /\ n \in Nat /\ Len(last) \in Nat /\ n <= Len(last) /\ DOMAIN last = 1..Len(last)
      /\ SubSeq(last, 1, n) = sealed /\ \A i \in 1..n : sealed[i] = last[i]
  BY PrefixParts
<1>2. n # Len(last)
  <2>1. SubSeq(last, 1, Len(last)) = last
    BY SubSeqFull DEF IsSequence
  <2>2. QED
    BY <1>1, <2>1
<1>3. n > 1 /\ Reserves(last[n])
  BY <1>1 DEF EndsReserved
<1> DEFINE m == Len(last)
<1>4. n \in Nat /\ m \in Nat /\ n <= m /\ n # m /\ n > 1 /\ DOMAIN last = 1..m
  BY <1>1, <1>2, <1>3
<1> HIDE DEF n, m
<1>5. n \in DOMAIN last /\ n + 1 \in DOMAIN last
  BY <1>4
<1>6. last[n + 1].event = "snapshot_written"
  BY <1>3, <1>5 DEF Followed
<1>7. n + 1 # m
  BY <1>6 DEF EndsReserved, Reserves, m
<1>8. n + 2 \in DOMAIN last
  BY <1>4, <1>7
<1>9. QED
  BY <1>1, <1>3, <1>5, <1>8 DEF Followed, n

\* Of the effects performed on the way to the grant last given, every one but
\* that grant's has its resolution on disk, behind its own seal (drive_host,
\* and docs/host-protocol.md on what a host must look up).
THEOREM OneInDoubtAtMost == DriveSpec => []OneEffectInDoubt
<1>1. ASSUME DriveInv PROVE OneEffectInDoubt
  <2> SUFFICES ASSUME NEW done \in performed, done.grant # entrusted,
                      IsPrefix(done.grant.checkpoint, entrusted.checkpoint)
               PROVE  LET n == Len(done.grant.checkpoint)
                      IN  /\ n + 2 \in DOMAIN disk.trace
                          /\ IsPrefix(done.grant.checkpoint, disk.trace)
                          /\ disk.trace[n + 2].event = "effect_resolved"
                          /\ disk.trace[n + 2].payload = done.payload
    BY DEF OneEffectInDoubt
  <2> DEFINE sealed == done.grant.checkpoint
             last == entrusted.checkpoint
             n == Len(sealed)
  <2>1. PICK k \in DOMAIN session.snapshots :
          /\ GrantFor(session.snapshots[k]) = entrusted
          /\ IsPrefix(session.snapshots[k].checkpoint, disk.trace)
    BY <1>1 DEF DriveInv, EntrustedInv, Trusted, Keeps
  <2>2. last = session.snapshots[k].checkpoint /\ Storable(session.snapshots[k])
    BY <1>1, <2>1, SealedAreStorable DEF GrantFor
  <2>3. /\ IsSequence(last) /\ EndsReserved(last) /\ Followed(last, performed)
        /\ entrusted = GrantOf(last)
    BY <2>1, <2>2 DEF Storable, SealedWell, IsSuspended, IsMachine
  <2>4. IsSequence(sealed) /\ EndsReserved(sealed) /\ done.grant = GrantOf(sealed)
    BY <1>1 DEF DriveInv, PerformedInv
  <2>5. /\ n \in Nat /\ n + 2 \in DOMAIN last /\ last[n + 2].event = "effect_resolved"
        /\ [grant |-> GrantOf(sealed), payload |-> last[n + 2].payload] \in performed
    BY <2>3, <2>4, OneInDoubt
  <2>6. last[n + 2].payload = done.payload
    BY <1>1, <2>4, <2>5 DEF DriveInv, PerformedInv
  <2>7. IsSequence(disk.trace) /\ IsPrefix(last, disk.trace)
    BY <1>1, <2>1, <2>2 DEF DriveInv, DiskInv
  <2> HIDE DEF last, sealed
  <2>8. /\ DOMAIN last = 1..Len(last) /\ DOMAIN disk.trace = 1..Len(disk.trace)
        /\ Len(last) <= Len(disk.trace) /\ Len(last) \in Nat /\ Len(disk.trace) \in Nat
        /\ \A i \in 1..Len(last) : last[i] = disk.trace[i]
    BY <2>3, <2>7, PrefixParts
  <2>9. n + 2 \in DOMAIN disk.trace /\ disk.trace[n + 2] = last[n + 2]
    BY <2>5, <2>8
  <2>10. IsPrefix(sealed, disk.trace)
    <3>1. /\ IsPrefix(sealed, last) /\ n <= Len(last) /\ \A i \in 1..n : sealed[i] = last[i]
      BY <2>3, <2>4, PrefixParts DEF sealed, last
    <3>2. n <= Len(disk.trace) /\ \A i \in 1..n : sealed[i] = disk.trace[i]
      BY <2>5, <2>8, <3>1
    <3>3. QED
      BY <2>4, <2>7, <3>2, PrefixIntro
  <2>11. QED
    BY <2>5, <2>6, <2>9, <2>10 DEF sealed
<1>2. QED
  BY <1>1, DriveInvariant, PTL

\* A session that is resumed from files keeps what HostSession proves of one
\* resumed from memory: its frames match it, and a resolution is applied to
\* the continuation its grant was sealed with (drive_host, restore_bytes).
THEOREM ResumedSessionsAreSessions ==
  DriveSpec => [](OutstandingMatchesSession /\ ResolutionsApplyToTheirGrants)
<1>1. DriveInv => OutstandingMatchesSession /\ ResolutionsApplyToTheirGrants
  BY DEF DriveInv, ResolutionInv, HostInv, AppliedAsGranted, AnsweredBy, ResolutionsApplyToTheirGrants
<1>2. QED
  BY <1>1, DriveInvariant, PTL
-----------------------------------------------------------------------------
(* What the files record of the run *)

\* The session tells its run, every snapshot file is the continuation of the
\* trace it is bound to, and the state is published from the trace on disk.
Recorded ==
  /\ Faithful(session)
  /\ \A n \in DOMAIN disk.snapshots : Described(disk.snapshots[n])
  /\ at = "publish_state" => disk.trace = session.trace /\ session.phase = "completed"

\* What holds of the values of the next state holds in the next state.
LEMMA RecordedNext ==
  ASSUME run' = run, Faithful(session'),
         \A n \in DOMAIN disk'.snapshots : Described(disk'.snapshots[n]),
         at' = "publish_state" => disk'.trace = session'.trace /\ session'.phase = "completed"
  PROVE  Recorded'
BY SameFaithful DEF Recorded

\* A step that leaves the session and the files alone, and publishes nothing
\* it did not publish before.
LEMMA RecordedStill ==
  ASSUME Recorded, UNCHANGED hostVars, disk' = disk, at' = at \/ at' # "publish_state"
  PROVE  Recorded'
<1>1. run' = run /\ session' = session
  BY DEF hostVars, recordVars
<1>2. QED
  BY <1>1, RecordedNext DEF Recorded

LEMMA ClosedRecorded ==
  ASSUME DriveInv, Recorded, EndOfInput, disk' = disk, at' # "publish_state"
  PROVE  Recorded'
<1>1. HostInv /\ Close(session) /\ run' = run
  BY DEF EndOfInput, DriveInv, ResolutionInv
<1>2. Faithful(session')
  BY <1>1, RefusalFaithful DEF Recorded
<1>3. QED
  BY <1>1, <1>2, RecordedNext DEF Recorded

LEMMA ReadRecorded == DriveInv /\ Recorded /\ ReadFrame => Recorded'
<1> SUFFICES ASSUME DriveInv, Recorded, ReadFrame PROVE Recorded'
  OBVIOUS
<1>1. HostInv /\ Reply(from_host) /\ disk' = disk /\ at' # "publish_state"
  BY DEF ReadFrame, KeepHost, NextStop, DriveInv, ResolutionInv
<1>2. Faithful(session') /\ run' = run
  BY <1>1, ReplyFaithful DEF Recorded
<1>3. QED
  BY <1>1, <1>2, RecordedNext DEF Recorded

LEMMA SnapshotRecordedOnDisk == DriveInv /\ Recorded /\ PersistSnapshot => Recorded'
<1> SUFFICES ASSUME DriveInv, Recorded, PersistSnapshot PROVE Recorded'
  OBVIOUS
<1> DEFINE n == files + 1
           old == disk.snapshots
           snapshot == session.snapshots[n]
           all == Replaced(old, n, snapshot)
<1>1. /\ Persisting /\ files < Len(session.snapshots) /\ files \in Nat /\ Written(files)
      /\ disk' = [disk EXCEPT !.snapshots = all] /\ at' = at /\ run' = run /\ session' = session
  BY DEF PersistSnapshot, KeepSession, KeepHost, Replaced, DriveInv, PersistInv, hostVars, recordVars
<1>2. /\ DOMAIN disk = {"snapshots", "trace", "state"} /\ IsSequence(old)
      /\ \A i \in DOMAIN old : Described(old[i])
  BY DEF DriveInv, DiskInv, Recorded
<1>3. n \in DOMAIN session.snapshots
  BY <1>1, SequenceParts DEF DriveInv, ResolutionInv, HostInv, IsSession
<1>4. Described(snapshot)
  BY <1>3 DEF Recorded, Faithful, SnapshotsTold
<1>5. n \in DOMAIN old \/ n = Len(old) + 1
  <2>1. files = 0 \/ files \in DOMAIN old
    <3>1. files = 0 \/ files \in 1..files
      BY <1>1
    <3>2. QED
      BY <1>1, <3>1 DEF Written
  <2>2. DOMAIN old = 1..Len(old) /\ Len(old) \in Nat
    BY <1>2, SequenceParts
  <2> HIDE DEF old
  <2>3. QED
    BY <1>1, <2>1, <2>2
<1>6. disk'.snapshots = all
  BY <1>1, <1>2
<1> HIDE DEF old, n, snapshot
<1>7. all = Replaced(old, n, snapshot)
  OBVIOUS
<1> HIDE DEF all
<1>8. /\ all[n] = snapshot
      /\ \A i : i \in DOMAIN all <=> i \in DOMAIN old \/ i = n
      /\ \A i \in DOMAIN old : i # n => all[i] = old[i]
  BY <1>2, <1>5, <1>7, ReplacedParts
<1>9. \A i \in DOMAIN all : Described(all[i])
  <2>1. ASSUME NEW i \in DOMAIN all PROVE Described(all[i])
    <3>1. CASE i = n
      BY <1>4, <1>8, <3>1
    <3>2. CASE i # n
      BY <1>2, <1>8, <3>2
    <3>3. QED
      BY <3>1, <3>2
  <2>2. QED
    BY <2>1
<1>10. at' # "publish_state"
  BY <1>1 DEF Persisting
<1>11. QED
  BY <1>1, <1>6, <1>9, <1>10, RecordedNext DEF Recorded

LEMMA TraceRecordedOnDisk == DriveInv /\ Recorded /\ PersistTrace => Recorded'
<1> SUFFICES ASSUME DriveInv, Recorded, PersistTrace PROVE Recorded'
  OBVIOUS
<1>1. /\ disk' = [disk EXCEPT !.trace = session.trace] /\ run' = run /\ session' = session
      /\ at' = "publish_state" => Kind = "completed"
  BY DEF PersistTrace, KeepSession, KeepHost, hostVars, recordVars
<1>2. DOMAIN disk = {"snapshots", "trace", "state"}
  BY DEF DriveInv, DiskInv
<1>3. disk'.snapshots = disk.snapshots /\ disk'.trace = session.trace
  BY <1>1, <1>2
<1>4. Kind = "completed" => session.phase = "completed"
  BY DEF DriveInv, ResolutionInv, HostInv, OutstandingMatchesSession
<1>5. QED
  BY <1>1, <1>3, <1>4, RecordedNext DEF Recorded

LEMMA PublishRecorded == DriveInv /\ Recorded /\ PublishState => Recorded'
<1> SUFFICES ASSUME DriveInv, Recorded, PublishState PROVE Recorded'
  OBVIOUS
<1>1. /\ disk' = [disk EXCEPT !.state = session.outcome] /\ at' = "write_frame"
      /\ run' = run /\ session' = session
  BY DEF PublishState, KeepSession, KeepHost, hostVars, recordVars
<1>2. DOMAIN disk = {"snapshots", "trace", "state"}
  BY DEF DriveInv, DiskInv
<1>3. disk'.snapshots = disk.snapshots
  BY <1>1, <1>2
<1>4. QED
  BY <1>1, <1>3, RecordedNext DEF Recorded

LEMMA ResumeRecorded == DriveInv /\ Recorded /\ ResumeHost => Recorded'
<1> SUFFICES ASSUME DriveInv, Recorded, ResumeHost PROVE Recorded'
  OBVIOUS
<1>1. PICK n \in DOMAIN disk.snapshots : RestoreFrom(disk.snapshots[n], disk.trace)
  BY DEF ResumeHost
<1> DEFINE snapshot == disk.snapshots[n]
<1>2. IsSuspended(snapshot) /\ Described(snapshot) /\ IsSequence(disk.trace)
  BY DEF DriveInv, DiskInv, Storable, Recorded
<1>3. RestoreFrom(snapshot, disk.trace) /\ disk' = disk /\ at' = "write_frame"
  BY <1>1 DEF ResumeHost
<1> HIDE DEF snapshot
<1>4. Faithful(session') /\ run' = run
  BY <1>2, <1>3, RestoreFromFaithful
<1>5. QED
  BY <1>3, <1>4, RecordedNext DEF Recorded

LEMMA RecordedStep == DriveInv /\ Recorded /\ [DriveNext]_driveVars => Recorded'
<1> SUFFICES ASSUME DriveInv, Recorded, [DriveNext]_driveVars PROVE Recorded'
  OBVIOUS
<1>1. CASE WriteFrame
  BY <1>1, RecordedStill DEF WriteFrame, KeepSession
<1>2. CASE HostStep
  <2>1. UNCHANGED hostVars /\ disk' = disk /\ at' = at
    BY <1>2 DEF HostStep, HostAcknowledges, HostDeclares, HostPerforms, Sends, KeepSession
  <2>2. QED
    BY <2>1, RecordedStill
<1>3. CASE WriteFails
  <2>1. disk' = disk /\ at' # "publish_state" /\ (EndOfInput \/ UNCHANGED hostVars)
    BY <1>3 DEF WriteFails, KeepSession
  <2>2. QED
    BY <2>1, RecordedStill, ClosedRecorded
<1>4. CASE ReadFails
  BY <1>4, ClosedRecorded DEF ReadFails
<1>5. CASE Crash
  BY <1>5, RecordedStill DEF Crash, KeepSession
<1>6. CASE UNCHANGED driveVars
  BY <1>6, RecordedStill DEF driveVars
<1>7. QED
  BY <1>1, <1>2, <1>3, <1>4, <1>5, <1>6, ReadRecorded, SnapshotRecordedOnDisk,
     TraceRecordedOnDisk, PublishRecorded, ResumeRecorded DEF DriveNext, ProcessStep, Gone

LEMMA RecordedInvariant == DriveSpec => [](DriveInv /\ Recorded)
<1>1. DriveInit => DriveInv /\ Recorded
  <2>1. ASSUME DriveInit PROVE Recorded
    <3>1. /\ run \in Runs /\ session = Started /\ at # "publish_state"
          /\ disk = [snapshots |-> <<>>, trace |-> <<>>, state |-> None]
      BY <2>1 DEF DriveInit, HostInit
    <3>2. DOMAIN disk.snapshots = {}
      BY <3>1
    <3>3. QED
      BY <3>1, <3>2, StartedIsFaithful DEF Recorded
  <2>2. QED
    BY <2>1, DriveInvInit
<1>2. (DriveInv /\ Recorded) /\ [DriveNext]_driveVars => (DriveInv /\ Recorded)'
  BY DriveInvStep, RecordedStep
<1>3. QED
  BY <1>1, <1>2, PTL DEF DriveSpec

\* The answers and the ledger of a snapshot are those its trace replays to.
LEMMA DescribedBefore ==
  ASSUME run \in Runs, NEW snapshot, Described(snapshot)
  PROVE  LET prefix == snapshot.checkpoint
         IN  \E r \in ReplayedTo(prefix, Count(prefix, "budget_settled")) :
               r.answers = snapshot.answers /\ r.budget = snapshot.pending.before
<1> DEFINE prefix == snapshot.checkpoint
           c == Count(prefix, "effect_resolved")
           a == Admitted(snapshot)
<1>1. Waits(prefix, snapshot)
  BY DEF Described
<1>2. Count(prefix, "budget_settled") = c
  BY <1>1 DEF Waits, Tally
<1>3. \E r \in ReplayedTo(prefix, c) :
        IsMachine(r) /\ CanYield(r) /\ Alike(UsageReserved(Yielded(r), a), snapshot)
  BY <1>1 DEF Waits
<1>4. PICK r \in ReplayedTo(prefix, c) :
        IsMachine(r) /\ CanYield(r) /\ Alike(UsageReserved(Yielded(r), a), snapshot)
  BY <1>3
<1> DEFINE y == Yielded(r)
           u == UsageReserved(y, a)
<1>5. IsSuspended(y) /\ y.answers = r.answers
  BY <1>4, YieldedParts
<1>6. y.pending.before = r.budget
  BY <1>4 DEF Yielded, IsMachine
<1>7. u.answers = snapshot.answers /\ u.pending = snapshot.pending
  BY <1>4 DEF Alike
<1> HIDE DEF y, a
<1>8. u.answers = y.answers /\ u.pending.before = y.pending.before
  <2>1. CASE DOMAIN a = {}
    BY <1>5, <2>1, ReservedParts
  <2>2. CASE DOMAIN a # {}
    <3> DEFINE more == MoreHeld(y, a)
    <3>1. u.answers = y.answers /\ u.pending = [y.pending EXCEPT !.held = more]
      BY <1>5, <2>2, ReservedParts
    <3> HIDE DEF more, u
    <3>2. QED
      BY <1>5, <3>1 DEF IsSuspended
  <2>3. QED
    BY <2>1, <2>2
<1> HIDE DEF u, c, prefix
<1>9. r.answers = snapshot.answers /\ r.budget = snapshot.pending.before
  BY <1>5, <1>6, <1>7, <1>8
<1>10. r \in ReplayedTo(prefix, Count(prefix, "budget_settled"))
  BY <1>2, <1>4
<1>11. QED
  BY <1>9, <1>10 DEF prefix

\* A snapshot file that host-resume accepts has the answers and the ledger
\* that the trace file holds up to its checkpoint, whatever earlier lives of
\* the process left in the directory (persist_host_session, restore_bytes).
THEOREM ResumableFilesAreDescribed == DriveSpec => []ResumableFilesMatchTheTrace
<1>1. ASSUME DriveInv, Recorded PROVE ResumableFilesMatchTheTrace
  <2> SUFFICES ASSUME NEW n \in DOMAIN disk.snapshots, Resumes(disk.snapshots[n])
               PROVE  LET snapshot == disk.snapshots[n]
                          prefix == SubSeq(disk.trace, 1, Len(snapshot.checkpoint))
                      IN  \E replayed \in ReplayedTo(prefix, Count(prefix, "budget_settled")) :
                            /\ replayed.answers = snapshot.answers
                            /\ replayed.budget = snapshot.pending.before
    BY DEF ResumableFilesMatchTheTrace
  <2> DEFINE snapshot == disk.snapshots[n]
             prefix == SubSeq(disk.trace, 1, Len(snapshot.checkpoint))
  <2>1. /\ run \in Runs /\ Described(snapshot) /\ IsSequence(snapshot.checkpoint)
        /\ IsSequence(disk.trace) /\ IsPrefix(snapshot.checkpoint, disk.trace)
    BY <1>1 DEF DriveInv, ResolutionInv, HostInv, DiskInv, Storable, IsSuspended, IsMachine,
                Recorded, Resumes, CanRewind
  <2>2. prefix = snapshot.checkpoint
    BY <2>1, PrefixParts
  <2> HIDE DEF snapshot, prefix
  <2>3. \E r \in ReplayedTo(prefix, Count(prefix, "budget_settled")) :
          r.answers = snapshot.answers /\ r.budget = snapshot.pending.before
    BY <2>1, <2>2, DescribedBefore
  <2>4. QED
    BY <2>3 DEF snapshot, prefix
<1>2. QED
  BY <1>1, RecordedInvariant, PTL

\* The state file is published from a completed session whose trace is on
\* disk already.
LEMMA PublishedReplays ==
  ASSUME DriveInv, Recorded, [DriveNext]_driveVars, disk'.state # disk.state
  PROVE  Replays(disk.trace) /\ Last(disk.trace) = RunCompleted(disk'.state)
<1>1. DOMAIN disk = {"snapshots", "trace", "state"}
  BY DEF DriveInv, DiskInv
<1>2. CASE PublishState
  <2>1. at = "publish_state" /\ disk' = [disk EXCEPT !.state = session.outcome]
    BY <1>2 DEF PublishState
  <2>2. disk'.state = session.outcome
    BY <1>1, <2>1
  <2>3. disk.trace = session.trace /\ session.phase = "completed"
    BY <2>1 DEF Recorded
  <2>4. Replays(session.trace) /\ Last(session.trace) = RunCompleted(session.outcome)
    BY <2>3 DEF Recorded, Faithful
  <2>5. QED
    BY <2>2, <2>3, <2>4
<1>3. CASE PersistSnapshot
  <2>1. \E all : disk' = [disk EXCEPT !.snapshots = all]
    BY <1>3 DEF PersistSnapshot
  <2>2. QED
    BY <1>1, <2>1
<1>4. CASE PersistTrace
  <2>1. disk' = [disk EXCEPT !.trace = session.trace]
    BY <1>4 DEF PersistTrace
  <2>2. QED
    BY <1>1, <2>1
<1>5. ~HostStep
  BY DEF HostStep, HostAcknowledges, HostDeclares, HostPerforms, Sends
<1>6. ~WriteFrame /\ ~ReadFrame /\ ~WriteFails /\ ~ReadFails /\ ~Crash /\ ~ResumeHost
  BY DEF WriteFrame, ReadFrame, WriteFails, ReadFails, Crash, ResumeHost
<1>7. ~ UNCHANGED driveVars
  BY DEF driveVars
<1>8. QED
  BY <1>2, <1>3, <1>4, <1>5, <1>6, <1>7 DEF DriveNext, ProcessStep, Gone

\* The state file changes only when a trace that replays to that very state is
\* already on disk (host_run: the trace is replaced before the state).
THEOREM PublishedStatesReplay == DriveSpec => PublishedStateReplays
<1>1. (DriveInv /\ Recorded) /\ [DriveNext]_driveVars
        => [disk'.state # disk.state =>
              /\ Replays(disk.trace)
              /\ Last(disk.trace) = RunCompleted(disk'.state)]_driveVars
  BY PublishedReplays
<1>2. QED
  BY <1>1, RecordedInvariant, PTL DEF DriveSpec, PublishedStateReplays
=============================================================================
