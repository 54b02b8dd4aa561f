-------------------------- MODULE HostSessionProofs --------------------------
(***************************************************************************)
(* The frames of the sequencer agree with its record session, its          *)
(* conversations are those HostProtocol allows, and what it records can be *)
(* replayed, for every program, host, and number of restores.              *)
(***************************************************************************)
EXTENDS HostSession, RecordSessionProofs

(* The inductive invariant *)

AreGranted(snapshots) == \A n \in DOMAIN snapshots : GrantFor(snapshots[n]) \in granted

\* The session is one, every sealed snapshot was granted, and the outstanding
\* frame says where the session is.
HostInv ==
  /\ run \in Runs /\ restarts \in Nat
  /\ IsSession(session) /\ ~session.error
  /\ AreGranted(session.snapshots)
  /\ Kind \in {"hello", "effect_preview", "execute_grant", "completed", "failed"}
  /\ OutstandingMatchesSession

\* The program never changes, so that a session of the next state is one.
LEMMA SameProgram ==
  ASSUME run' = run, IsSession(session')
  PROVE  IsSession(session)'
BY DEF IsSession, IsSuspended, IsMachine, Reaction

LEMMA HostInvInit == HostInit => HostInv
<1> SUFFICES ASSUME HostInit PROVE HostInv
  OBVIOUS
<1>1. run \in Runs /\ restarts = 0 /\ session = Started /\ outstanding = Hello
  BY DEF HostInit
<1>2. Kind = "hello"
  BY <1>1 DEF Kind, Hello
<1>3. IsSequence(Header) /\ IsSequence(<<>>)
  <2>1. \A S : <<>> \in Seq(S)
    OBVIOUS
  <2>2. Header \in Seq({[event |-> "run_header"], [event |-> "event_received"],
                        [event |-> "fingerprints"]})
    BY DEF Header
  <2>3. QED
    BY <2>1, <2>2, SeqOfRange DEF IsSequence
<1>4. IsMachine(NewMachine)
  BY <1>1, <1>3, RunsAssumption DEF IsMachine, NewMachine, IsProgram
<1>5. IsSession(Started) /\ ~Started.error /\ DOMAIN Started.snapshots = {}
  <2> DEFINE m == NewMachine
             h == Header
  <2>1. Started = [machine |-> m, trace |-> h, snapshots |-> <<>>, phase |-> "running",
                   outcome |-> None, error |-> FALSE]
    BY DEF Started
  <2>2. IsMachine(m) /\ IsSequence(h)
    BY <1>3, <1>4
  <2> HIDE DEF m, h
  <2>3. QED
    BY <1>3, <2>1, <2>2 DEF IsSession, Waiting
<1>6. OutstandingMatchesSession
  BY <1>1, <1>2 DEF OutstandingMatchesSession
<1>7. QED
  BY <1>1, <1>2, <1>5, <1>6 DEF HostInv, AreGranted

\* transition_failed of a session that goes on.
LEMMA CloseStep ==
  ASSUME HostInv, NEW s, IsSession(s), AreGranted(s.snapshots), ~Terminal, Close(s),
         UNCHANGED <<run, restarts, granted>>
  PROVE  HostInv' /\ Kind' = "failed"
<1>1. session' = Fail(s) /\ Kind' = "failed"
  BY DEF Close, Emit, Kind
<1>2. /\ IsSession(session') /\ session'.snapshots = s.snapshots
      /\ session'.phase = "failed" /\ ~session'.error /\ Last(session'.trace) = RunFailed
  BY <1>1, FailIsSession
<1>3. IsSession(session)'
  BY <1>2, SameProgram
<1>4. OutstandingMatchesSession'
  BY <1>1, <1>2 DEF OutstandingMatchesSession, RunFailed
<1>5. QED
  BY <1>1, <1>2, <1>3, <1>4 DEF HostInv, AreGranted

\* A session that ended stays as it is.
LEMMA TerminalStep ==
  ASSUME HostInv, UNCHANGED <<session, outstanding, run, restarts, granted>>
  PROVE  HostInv'
<1>1. IsSession(session)'
  BY SameProgram DEF HostInv
<1>2. AreGranted(session.snapshots)' /\ Kind' = Kind
  BY DEF HostInv, AreGranted, Kind
<1>3. OutstandingMatchesSession'
  BY <1>2 DEF HostInv, OutstandingMatchesSession, Started, NewMachine
<1>4. QED
  BY <1>1, <1>2, <1>3 DEF HostInv

\* advance_record: a running session is previewed, completes or fails; a
\* resumed one is granted again.
LEMMA AdvanceStep ==
  ASSUME HostInv, NEW s, IsSession(s), ~s.error, AreGranted(s.snapshots), ~Terminal,
         \/ s.phase = "running"
         \/ /\ s.phase = "awaiting_resolution"
            /\ s.machine = Last(s.snapshots) /\ GrantFor(s.machine) \in granted,
         Advance(s), UNCHANGED <<run, restarts>>
  PROVE  /\ HostInv' /\ granted' = granted
         /\ \/ Kind' = "failed"
            \/ s.phase = "running" /\ Kind' = "completed"
            \/ /\ s.phase = "running" /\ Kind' = "effect_preview"
               /\ outstanding'.message.request \in Requests
            \/ /\ s.phase = "awaiting_resolution" /\ Kind' = "execute_grant"
               /\ outstanding'.message.grant \in granted
<1> DEFINE p == Progressed(s)
<1>1. /\ IsSession(p) /\ p.snapshots = s.snapshots
      /\ s.phase = "running" =>
           /\ ~p.error => p.phase \in {"awaiting_admission", "completed"}
           /\ p.phase # "awaiting_resolution"
           /\ p.phase = "awaiting_admission" => p.machine.pending.request \in Requests
      /\ s.phase = "awaiting_resolution" => p = s
  <2>1. CASE s.phase = "running"
    BY <2>1, ProgressedIsSession DEF HostInv
  <2>2. CASE s.phase = "awaiting_resolution"
    BY <2>2 DEF Progressed
  <2>3. QED
    BY <2>1, <2>2
<1>2. \/ p.error /\ Close(p) /\ UNCHANGED granted
      \/ /\ ~p.error /\ p.phase = "awaiting_admission"
         /\ Emit(p, [kind |-> "effect_preview", request |-> p.machine.pending.request])
         /\ UNCHANGED granted
      \/ ~p.error /\ p.phase = "awaiting_resolution" /\ EmitGrant(p)
      \/ /\ ~p.error /\ p.phase = "completed"
         /\ Emit(p, [kind |-> "completed", trace |-> p.trace]) /\ UNCHANGED granted
  BY DEF Advance
<1> HIDE DEF p
<1>3. CASE p.error /\ Close(p) /\ UNCHANGED granted
  BY <1>1, <1>3, CloseStep DEF AreGranted
<1>4. CASE /\ ~p.error /\ p.phase = "awaiting_admission"
           /\ Emit(p, [kind |-> "effect_preview", request |-> p.machine.pending.request])
           /\ UNCHANGED granted
  <2>1. /\ session' = p /\ Kind' = "effect_preview"
        /\ outstanding'.message.request = p.machine.pending.request
    BY <1>4 DEF Emit, Kind
  <2>2. s.phase = "running" /\ outstanding'.message.request \in Requests
    BY <1>1, <1>4, <2>1
  <2>3. IsSession(session)'
    BY <1>1, <2>1, SameProgram
  <2>4. OutstandingMatchesSession'
    BY <1>4, <2>1 DEF OutstandingMatchesSession
  <2>5. HostInv'
    BY <1>1, <1>4, <2>1, <2>3, <2>4 DEF HostInv, AreGranted
  <2>6. QED
    BY <1>4, <2>1, <2>2, <2>5
<1>5. CASE ~p.error /\ p.phase = "awaiting_resolution" /\ EmitGrant(p)
  <2>1. s.phase = "awaiting_resolution" /\ p = s
    BY <1>1, <1>5
  <2>2. /\ session' = s /\ Kind' = "execute_grant"
        /\ outstanding'.message.grant = GrantFor(s.machine)
        /\ granted' = granted
    BY <1>5, <2>1 DEF Emit, EmitGrant, Kind
  <2>3. IsSession(session)'
    BY <2>2, SameProgram
  <2>4. OutstandingMatchesSession'
    BY <2>1, <2>2 DEF OutstandingMatchesSession
  <2>5. HostInv'
    BY <2>2, <2>3, <2>4 DEF HostInv, AreGranted
  <2>6. QED
    BY <2>1, <2>2, <2>5
<1>6. CASE /\ ~p.error /\ p.phase = "completed"
           /\ Emit(p, [kind |-> "completed", trace |-> p.trace]) /\ UNCHANGED granted
  <2>1. /\ session' = p /\ Kind' = "completed" /\ outstanding'.message.trace = p.trace
    BY <1>6 DEF Emit, Kind
  <2>2. s.phase = "running"
    BY <1>1, <1>6
  <2>3. IsSession(session)'
    BY <1>1, <2>1, SameProgram
  <2>4. OutstandingMatchesSession'
    BY <1>6, <2>1 DEF OutstandingMatchesSession
  <2>5. HostInv'
    BY <1>1, <1>6, <2>1, <2>3, <2>4 DEF HostInv, AreGranted
  <2>6. QED
    BY <1>6, <2>1, <2>2, <2>5
<1>7. QED
  BY <1>2, <1>3, <1>4, <1>5, <1>6
-----------------------------------------------------------------------------
(* The replies *)

\* hello_ack: the first conversation runs, a resumed one is granted again.
LEMMA AckStep ==
  ASSUME HostInv, NEW reply, AcceptAck(reply)
  PROVE  /\ HostInv' /\ granted' = granted /\ Kind = "hello"
         /\ \/ Kind' = "failed"
            \/ restarts = 0 /\ Kind' = "completed"
            \/ restarts = 0 /\ Kind' = "effect_preview" /\ outstanding'.message.request \in Requests
            \/ /\ restarts # 0 /\ Kind' = "execute_grant"
               /\ outstanding'.message.grant \in granted
<1>1. Kind = "hello" /\ ~Terminal /\ Advance(session) /\ UNCHANGED <<run, restarts>>
  BY DEF AcceptAck, Acknowledges, Terminal
<1>2. CASE restarts = 0
  <2>1. session.phase = "running"
    BY <1>1, <1>2 DEF HostInv, OutstandingMatchesSession, Started
  <2>2. QED
    BY <1>1, <1>2, <2>1, AdvanceStep DEF HostInv
<1>3. CASE restarts # 0
  <2>1. /\ GrantFor(session.machine) \in granted
        /\ session = Restored(session.trace, session.machine)
    BY <1>1, <1>3 DEF HostInv, OutstandingMatchesSession
  <2>2. session.phase = "awaiting_resolution" /\ session.snapshots = <<session.machine>>
    BY <2>1 DEF Restored, RestoredOn
  <2>3. session.machine = Last(session.snapshots)
    BY <2>2 DEF Last
  <2>4. QED
    BY <1>1, <1>3, <2>1, <2>2, <2>3, AdvanceStep DEF HostInv
<1>4. QED
  BY <1>2, <1>3

\* effect_admission: the previewed effect is granted.
LEMMA AdmissionStep ==
  ASSUME HostInv, NEW reply, AcceptAdmission(reply)
  PROVE  /\ HostInv' /\ Kind = "effect_preview"
         /\ \/ Kind' = "failed" /\ granted' = granted
            \/ /\ Kind' = "execute_grant"
               /\ granted' = granted \cup {outstanding'.message.grant}
               /\ outstanding'.message.grant.request = outstanding.message.request
<1> DEFINE a == Admit(session, reply.request, reply.maximums)
<1>1. /\ Kind = "effect_preview" /\ ~Terminal /\ UNCHANGED <<run, restarts>>
      /\ reply.request = outstanding.message.request
      /\ IF a.error THEN Close(a) /\ UNCHANGED granted ELSE EmitGrant(a)
  BY DEF AcceptAdmission, Admits, Terminal
<1>2. /\ IsSession(a)
      /\ \/ a.error /\ a.snapshots = session.snapshots
         \/ /\ a.error = session.error /\ a.phase = "awaiting_resolution"
            /\ a.snapshots = Append(session.snapshots, a.machine)
            /\ a.machine.pending.request = reply.request
  BY AdmitIsSession DEF HostInv
<1> HIDE DEF a
<1>3. CASE a.error
  <2>1. Close(a) /\ UNCHANGED granted /\ AreGranted(a.snapshots)
    BY <1>1, <1>2, <1>3 DEF HostInv
  <2>2. QED
    BY <1>1, <1>2, <2>1, CloseStep
<1>4. CASE ~a.error
  <2> DEFINE m == a.machine
             snaps == session.snapshots
  <2>1. /\ session' = a /\ Kind' = "execute_grant" /\ outstanding'.message.grant = GrantFor(m)
        /\ granted' = granted \cup {GrantFor(m)}
    BY <1>1, <1>4 DEF EmitGrant, Emit, Kind
  <2>2. /\ a.phase = "awaiting_resolution" /\ a.snapshots = Append(snaps, m)
        /\ m.pending.request = reply.request
    BY <1>2, <1>4 DEF HostInv
  <2>3. GrantFor(m).request = outstanding.message.request
    BY <1>1, <2>2 DEF GrantFor
  <2>4. /\ DOMAIN snaps = 1..Len(snaps) /\ Len(snaps) \in Nat
        /\ Len(a.snapshots) = Len(snaps) + 1
        /\ DOMAIN a.snapshots = 1..(Len(snaps) + 1)
        /\ \A i \in 1..Len(snaps) : a.snapshots[i] = snaps[i]
        /\ a.snapshots[Len(snaps) + 1] = m
    BY <2>2, AppendIsSequence DEF HostInv, IsSession
  <2>5. m = Last(a.snapshots)
    BY <2>4 DEF Last
  <2>6. AreGranted(session.snapshots)'
    <3> SUFFICES ASSUME NEW n \in 1..(Len(snaps) + 1)
                 PROVE  GrantFor(a.snapshots[n]) \in granted'
      BY <2>1, <2>4 DEF AreGranted
    <3>1. CASE n \in 1..Len(snaps)
      BY <2>1, <2>4, <3>1 DEF HostInv, AreGranted
    <3>2. CASE n = Len(snaps) + 1
      BY <2>1, <2>4, <3>2
    <3>3. n \in 1..Len(snaps) \/ n = Len(snaps) + 1
      BY <2>4
    <3>4. QED
      BY <3>1, <3>2, <3>3
  <2>7. IsSession(session)'
    BY <1>1, <1>2, <2>1, SameProgram
  <2>8. OutstandingMatchesSession'
    BY <2>1, <2>2, <2>5 DEF OutstandingMatchesSession
  <2>9. HostInv'
    BY <1>1, <1>4, <2>1, <2>6, <2>7, <2>8 DEF HostInv
  <2>10. QED
    BY <1>1, <2>1, <2>3, <2>9
<1>5. QED
  BY <1>3, <1>4

\* effect_resolution: the program goes on, or the session fails.
LEMMA ResolutionStep ==
  ASSUME HostInv, NEW reply, AcceptResolution(reply)
  PROVE  /\ HostInv' /\ granted' = granted /\ Kind = "execute_grant"
         /\ \/ Kind' \in {"failed", "completed"}
            \/ Kind' = "effect_preview" /\ outstanding'.message.request \in Requests
<1> DEFINE r == Resolve(session, reply.grant.request, reply.payload, reply.usage)
<1>1. /\ Kind = "execute_grant" /\ ~Terminal /\ UNCHANGED <<run, restarts>>
      /\ IF r.error THEN Close(r) /\ UNCHANGED granted ELSE Advance(r)
  BY DEF AcceptResolution, Resolves, Terminal
<1>2. /\ IsSession(r) /\ AreGranted(r.snapshots)
      /\ ~r.error => r.phase = "running"
  BY ResolveIsSession DEF HostInv
<1> HIDE DEF r
<1>3. CASE r.error
  BY <1>1, <1>2, <1>3, CloseStep
<1>4. CASE ~r.error
  BY <1>1, <1>2, <1>4, AdvanceStep
<1>5. QED
  BY <1>3, <1>4

\* Any other reply, and the end of input.
LEMMA RefusalStep ==
  ASSUME HostInv, Close(session), UNCHANGED <<run, restarts, granted>>
  PROVE  /\ HostInv' /\ granted' = granted
         /\ \/ UNCHANGED outstanding
            \/ ~Terminal /\ Kind' = "failed"
<1>1. CASE Terminal
  <2>1. UNCHANGED <<session, outstanding>>
    BY <1>1 DEF Close
  <2>2. QED
    BY <2>1, TerminalStep
<1>2. CASE ~Terminal
  BY <1>2, CloseStep DEF HostInv
<1>3. QED
  BY <1>1, <1>2

\* A snapshot of the session is restored to the grant it was sealed for.
LEMMA RestoreStep ==
  ASSUME HostInv, RestoreHost
  PROVE  /\ HostInv' /\ granted' = granted /\ granted # {}
         /\ Kind' = "hello" /\ restarts' > 0
<1>1. PICK n \in DOMAIN session.snapshots : RestoreFrom(session.snapshots[n], session.trace)
  BY DEF RestoreHost
<1> DEFINE m == session.snapshots[n]
           s == Restored(session.trace, m)
<1>2. /\ CanRewind(session.trace, m) /\ session' = s /\ outstanding' = Hello
      /\ UNCHANGED <<run, granted>> /\ restarts' = restarts + 1 /\ restarts' > 0
      /\ restarts' \in Nat
  BY <1>1 DEF RestoreFrom, RestoreHost, HostInv
<1>3. IsSuspended(m) /\ GrantFor(m) \in granted /\ IsSequence(session.trace)
  BY DEF HostInv, IsSession, AreGranted
<1>4. /\ IsSession(s) /\ ~s.error /\ s.machine = m /\ s.snapshots = <<m>>
      /\ s = Restored(s.trace, m)
  BY <1>2, <1>3, RestoredIsSession
<1>5. Kind' = "hello"
  BY <1>2 DEF Kind, Hello
<1> HIDE DEF s, m
<1>6. IsSession(session)'
  BY <1>2, <1>4, SameProgram
<1>7. AreGranted(session.snapshots)'
  BY <1>2, <1>3, <1>4 DEF AreGranted
<1>8. Restored(session.trace, session.machine)' = Restored(session'.trace, session'.machine)
  BY DEF Restored, RestoredOn
<1>9. OutstandingMatchesSession'
  BY <1>2, <1>3, <1>4, <1>5, <1>8 DEF OutstandingMatchesSession
<1>10. QED
  BY <1>2, <1>3, <1>4, <1>5, <1>6, <1>7, <1>9 DEF HostInv
-----------------------------------------------------------------------------
(* The theorems *)

LEMMA HostInvStep == HostInv /\ [HostNext]_hostVars => HostInv'
<1> SUFFICES ASSUME HostInv, [HostNext]_hostVars PROVE HostInv'
  OBVIOUS
<1>1. ASSUME NEW reply, Reply(reply) PROVE HostInv'
  <2>1. CASE AcceptAck(reply)
    BY <2>1, AckStep
  <2>2. CASE AcceptAdmission(reply)
    BY <2>2, AdmissionStep
  <2>3. CASE AcceptResolution(reply)
    BY <2>3, ResolutionStep
  <2>4. CASE RefuseReply(reply)
    BY <2>4, RefusalStep DEF RefuseReply
  <2>5. QED
    BY <1>1, <2>1, <2>2, <2>3, <2>4 DEF Reply
<1>2. CASE EndOfInput
  BY <1>2, RefusalStep DEF EndOfInput
<1>3. CASE RestoreHost
  BY <1>3, RestoreStep
<1>4. CASE UNCHANGED hostVars
  BY <1>4, TerminalStep DEF hostVars, recordVars
<1>5. QED
  BY <1>1, <1>2, <1>3, <1>4 DEF HostNext

\* The outstanding frame and the record session never disagree, whatever the
\* host sends and however often the session is restored.
THEOREM FramesMatchSessions == HostSpec => []OutstandingMatchesSession
<1>1. HostInv => OutstandingMatchesSession
  BY DEF HostInv
<1>2. QED
  BY HostInvInit, HostInvStep, <1>1, PTL DEF HostSpec

Awaited ==
  CASE Kind = "hello"          -> "hello_ack"
    [] Kind = "effect_preview" -> "effect_admission"
    [] Kind = "execute_grant"  -> "effect_resolution"
    [] OTHER                   -> "none"

Effect ==
  CASE Kind = "effect_preview" -> outstanding.message.request
    [] Kind = "execute_grant"  -> outstanding.message.grant.request
    [] OTHER                   -> None

LEMMA ProtocolVars == Protocol!pvars = <<Awaited, Effect, granted, restarts > 0>>
BY DEF Protocol!pvars, Awaited, Effect

LEMMA ProtocolInit == HostInit => Protocol!PInit
BY DEF HostInit, Protocol!PInit, Hello, Kind

LEMMA ProtocolStep == HostInv /\ [HostNext]_hostVars => [Protocol!PNext]_(Protocol!pvars)
<1> SUFFICES ASSUME HostInv, [HostNext]_hostVars
             PROVE  Protocol!PNext \/ UNCHANGED <<Awaited, Effect, granted, restarts > 0>>
  BY ProtocolVars DEF Protocol!pvars, Awaited, Effect
<1> USE DEF Protocol!PNext, Protocol!MayProceed, Awaited, Effect
<1>1. ASSUME NEW reply, AcceptAck(reply) PROVE Protocol!PNext
  <2>1. restarts' = restarts
    BY <1>1 DEF AcceptAck
  <2>2. CASE Kind' = "failed"
    BY <1>1, <2>1, <2>2, AckStep DEF Protocol!Break
  <2>3. CASE restarts = 0 /\ Kind' = "completed"
    BY <1>1, <2>1, <2>3, AckStep DEF Protocol!Finish
  <2>4. CASE restarts = 0 /\ Kind' = "effect_preview" /\ outstanding'.message.request \in Requests
    <3>1. outstanding'.message.request # None
      BY <2>4, NoneAssumption
    <3>2. QED
      BY <1>1, <2>1, <2>4, <3>1, AckStep DEF Protocol!Preview
  <2>5. CASE restarts # 0 /\ Kind' = "execute_grant" /\ outstanding'.message.grant \in granted
    <3>1. restarts > 0
      BY <2>5 DEF HostInv
    <3> DEFINE grant == outstanding'.message.grant
    <3>2. grant \in granted' /\ granted' = granted
      BY <1>1, <2>5, AckStep
    <3>3. Protocol!Regrant(grant)
      BY <1>1, <2>1, <2>5, <3>1, <3>2, AckStep DEF Protocol!Regrant
    <3>4. QED
      BY <3>2, <3>3
  <2>6. QED
    BY <1>1, <2>2, <2>3, <2>4, <2>5, AckStep
<1>2. ASSUME NEW reply, AcceptAdmission(reply) PROVE Protocol!PNext
  <2>1. restarts' = restarts
    BY <1>2 DEF AcceptAdmission
  <2>2. CASE Kind' = "failed" /\ granted' = granted
    BY <1>2, <2>1, <2>2, AdmissionStep DEF Protocol!Break
  <2>3. CASE /\ Kind' = "execute_grant"
             /\ granted' = granted \cup {outstanding'.message.grant}
             /\ outstanding'.message.grant.request = outstanding.message.request
    <3> DEFINE grant == outstanding'.message.grant
    <3>1. Protocol!Grant(grant)
      BY <1>2, <2>1, <2>3, AdmissionStep DEF Protocol!Grant
    <3>2. grant \in granted'
      BY <2>3
    <3>3. QED
      BY <3>1, <3>2
  <2>4. QED
    BY <1>2, <2>2, <2>3, AdmissionStep
<1>3. ASSUME NEW reply, AcceptResolution(reply) PROVE Protocol!PNext
  <2>1. restarts' = restarts
    BY <1>3 DEF AcceptResolution
  <2>2. CASE Kind' \in {"failed", "completed"}
    BY <1>3, <2>1, <2>2, ResolutionStep DEF Protocol!Finish
  <2>3. CASE Kind' = "effect_preview" /\ outstanding'.message.request \in Requests
    <3>1. outstanding'.message.request # None
      BY <2>3, NoneAssumption
    <3>2. QED
      BY <1>3, <2>1, <2>3, <3>1, ResolutionStep DEF Protocol!Preview
  <2>4. QED
    BY <1>3, <2>2, <2>3, ResolutionStep
<1>4. ASSUME Close(session), UNCHANGED <<run, restarts, granted>>
      PROVE  Protocol!PNext \/ UNCHANGED <<Awaited, Effect, granted, restarts > 0>>
  <2>1. CASE UNCHANGED outstanding
    BY <1>4, <2>1 DEF Kind
  <2>2. CASE ~Terminal /\ Kind' = "failed"
    <3>1. Kind \in {"hello", "effect_preview", "execute_grant"}
      BY <2>2 DEF HostInv, Terminal
    <3>2. QED
      BY <1>4, <2>2, <3>1 DEF Protocol!Break
  <2>3. QED
    BY <1>4, <2>1, <2>2, RefusalStep
<1>5. CASE RestoreHost
  <2>1. restarts' > 0 /\ granted' = granted /\ granted # {} /\ Kind' = "hello"
    BY <1>5, RestoreStep
  <2>2. QED
    BY <2>1 DEF Protocol!Resume
<1>6. CASE UNCHANGED hostVars
  BY <1>6 DEF hostVars, recordVars, Kind
<1>7. QED
  BY <1>1, <1>2, <1>3, <1>4, <1>5, <1>6 DEF HostNext, Reply, RefuseReply, EndOfInput

\* Every conversation of the sequencer, with any host, program and number of
\* restores, is one the protocol allows: an effect is previewed, granted and
\* answered in that order, and a resumed conversation goes straight to a grant
\* issued before.
THEOREM HostSessionRefines == HostSpec => RefinesHostProtocol
<1>1. HostSpec => Protocol!PInit /\ [][Protocol!PNext]_(Protocol!pvars)
  BY HostInvInit, HostInvStep, ProtocolInit, ProtocolStep, PTL DEF HostSpec
<1>2. QED
  BY <1>1 DEF RefinesHostProtocol, Protocol!PSpec
-----------------------------------------------------------------------------
(* Every resolution on the trace of a session is applied to the            *)
(* continuation its grant was sealed with, for every program, host, and    *)
(* number of restores.                                                     *)

(* Traces *)

\* Every resolution on the trace was appended by one of the answers.
AnsweredBy(trace, answers) ==
  \A n \in DOMAIN trace :
    trace[n].event = "effect_resolved" => \E a \in answers : a.before = SubSeq(trace, 1, n - 1)

Quiet(entries) ==
  IsSequence(entries) /\ \A n \in DOMAIN entries : entries[n].event # "effect_resolved"

\* The trace ends with the seal of the machine's continuation.
EndsWithSeal(s) == s.trace = s.machine.checkpoint \o <<SnapshotWritten>>

\* Entries of other kinds need no answer.
LEMMA QuietExtension ==
  ASSUME NEW trace, IsSequence(trace), NEW answers, AnsweredBy(trace, answers), NEW entries, Quiet(entries)
  PROVE  IsSequence(trace \o entries) /\ AnsweredBy(trace \o entries, answers)
<1> DEFINE all == trace \o entries
<1>1. IsSequence(entries) /\ IsSequence(all)
  BY ConcatIsSequence DEF Quiet
<1>2. /\ DOMAIN all = 1..(Len(trace) + Len(entries)) /\ Len(all) = Len(trace) + Len(entries)
      /\ \A i \in 1..(Len(trace) + Len(entries)) :
           all[i] = IF i <= Len(trace) THEN trace[i] ELSE entries[i - Len(trace)]
  BY <1>1, ConcatParts
<1>3. /\ DOMAIN trace = 1..Len(trace) /\ Len(trace) \in Nat
      /\ DOMAIN entries = 1..Len(entries) /\ Len(entries) \in Nat
  BY <1>1, SequenceParts
<1> HIDE DEF all
<1>4. ASSUME NEW n \in DOMAIN all, all[n].event = "effect_resolved"
      PROVE  \E a \in answers : a.before = SubSeq(all, 1, n - 1)
  <2>1. CASE n <= Len(trace)
    <3>1. n \in DOMAIN trace /\ all[n] = trace[n]
      BY <1>2, <1>3, <2>1
    <3>2. PICK a \in answers : a.before = SubSeq(trace, 1, n - 1)
      BY <1>4, <3>1 DEF AnsweredBy
    <3>3. SubSeq(trace, 1, n - 1) = SubSeq(all, 1, n - 1)
      <4>1. n - 1 \in Nat /\ n - 1 <= Len(trace) /\ n - 1 <= Len(all)
        BY <1>2, <1>3, <3>1
      <4>2. \A i \in 1..(n - 1) : trace[i] = all[i]
        BY <1>2, <1>3, <3>1
      <4>3. QED
        BY <1>1, <4>1, <4>2, SamePrefix
    <3>4. QED
      BY <3>2, <3>3
  <2>2. CASE n > Len(trace)
    <3>1. n - Len(trace) \in DOMAIN entries /\ all[n] = entries[n - Len(trace)]
      BY <1>2, <1>3, <2>2
    <3>2. QED
      BY <1>4, <3>1 DEF Quiet
  <2>3. QED
    BY <1>2, <1>3, <2>1, <2>2
<1>5. QED
  BY <1>1, <1>4 DEF AnsweredBy, all

\* A resolution appended by an answer.
LEMMA AnswerExtension ==
  ASSUME NEW trace, IsSequence(trace), NEW answers, AnsweredBy(trace, answers),
         NEW a \in answers, a.before = trace, NEW entry
  PROVE  AnsweredBy(Append(trace, entry), answers)
<1> DEFINE all == Append(trace, entry)
<1>1. /\ IsSequence(all) /\ DOMAIN trace = 1..Len(trace) /\ Len(trace) \in Nat
      /\ Len(all) = Len(trace) + 1 /\ DOMAIN all = 1..(Len(trace) + 1)
      /\ \A i \in 1..Len(trace) : all[i] = trace[i]
  BY AppendIsSequence
<1> HIDE DEF all
<1>2. \A n \in 1..(Len(trace) + 1) : SubSeq(trace, 1, n - 1) = SubSeq(all, 1, n - 1)
  <2> TAKE n \in 1..(Len(trace) + 1)
  <2>1. n - 1 \in Nat /\ n - 1 <= Len(trace) /\ n - 1 <= Len(all) /\ \A i \in 1..(n - 1) : trace[i] = all[i]
    BY <1>1
  <2>2. QED
    BY <1>1, <2>1, SamePrefix
<1>3. ASSUME NEW n \in DOMAIN all, all[n].event = "effect_resolved"
      PROVE  \E b \in answers : b.before = SubSeq(all, 1, n - 1)
  <2>1. CASE n <= Len(trace)
    <3>1. n \in DOMAIN trace /\ all[n] = trace[n]
      BY <1>1, <2>1
    <3>2. PICK b \in answers : b.before = SubSeq(trace, 1, n - 1)
      BY <1>3, <3>1 DEF AnsweredBy
    <3>3. QED
      BY <1>1, <1>2, <3>2
  <2>2. CASE n = Len(trace) + 1
    <3>1. SubSeq(trace, 1, n - 1) = trace
      <4>1. n - 1 = Len(trace)
        BY <1>1, <2>2
      <4>2. SubSeq(trace, 1, Len(trace)) = trace
        BY SubSeqFull DEF IsSequence
      <4>3. QED
        BY <4>1, <4>2
    <3>2. QED
      BY <1>1, <1>2, <3>1
  <2>3. QED
    BY <1>1, <2>1, <2>2
<1>4. QED
  BY <1>3 DEF AnsweredBy, all

\* What is cut from the end of a trace needs no answer any more.
LEMMA PrefixAnswered ==
  ASSUME NEW trace, IsSequence(trace), NEW answers, AnsweredBy(trace, answers),
         NEW m \in Nat, m <= Len(trace)
  PROVE  LET cut == SubSeq(trace, 1, m)
         IN  IsSequence(cut) /\ Len(cut) = m /\ AnsweredBy(cut, answers)
<1> DEFINE cut == SubSeq(trace, 1, m)
           S == Range(trace)
<1>1. DOMAIN trace = 1..Len(trace) /\ Len(trace) \in Nat
  BY SequenceParts
<1>2. trace \in Seq(S)
  BY DEF IsSequence
<1>3. cut \in Seq(S) /\ Len(cut) = m /\ \A i \in 1..m : cut[i] = trace[i]
  <2> HIDE DEF S
  <2>1. \A i \in 1..m : trace[i] \in S
    BY <1>1, <1>2, ElementOfSeq
  <2>2. QED
    BY <2>1, SubSeqProperties
<1>4. IsSequence(cut)
  BY <1>3, SeqOfRange DEF IsSequence
<1>5. DOMAIN cut = 1..m
  BY <1>3, <1>4, SequenceParts
<1> HIDE DEF cut
<1>6. ASSUME NEW n \in DOMAIN cut, cut[n].event = "effect_resolved"
      PROVE  \E a \in answers : a.before = SubSeq(cut, 1, n - 1)
  <2>1. n \in DOMAIN trace /\ cut[n] = trace[n]
    BY <1>1, <1>3, <1>5
  <2>2. PICK a \in answers : a.before = SubSeq(trace, 1, n - 1)
    BY <1>6, <2>1 DEF AnsweredBy
  <2>3. n - 1 \in Nat /\ n - 1 <= Len(trace) /\ n - 1 <= Len(cut) /\ \A i \in 1..(n - 1) : trace[i] = cut[i]
    BY <1>1, <1>3, <1>5
  <2>4. SubSeq(trace, 1, n - 1) = SubSeq(cut, 1, n - 1)
    BY <1>4, <2>3, SamePrefix
  <2>5. QED
    BY <2>2, <2>4
<1>7. QED
  BY <1>3, <1>4, <1>6 DEF AnsweredBy, cut

LEMMA MoreAnswers ==
  ASSUME NEW trace, NEW answers, NEW more, AnsweredBy(trace, answers), answers \subseteq more
  PROVE  AnsweredBy(trace, more)
BY DEF AnsweredBy

LEMMA QuietEntry ==
  ASSUME NEW entry, entry.event # "effect_resolved"
  PROVE  Quiet(<<entry>>)
BY SingletonIsSequence DEF Quiet

LEMMA QuietAudits ==
  ASSUME NEW events, IsSequence(events)
  PROVE  Quiet(Audits(events))
BY AuditsIsSequence DEF Quiet, Audits
-----------------------------------------------------------------------------
(* The operations of the record session *)

LEMMA ProgressedAnswered ==
  ASSUME run \in Runs, NEW s, IsSession(s), NEW answers, AnsweredBy(s.trace, answers)
  PROVE  AnsweredBy(Progressed(s).trace, answers)
<1> DEFINE m == s.machine
           r == Reaction(m)
           audited == s.trace \o Audits(r.audit)
<1>1. IsReaction(r) /\ DOMAIN s = {"machine", "trace", "snapshots", "phase", "outcome", "error"}
  BY ReactionsAreReactions DEF IsSession
<1>2. IsSequence(audited) /\ AnsweredBy(audited, answers)
  BY <1>1, QuietAudits, QuietExtension DEF IsSession, IsReaction
<1>3. CASE s.phase # "running"
  BY <1>3 DEF Progressed
<1>4. CASE s.phase = "running" /\ CanYield(m)
  <2> DEFINE e == Requested(Yielded(m))
  <2>1. Quiet(<<e>>)
    BY QuietEntry DEF Requested
  <2>2. Progressed(s).trace = Append(audited, e)
    BY <1>1, <1>4 DEF Progressed
  <2> HIDE DEF e, audited
  <2>3. QED
    BY <1>2, <2>1, <2>2, AppendConcat, QuietExtension
<1>5. CASE s.phase = "running" /\ ~CanYield(m) /\ r.step = "completed"
  <2> DEFINE end == <<StateCommitted(r.outcome), RunCompleted(r.outcome)>>
  <2>1. Quiet(end)
    <3>1. end \in Seq({StateCommitted(r.outcome), RunCompleted(r.outcome)})
      OBVIOUS
    <3>2. IsSequence(end)
      BY <3>1, SeqOfRange DEF IsSequence
    <3>3. QED
      BY <3>2 DEF Quiet, StateCommitted, RunCompleted
  <2>2. Progressed(s).trace = audited \o end
    BY <1>1, <1>5 DEF Progressed
  <2> HIDE DEF end, audited
  <2>3. QED
    BY <1>2, <2>1, <2>2, QuietExtension
<1>6. CASE s.phase = "running" /\ ~CanYield(m) /\ r.step # "completed"
  <2>1. Progressed(s).trace = audited
    BY <1>1, <1>6 DEF Progressed
  <2>2. QED
    BY <1>2, <2>1
<1>7. QED
  BY <1>3, <1>4, <1>5, <1>6

LEMMA FailAnswered ==
  ASSUME NEW s, IsSession(s), NEW answers, AnsweredBy(s.trace, answers)
  PROVE  AnsweredBy(Fail(s).trace, answers)
<1>1. Fail(s).trace = s.trace \o <<RunFailed>> /\ IsSequence(s.trace)
  BY AppendConcat DEF IsSession, Fail
<1>2. Quiet(<<RunFailed>>)
  BY QuietEntry DEF RunFailed
<1>3. QED
  BY <1>1, <1>2, QuietExtension

\* admit: the trace goes on with the reservation and the seal, and the sealed
\* continuation knows the trace before the seal.
LEMMA AdmitAnswered ==
  ASSUME NEW s, IsSession(s), ~s.error, NEW answers, AnsweredBy(s.trace, answers),
         NEW request, NEW maximums
  PROVE  LET a == Admit(s, request, maximums)
         IN  /\ AnsweredBy(a.trace, answers)
             /\ ~a.error => EndsWithSeal(a)
<1> DEFINE a == Admit(s, request, maximums)
<1>1. /\ IsSequence(s.trace) /\ IsMachine(s.machine)
      /\ DOMAIN s = {"machine", "trace", "snapshots", "phase", "outcome", "error"}
  BY DEF IsSession
<1>2. CASE /\ s.phase = "awaiting_admission"
           /\ request = s.machine.pending.request
           /\ CanReserveUsage(s.machine, maximums)
  <2> DEFINE reserved == UsageReserved(s.machine, maximums)
             entry == ReservedEvidence(reserved)
             evidence == Append(s.trace, entry)
             sealed == [reserved EXCEPT !.checkpoint = evidence]
             trace == Append(evidence, SnapshotWritten)
             snaps == Append(s.snapshots, sealed)
  <2>1. a = [s EXCEPT !.machine = sealed, !.trace = trace, !.snapshots = snaps,
                      !.phase = "awaiting_resolution"]
    BY <1>2 DEF Admit
  <2>2. IsSuspended(reserved)
    BY <1>2, UsageReservedIsSuspended DEF IsSession, Waiting
  <2>3. Quiet(<<entry>>) /\ Quiet(<<SnapshotWritten>>)
    BY QuietEntry DEF ReservedEvidence, SnapshotWritten
  <2> HIDE DEF reserved, entry, snaps, a
  <2>4. evidence = s.trace \o <<entry>>
    BY <1>1, AppendConcat
  <2>5. IsSequence(evidence) /\ AnsweredBy(evidence, answers)
    BY <1>1, <2>3, <2>4, QuietExtension
  <2> HIDE DEF evidence
  <2>6. trace = evidence \o <<SnapshotWritten>> /\ AnsweredBy(trace, answers)
    BY <2>3, <2>5, AppendConcat, QuietExtension
  <2>7. sealed.checkpoint = evidence
    BY <2>2 DEF IsSuspended, IsMachine
  <2> HIDE DEF sealed, trace
  <2>8. a.machine = sealed /\ a.trace = trace
    BY <1>1, <2>1
  <2>9. QED
    BY <2>6, <2>7, <2>8 DEF a, EndsWithSeal
<1>3. CASE ~ (/\ s.phase = "awaiting_admission"
              /\ request = s.machine.pending.request
              /\ CanReserveUsage(s.machine, maximums))
  <2>1. a = [s EXCEPT !.error = TRUE]
    BY <1>3 DEF Admit, Refused
  <2> HIDE DEF a
  <2>2. a.trace = s.trace /\ a.error
    BY <1>1, <2>1
  <2>3. QED
    BY <2>2 DEF a
<1>4. QED
  BY <1>2, <1>3

\* resolve: the resolution is appended to the trace the answer found.
LEMMA ResolveAnswered ==
  ASSUME run \in Runs, NEW s, IsSession(s), NEW request, NEW payload, NEW usage,
         NEW answers, AnsweredBy(s.trace, answers), NEW b \in answers, b.before = s.trace
  PROVE  AnsweredBy(Resolve(s, request, payload, usage).trace, answers)
<1> DEFINE m == s.machine
           supplied == Supplied(m, payload, usage)
           resolved == Append(s.trace, ResolvedEvidence(m, payload, usage))
           r == Resolve(s, request, payload, usage)
<1>1. /\ IsSequence(s.trace)
      /\ DOMAIN s = {"machine", "trace", "snapshots", "phase", "outcome", "error"}
  BY DEF IsSession
<1>2. IsSequence(resolved) /\ AnsweredBy(resolved, answers)
  BY <1>1, AppendIsSequence, AnswerExtension
<1>3. CASE s.phase # "awaiting_resolution" \/ request # m.pending.request
  BY <1>1, <1>3 DEF Resolve, Refused
<1>4. CASE /\ s.phase = "awaiting_resolution" /\ request = m.pending.request
           /\ ~AcceptsAnswer(m, payload, usage)
  <2>1. r.trace = resolved
    BY <1>1, <1>4 DEF Resolve
  <2>2. QED
    BY <1>2, <2>1
<1>5. CASE /\ s.phase = "awaiting_resolution" /\ request = m.pending.request
           /\ AcceptsAnswer(m, payload, usage)
  <2> DEFINE audits == Audits(Reaction(supplied).decoded)
             entry == SettledEvidence(Admitted(m), usage, supplied.budget)
  <2>1. IsSuspended(m) /\ payload \in m.pending.expected
    BY <1>5 DEF IsSession, Waiting, AcceptsAnswer
  <2>2. Reaction(supplied) = run.program[Append(m.answers, payload)]
    <3>1. supplied.answers = Append(m.answers, payload)
      BY <1>5, <2>1 DEF Supplied, IsSuspended, IsMachine
    <3>2. QED
      BY <3>1 DEF Reaction
  <2>3. Append(m.answers, payload) \in DOMAIN run.program
    BY <2>1, ReactionsAreReactions DEF IsSuspended
  <2>4. IsReaction(Reaction(supplied))
    BY <2>2, <2>3, RunsAssumption DEF IsProgram
  <2>5. Quiet(audits)
    BY <2>4, QuietAudits DEF IsReaction
  <2>6. Quiet(<<entry>>)
    BY QuietEntry DEF SettledEvidence
  <2>7. r.trace = resolved \o audits \o <<entry>>
    BY <1>1, <1>5 DEF Resolve
  <2> HIDE DEF audits, entry, resolved, r
  <2>8. IsSequence(resolved \o audits) /\ AnsweredBy(resolved \o audits, answers)
    BY <1>2, <2>5, QuietExtension
  <2>9. AnsweredBy(resolved \o audits \o <<entry>>, answers)
    BY <2>6, <2>8, QuietExtension
  <2>10. QED
    BY <2>7, <2>9 DEF r
<1>6. QED
  BY <1>3, <1>4, <1>5

\* restore: the trace is cut back to what was sealed.
LEMMA RestoredAnswered ==
  ASSUME NEW trace, IsSequence(trace), NEW snapshot, IsSuspended(snapshot),
         CanRewind(trace, snapshot), NEW answers, AnsweredBy(trace, answers)
  PROVE  LET s == Restored(trace, snapshot)
         IN  EndsWithSeal(s) /\ AnsweredBy(s.trace, answers)
<1> DEFINE sealed == snapshot.checkpoint
           n == Len(sealed)
           cut == SubSeq(trace, 1, n)
<1>1. IsSequence(sealed) /\ n <= Len(trace) /\ SubSeq(sealed, 1, n) = cut
  BY DEF IsSuspended, IsMachine, CanRewind, IsPrefix
<1>2. n \in Nat /\ SubSeq(sealed, 1, n) = sealed
  BY <1>1, SequenceParts, SubSeqFull DEF IsSequence
<1>3. IsSequence(cut) /\ AnsweredBy(cut, answers) /\ cut = sealed
  BY <1>1, <1>2, PrefixAnswered
<1>4. Quiet(<<SnapshotWritten>>)
  BY QuietEntry DEF SnapshotWritten
<1>5. Restored(trace, snapshot).machine = snapshot
  BY DEF Restored, RestoredOn
<1>6. Restored(trace, snapshot).trace = Append(cut, SnapshotWritten)
  BY DEF Restored, RestoredOn
<1> HIDE DEF cut
<1>7. Append(cut, SnapshotWritten) = cut \o <<SnapshotWritten>>
  BY <1>3, AppendConcat
<1>8. AnsweredBy(cut \o <<SnapshotWritten>>, answers)
  BY <1>3, <1>4, QuietExtension
<1>9. QED
  BY <1>3, <1>5, <1>6, <1>7, <1>8 DEF EndsWithSeal
-----------------------------------------------------------------------------
(* The inductive invariant *)

Sealed(s) ==
  s.phase = "awaiting_resolution" => EndsWithSeal(s)

\* What an answer found is what its grant was sealed with.
AppliedAsGranted ==
  \A a \in applied : a.before = a.grant.checkpoint \o <<SnapshotWritten>>

\* While a session waits for a resolution its trace ends with the seal of its
\* continuation, so that the one answer that is accepted finds this trace.
ResolutionInv ==
  /\ HostInv
  /\ Sealed(session)
  /\ AppliedAsGranted
  /\ AnsweredBy(session.trace, applied)

LEMMA ResolutionInvInit == HostInit => ResolutionInv
<1> SUFFICES ASSUME HostInit PROVE ResolutionInv
  OBVIOUS
<1>1. HostInv
  BY HostInvInit
<1>2. session = Started /\ applied = {}
  BY DEF HostInit
<1>3. session.phase = "running" /\ session.trace = Header
  BY <1>2 DEF Started
<1>4. AnsweredBy(Header, {})
  BY DEF AnsweredBy, Header
<1>5. QED
  BY <1>1, <1>2, <1>3, <1>4 DEF ResolutionInv, Sealed, AppliedAsGranted

\* transition_failed.
LEMMA CloseAnswered ==
  ASSUME NEW s, IsSession(s), NEW answers, AnsweredBy(s.trace, answers), ~Terminal, Close(s)
  PROVE  Sealed(session') /\ AnsweredBy(session'.trace, answers)
<1>1. session' = Fail(s)
  BY DEF Close, Emit
<1>2. QED
  BY <1>1, FailAnswered, FailIsSession DEF Sealed

\* advance_record, of a session that runs or has just been restored.
LEMMA AdvanceAnswered ==
  ASSUME HostInv, NEW s, IsSession(s), Sealed(s), NEW answers, AnsweredBy(s.trace, answers), ~Terminal,
         Advance(s), s.phase \in {"running", "awaiting_resolution"}
  PROVE  Sealed(session') /\ AnsweredBy(session'.trace, answers)
<1> DEFINE p == Progressed(s)
<1>1. IsSession(p) /\ AnsweredBy(p.trace, answers) /\ Sealed(p)
  <2>1. CASE s.phase = "running"
    BY <2>1, ProgressedIsSession, ProgressedAnswered DEF HostInv, Sealed
  <2>2. CASE s.phase = "awaiting_resolution"
    BY <2>2 DEF Progressed
  <2>3. QED
    BY <2>1, <2>2
<1>2. Close(p) \/ session' = p
  BY DEF Advance, Emit, EmitGrant
<1> HIDE DEF p
<1>3. QED
  BY <1>1, <1>2, CloseAnswered

LEMMA RefusalAnswered ==
  ASSUME ResolutionInv, Close(session)
  PROVE  Sealed(session') /\ AnsweredBy(session'.trace, applied)
<1>1. CASE Terminal
  BY <1>1 DEF Close, ResolutionInv
<1>2. CASE ~Terminal
  BY <1>2, CloseAnswered DEF ResolutionInv, HostInv
<1>3. QED
  BY <1>1, <1>2

LEMMA AckAnswered ==
  ASSUME ResolutionInv, NEW reply, AcceptAck(reply)
  PROVE  Sealed(session') /\ AnsweredBy(session'.trace, applied)
<1>1. Kind = "hello" /\ ~Terminal /\ Advance(session)
  BY DEF AcceptAck, Acknowledges, Terminal
<1>2. session.phase \in {"running", "awaiting_resolution"}
  <2>1. CASE restarts = 0
    BY <1>1, <2>1 DEF ResolutionInv, HostInv, OutstandingMatchesSession, Started
  <2>2. CASE restarts # 0
    <3>1. session = Restored(session.trace, session.machine)
      BY <1>1, <2>2 DEF ResolutionInv, HostInv, OutstandingMatchesSession
    <3>2. QED
      BY <3>1 DEF Restored, RestoredOn
  <2>3. QED
    BY <2>1, <2>2
<1>3. QED
  BY <1>1, <1>2, AdvanceAnswered DEF ResolutionInv, HostInv

LEMMA AdmissionAnswered ==
  ASSUME ResolutionInv, NEW reply, AcceptAdmission(reply)
  PROVE  Sealed(session') /\ AnsweredBy(session'.trace, applied)
<1> DEFINE a == Admit(session, reply.request, reply.maximums)
<1>1. ~Terminal /\ IF a.error THEN Close(a) /\ UNCHANGED granted ELSE EmitGrant(a)
  BY DEF AcceptAdmission, Admits, Terminal
<1>2. /\ IsSession(a) /\ AnsweredBy(a.trace, applied)
      /\ ~a.error => EndsWithSeal(a)
  <2>1. IsSession(session) /\ ~session.error /\ AnsweredBy(session.trace, applied)
    BY DEF ResolutionInv, HostInv
  <2>2. IsSession(a)
    BY <2>1, AdmitIsSession
  <2>3. AnsweredBy(a.trace, applied) /\ (~a.error => EndsWithSeal(a))
    BY <2>1, AdmitAnswered
  <2>4. QED
    BY <2>2, <2>3
<1> HIDE DEF a
<1>3. CASE a.error
  BY <1>1, <1>2, <1>3, CloseAnswered
<1>4. CASE ~a.error
  BY <1>1, <1>2, <1>4 DEF EmitGrant, Emit, Sealed
<1>5. QED
  BY <1>3, <1>4

\* The grant that is cited is the one of the continuation that waits.
LEMMA ResolutionAnswered ==
  ASSUME ResolutionInv, NEW reply, AcceptResolution(reply)
  PROVE  Sealed(session') /\ AppliedAsGranted' /\ AnsweredBy(session'.trace, applied')
<1> DEFINE b == [grant |-> reply.grant, before |-> session.trace]
           r == Resolve(session, reply.grant.request, reply.payload, reply.usage)
<1>1. /\ Kind = "execute_grant" /\ ~Terminal /\ reply.grant = outstanding.message.grant
      /\ IF r.error THEN Close(r) /\ UNCHANGED granted ELSE Advance(r)
      /\ applied' = applied \cup {b}
  BY DEF AcceptResolution, Resolves, Terminal
<1>2. /\ session.phase = "awaiting_resolution"
      /\ reply.grant = GrantFor(session.machine)
  BY <1>1 DEF ResolutionInv, HostInv, OutstandingMatchesSession
<1>3. b.before = b.grant.checkpoint \o <<SnapshotWritten>>
  BY <1>2 DEF ResolutionInv, Sealed, EndsWithSeal, GrantFor
<1>4. AppliedAsGranted'
  BY <1>1, <1>3 DEF ResolutionInv, AppliedAsGranted
<1>5. AnsweredBy(session.trace, applied') /\ b \in applied' /\ b.before = session.trace
  BY <1>1, MoreAnswers DEF ResolutionInv
<1> HIDE DEF b
<1>6. /\ IsSession(r) /\ AnsweredBy(r.trace, applied')
      /\ ~r.error => r.phase = "running"
  BY <1>5, ResolveIsSession, ResolveAnswered DEF ResolutionInv, HostInv
<1> HIDE DEF r
<1>7. CASE r.error
  BY <1>1, <1>4, <1>6, <1>7, CloseAnswered
<1>8. CASE ~r.error
  <2>1. Sealed(r) /\ r.phase \in {"running", "awaiting_resolution"}
    BY <1>6, <1>8 DEF Sealed
  <2>2. Sealed(session') /\ AnsweredBy(session'.trace, applied')
    BY <1>1, <1>6, <1>8, <2>1, AdvanceAnswered DEF ResolutionInv
  <2>3. QED
    BY <1>4, <2>2
<1>9. QED
  BY <1>7, <1>8

LEMMA RestoreAnswered ==
  ASSUME ResolutionInv, RestoreHost
  PROVE  Sealed(session') /\ AnsweredBy(session'.trace, applied) /\ applied' = applied
<1>1. PICK n \in DOMAIN session.snapshots : RestoreFrom(session.snapshots[n], session.trace)
  BY DEF RestoreHost
<1> DEFINE m == session.snapshots[n]
<1>2. /\ CanRewind(session.trace, m) /\ session' = Restored(session.trace, m) /\ applied' = applied
      /\ IsSuspended(m) /\ IsSequence(session.trace) /\ AnsweredBy(session.trace, applied)
  BY <1>1 DEF RestoreFrom, ResolutionInv, HostInv, IsSession
<1> HIDE DEF m
<1>3. QED
  BY <1>2, RestoredAnswered DEF Sealed

LEMMA ResolutionInvStep == ResolutionInv /\ [HostNext]_hostVars => ResolutionInv'
<1> SUFFICES ASSUME ResolutionInv, [HostNext]_hostVars PROVE ResolutionInv'
  OBVIOUS
<1>1. HostInv'
  BY HostInvStep DEF ResolutionInv
<1>2. SUFFICES Sealed(session') /\ AppliedAsGranted' /\ AnsweredBy(session'.trace, applied')
  BY <1>1 DEF ResolutionInv, Sealed, AnsweredBy
<1>3. applied' = applied => AppliedAsGranted'
  BY DEF ResolutionInv, AppliedAsGranted
<1>4. ASSUME NEW reply, Reply(reply)
      PROVE  Sealed(session') /\ AppliedAsGranted' /\ AnsweredBy(session'.trace, applied')
  <2>1. CASE AcceptAck(reply)
    BY <1>3, <2>1, AckAnswered DEF AcceptAck
  <2>2. CASE AcceptAdmission(reply)
    BY <1>3, <2>2, AdmissionAnswered DEF AcceptAdmission
  <2>3. CASE AcceptResolution(reply)
    BY <2>3, ResolutionAnswered
  <2>4. CASE RefuseReply(reply)
    BY <1>3, <2>4, RefusalAnswered DEF RefuseReply
  <2>5. QED
    BY <1>4, <2>1, <2>2, <2>3, <2>4 DEF Reply
<1>5. CASE EndOfInput
  BY <1>3, <1>5, RefusalAnswered DEF EndOfInput
<1>6. CASE RestoreHost
  BY <1>3, <1>6, RestoreAnswered
<1>7. CASE UNCHANGED hostVars
  BY <1>3, <1>7 DEF hostVars, recordVars, ResolutionInv
<1>8. QED
  BY <1>4, <1>5, <1>6, <1>7 DEF HostNext

\* A resolution is applied to the continuation its grant was sealed with, and
\* nothing else puts a resolution on the trace, whatever the host repeats or
\* substitutes and however often the session is restored (host.rs, run.rs).
THEOREM ResolutionsAreApplied == HostSpec => []ResolutionsApplyToTheirGrants
<1>1. ResolutionInv => ResolutionsApplyToTheirGrants
  BY DEF ResolutionInv, AppliedAsGranted, AnsweredBy, ResolutionsApplyToTheirGrants
<1>2. QED
  BY ResolutionInvInit, ResolutionInvStep, <1>1, PTL DEF HostSpec
-----------------------------------------------------------------------------
(* What the session records of its run *)

\* transition_failed.
LEMMA CloseFaithful ==
  ASSUME NEW s, IsSession(s), Faithful(s), ~Terminal, Close(s)
  PROVE  Faithful(session')
<1>1. session' = Fail(s)
  BY DEF Close, Emit
<1>2. QED
  BY <1>1, FailIsFaithful

LEMMA RefusalFaithful ==
  ASSUME HostInv, Faithful(session), Close(session)
  PROVE  Faithful(session')
<1>1. CASE Terminal
  BY <1>1 DEF Close
<1>2. CASE ~Terminal
  BY <1>2, CloseFaithful DEF HostInv
<1>3. QED
  BY <1>1, <1>2

\* advance_record.
LEMMA AdvanceFaithful ==
  ASSUME run \in Runs, NEW s, IsSession(s), Faithful(s), ~s.error, ~Terminal, Advance(s)
  PROVE  Faithful(session')
<1> DEFINE p == Progressed(s)
<1>1. IsSession(p) /\ Faithful(p)
  <2>1. Faithful(p)
    BY ProgressedIsFaithful
  <2>2. CASE s.phase = "running"
    BY <2>1, <2>2, ProgressedIsSession
  <2>3. CASE s.phase # "running"
    BY <2>1, <2>3 DEF Progressed
  <2>4. QED
    BY <2>2, <2>3
<1>2. Close(p) \/ session' = p
  BY DEF Advance, Emit, EmitGrant
<1> HIDE DEF p
<1>3. QED
  BY <1>1, <1>2, CloseFaithful

\* Whatever the host answers, the session goes on telling its run.
LEMMA ReplyFaithful ==
  ASSUME HostInv, Faithful(session), NEW reply, Reply(reply)
  PROVE  Faithful(session') /\ run' = run
<1>1. run \in Runs /\ IsSession(session) /\ ~session.error
  BY DEF HostInv
<1>2. CASE AcceptAck(reply)
  <2>1. Kind = "hello" /\ Advance(session) /\ run' = run
    BY <1>2 DEF AcceptAck, Acknowledges
  <2>2. ~Terminal
    BY <2>1 DEF Terminal
  <2>3. QED
    BY <1>1, <2>1, <2>2, AdvanceFaithful
<1>3. CASE AcceptAdmission(reply)
  <2> DEFINE a == Admit(session, reply.request, reply.maximums)
  <2>1. ~Terminal /\ run' = run /\ IF a.error THEN Close(a) ELSE session' = a
    BY <1>3 DEF AcceptAdmission, Admits, Terminal, EmitGrant, Emit
  <2>2. IsSession(a) /\ Faithful(a)
    BY <1>1, AdmitIsSession, AdmitIsFaithful
  <2> HIDE DEF a
  <2>3. QED
    BY <2>1, <2>2, CloseFaithful
<1>4. CASE AcceptResolution(reply)
  <2> DEFINE r == Resolve(session, reply.grant.request, reply.payload, reply.usage)
  <2>1. ~Terminal /\ run' = run /\ IF r.error THEN Close(r) ELSE Advance(r)
    BY <1>4 DEF AcceptResolution, Resolves, Terminal
  <2>2. IsSession(r) /\ Faithful(r)
    BY <1>1, ResolveIsSession, ResolveIsFaithful
  <2> HIDE DEF r
  <2>3. QED
    BY <1>1, <2>1, <2>2, CloseFaithful, AdvanceFaithful
<1>5. CASE RefuseReply(reply)
  BY <1>5, RefusalFaithful DEF RefuseReply
<1>6. QED
  BY <1>2, <1>3, <1>4, <1>5 DEF Reply

\* restore, of a snapshot and a trace from wherever they were kept.
LEMMA RestoreFromFaithful ==
  ASSUME NEW snapshot, IsSuspended(snapshot), Described(snapshot),
         NEW trace, IsSequence(trace), RestoreFrom(snapshot, trace)
  PROVE  Faithful(session') /\ run' = run
BY RestoredIsFaithful DEF RestoreFrom

HostRecordInv == HostInv /\ Faithful(session)

LEMMA HostRecordInvStep == HostRecordInv /\ [HostNext]_hostVars => HostRecordInv'
<1> SUFFICES ASSUME HostRecordInv, [HostNext]_hostVars PROVE HostRecordInv'
  OBVIOUS
<1>1. HostInv /\ Faithful(session) /\ HostInv'
  BY HostInvStep DEF HostRecordInv
<1>2. SUFFICES Faithful(session') /\ run' = run
  BY <1>1, SameFaithful DEF HostRecordInv
<1>3. CASE EndOfInput
  BY <1>1, <1>3, RefusalFaithful DEF EndOfInput
<1>4. CASE RestoreHost
  <2>1. PICK n \in DOMAIN session.snapshots : RestoreFrom(session.snapshots[n], session.trace)
    BY <1>4 DEF RestoreHost
  <2>2. /\ IsSuspended(session.snapshots[n]) /\ Described(session.snapshots[n])
        /\ IsSequence(session.trace)
    BY <1>1 DEF HostInv, IsSession, Faithful, SnapshotsTold
  <2>3. QED
    BY <2>1, <2>2, RestoreFromFaithful
<1>5. CASE UNCHANGED hostVars
  BY <1>1, <1>5 DEF hostVars, recordVars
<1>6. QED
  BY <1>1, <1>3, <1>4, <1>5, ReplyFaithful DEF HostNext

LEMMA HostRecordInvariant == HostSpec => []HostRecordInv
<1>1. HostInit => HostRecordInv
  BY HostInvInit, StartedIsFaithful DEF HostInit, HostRecordInv
<1>2. QED
  BY <1>1, HostRecordInvStep, PTL DEF HostSpec

\* Behind any host that answers anything, a recording that completes replays,
\* and every sealed snapshot is the continuation its trace describes (host.rs
\* over run.rs).
THEOREM HostRecordingsReplay == HostSpec => [](CompletedRunReplays /\ SnapshotsMatchTheirTrace)
<1>1. HostRecordInv => CompletedRunReplays /\ SnapshotsMatchTheirTrace
  BY RecordInvImplies DEF HostRecordInv, HostInv, RecordInv
<1>2. QED
  BY <1>1, HostRecordInvariant, PTL
=============================================================================
