----------------------------- MODULE HostSession ----------------------------
(***************************************************************************)
(* The host protocol sequencer (crates/aster-runtime/src/host.rs): a       *)
(* record session behind frames.  One outbound frame is outstanding at a   *)
(* time; a reply that answers it exactly advances the record session to    *)
(* the next frame, and any other reply closes the session.                 *)
(*                                                                         *)
(* A hash is modelled by the content it digests: requests, grants and the  *)
(* checkpoint inside a grant are compared whole.  Frames are records of    *)
(* their kind and the fields replies are checked against; decoding of the  *)
(* JSON envelope is a reply of kind "malformed".                           *)
(*                                                                         *)
(* `granted' and `applied' are not in the code: the grants ever emitted,   *)
(* and the grants the accepted resolutions cited, each with the trace the  *)
(* resolution was appended to.                                             *)
(***************************************************************************)
EXTENDS RecordSession

CONSTANTS
  RunId,        \* the session id: a hash of program and input, the same
                \* after a resume
  SessionIds    \* the session ids replies may carry

VARIABLES
  outstanding,      \* the frame awaiting a reply, or the terminal frame
  next_message_id,
  granted, applied

hostVars == <<recordVars, outstanding, next_message_id, granted, applied>>

ASSUME RunIdAssumption == RunId \in SessionIds
-----------------------------------------------------------------------------
(* Frames *)

Hello == [message_id |-> 0, message |-> [kind |-> "hello"]]

\* ExecutionGrant::for_admitted binds the grant to the sealed continuation.
GrantFor(snapshot) ==
  [request |-> snapshot.pending.request, max_usage |-> Admitted(snapshot),
   checkpoint |-> snapshot.checkpoint]

Kind     == outstanding.message.kind

\* Faulty variant: only a failure ends the conversation.
TerminalOnFailure == Kind = "failed"

Terminal == Kind \in {"completed", "failed"}

\* next_frame, and the frame becomes the outstanding one.
Emit(s, message) ==
  /\ session' = s
  /\ outstanding' = [message_id |-> next_message_id, message |-> message]
  /\ next_message_id' = next_message_id + 1

EmitGrant(s) ==
  /\ Emit(s, [kind |-> "execute_grant", grant |-> GrantFor(s.machine)])
  /\ granted' = granted \cup {GrantFor(s.machine)}

\* Faulty variant: a refused reply is answered with `failed' but the record
\* session stays open and the same reply is still awaited.
CloseLightly(s) ==
  /\ session' = [s EXCEPT !.error = FALSE]
  /\ UNCHANGED <<outstanding, next_message_id>>

\* transition_failed: a terminal session stays as it is, any other records
\* the failure and ends with `failed'.
Close(s) ==
  IF Terminal THEN UNCHANGED <<session, outstanding, next_message_id>>
  ELSE Emit(Fail(s), [kind |-> "failed"])

\* advance_record: the record session runs to its next stop.
Advance(s) ==
  LET p == Progressed(s)
  IN  \/ /\ p.error
         /\ Close(p) /\ UNCHANGED granted
      \/ /\ ~p.error /\ p.phase = "awaiting_admission"
         /\ Emit(p, [kind |-> "effect_preview", request |-> p.machine.pending.request])
         /\ UNCHANGED granted
      \/ /\ ~p.error /\ p.phase = "awaiting_resolution"
         /\ EmitGrant(p)
      \/ /\ ~p.error /\ p.phase = "completed"
         /\ Emit(p, [kind |-> "completed", trace |-> p.trace]) /\ UNCHANGED granted
-----------------------------------------------------------------------------
HostInit ==
  /\ run \in Runs /\ session = Started /\ restarts = 0
  /\ outstanding = Hello /\ next_message_id = 1
  /\ granted = {} /\ applied = {}
-----------------------------------------------------------------------------
(* Replies *)

InSequence(reply) ==
  /\ reply.session_id = RunId
  /\ reply.in_reply_to = outstanding.message_id

Acknowledges(reply) ==
  /\ InSequence(reply)
  /\ Kind = "hello" /\ reply.kind = "hello_ack"

Admits(reply) ==
  /\ InSequence(reply)
  /\ Kind = "effect_preview" /\ reply.kind = "effect_admission"
  /\ reply.request = outstanding.message.request

\* Faulty variant: the grant a resolution cites is not compared.
ResolvesAnyGrant(reply) ==
  /\ InSequence(reply)
  /\ Kind = "execute_grant" /\ reply.kind = "effect_resolution"
  /\ reply.grant.request = outstanding.message.grant.request
  /\ DOMAIN reply.usage = DOMAIN outstanding.message.grant.max_usage
  /\ \A d \in DOMAIN reply.usage : reply.usage[d] <= outstanding.message.grant.max_usage[d]

\* validate_against: this grant, and a use within its maximum of exactly the
\* dimensions it declares.
Resolves(reply) ==
  /\ InSequence(reply)
  /\ Kind = "execute_grant" /\ reply.kind = "effect_resolution"
  /\ reply.grant = outstanding.message.grant
  /\ DOMAIN reply.usage = DOMAIN outstanding.message.grant.max_usage
  /\ \A d \in DOMAIN reply.usage : reply.usage[d] <= outstanding.message.grant.max_usage[d]

AcceptAck(reply) ==
  /\ Acknowledges(reply)
  /\ Advance(session)
  /\ UNCHANGED <<run, restarts, applied>>

AcceptAdmission(reply) ==
  /\ Admits(reply)
  /\ LET admitted == Admit(session, reply.request, reply.maximums)
     IN  IF admitted.error THEN Close(admitted) /\ UNCHANGED granted ELSE EmitGrant(admitted)
  /\ UNCHANGED <<run, restarts, applied>>

AcceptResolution(reply) ==
  /\ Resolves(reply)
  /\ LET resolved == Resolve(session, reply.grant.request, reply.payload, reply.usage)
     IN  IF resolved.error THEN Close(resolved) /\ UNCHANGED granted ELSE Advance(resolved)
  /\ applied' = applied \cup {[grant |-> reply.grant, before |-> session.trace]}
  /\ UNCHANGED <<run, restarts>>

RefuseReply(reply) ==
  /\ ~Acknowledges(reply) /\ ~Admits(reply) /\ ~Resolves(reply)
  /\ Close(session)
  /\ UNCHANGED <<run, restarts, granted, applied>>

Reply(reply) ==
  AcceptAck(reply) \/ AcceptAdmission(reply) \/ AcceptResolution(reply) \/ RefuseReply(reply)

\* end_of_input and fail_protocol.
EndOfInput ==
  /\ Close(session)
  /\ UNCHANGED <<run, restarts, granted, applied>>

\* restore: a fresh handshake on the continuation of a snapshot.
RestoreFrom(snapshot, trace) ==
  /\ CanRewind(trace, snapshot)
  /\ session' = Restored(trace, snapshot)
  /\ outstanding' = Hello /\ next_message_id' = 1
  /\ UNCHANGED <<run, granted, applied>>

RestoreHost ==
  /\ restarts < MaxRestarts /\ restarts' = restarts + 1
  /\ \E n \in DOMAIN session.snapshots : RestoreFrom(session.snapshots[n], session.trace)
-----------------------------------------------------------------------------
\* Any reply a host may send: to any frame of this conversation or the next
\* one, citing any request and any grant it was ever given.
HostInboundFrames ==
  LET AnyFrame == 0..next_message_id
  IN  [session_id : SessionIds, in_reply_to : AnyFrame, kind : {"hello_ack", "malformed"}]
      \cup [session_id : SessionIds, in_reply_to : AnyFrame, kind : {"effect_admission"},
            request : Requests, maximums : Maximums]
      \cup [session_id : SessionIds, in_reply_to : AnyFrame, kind : {"effect_resolution"},
            grant : granted, payload : Payloads, usage : Usages]

HostNext == (\E reply \in HostInboundFrames : Reply(reply)) \/ EndOfInput \/ RestoreHost

HostSpec == HostInit /\ [][HostNext]_hostVars
-----------------------------------------------------------------------------
(* Properties *)

\* The outstanding frame and the record session never disagree: a preview is
\* out exactly while the session awaits the admission of that request, a
\* grant exactly while the sealed continuation it is bound to is suspended,
\* and a terminal frame exactly when the session has ended the same way.
OutstandingMatchesSession ==
  CASE Kind = "hello" ->
         IF restarts = 0 THEN session = Started
         ELSE \E snapshot \in {session.machine} :
                GrantFor(snapshot) \in granted /\ session = Restored(session.trace, snapshot)
    [] Kind = "effect_preview" ->
         /\ session.phase = "awaiting_admission"
         /\ session.machine.pending.request = outstanding.message.request
    [] Kind = "execute_grant" ->
         /\ session.phase = "awaiting_resolution"
         /\ session.machine = Last(session.snapshots)
         /\ GrantFor(session.machine) = outstanding.message.grant
    [] Kind = "completed" ->
         session.phase = "completed" /\ session.trace = outstanding.message.trace
    [] Kind = "failed" ->
         session.phase = "failed" /\ Last(session.trace) = RunFailed

\* A resolution is applied to the very continuation its grant was sealed
\* with, whatever stale, duplicated or substituted replies arrive and however
\* often the session is restored; and nothing else ever resolves an effect.
ResolutionsApplyToTheirGrants ==
  /\ \A a \in applied : a.before = a.grant.checkpoint \o <<SnapshotWritten>>
  /\ \A n \in DOMAIN session.trace :
       session.trace[n].event = "effect_resolved" =>
         \E a \in applied : a.before = SubSeq(session.trace, 1, n - 1)

\* The conversation is the one the protocol document describes.
Protocol ==
  INSTANCE HostProtocol WITH
    Nothing   <- None,
    awaited   <- CASE Kind = "hello"          -> "hello_ack"
                   [] Kind = "effect_preview" -> "effect_admission"
                   [] Kind = "execute_grant"  -> "effect_resolution"
                   [] OTHER                   -> "none",
    effect    <- CASE Kind = "effect_preview" -> outstanding.message.request
                   [] Kind = "execute_grant"  -> outstanding.message.grant.request
                   [] OTHER                   -> None,
    permitted <- granted,
    resumed   <- restarts > 0

\* Every conversation of the sequencer, with any host, is one HostProtocol
\* allows.
RefinesHostProtocol == Protocol!PSpec
=============================================================================
