------------------------------- MODULE Machine ------------------------------
(***************************************************************************)
(* The explicit virtual machine of crates/aster-runtime/src/machine.rs.    *)
(*                                                                         *)
(* One machine runs one agent event.  It executes the instructions of a    *)
(* checked program over a stack of frames, and whenever the program needs  *)
(* the outside world (a model, a read, an approval, a write) it reserves   *)
(* budget, records a pending effect and suspends.  The caller may reserve  *)
(* variable usage for the pending effect, snapshot the machine, and supply *)
(* a resolution; it may also lose the machine and restore any snapshot.    *)
(*                                                                         *)
(* There is one action per instruction and one per public operation that   *)
(* changes the machine.  A hash is modelled by the content it digests.     *)
(* Locals and value slots share one name space, `slots': Bind and Copy are *)
(* then the same move.  Values are tagged as in value.rs; a record, text   *)
(* or number is an element of Data, and an expression is a partial         *)
(* function on Data (an argument outside its domain is an evaluation       *)
(* error).  Errors of an operation that change nothing are stuttering.     *)
(*                                                                         *)
(* Five variables are not in the code and no guard reads them: `charged'   *)
(* (settled use), `history' (the evidence in the order the record session  *)
(* appends it), `admitted' (permits of the writes whose pending effect was *)
(* made resumable, the point at which a host may perform them), `latest'   *)
(* and `rewinds'.                                                          *)
(***************************************************************************)
EXTENDS Authority, Budget, Sequences, FiniteSets

CONSTANTS
  Slots,          \* names of value slots and locals
  Fields,         \* names of persistent state fields
  StartRequests,  \* the programs, inputs, grants and limits to start from
  Declarations,   \* maps from usage dimensions to the maximums hosts declare
  MaxUsage,       \* bound on reported variable usage
  MaxSnapshots,   \* bound on the number of snapshots
  MaxRestarts,    \* bound on the number of crashes
  NoEffect, NoOutcome

VARIABLES
  start,          \* the start request and its program, never changed
  frames, pending_state, budget, authority, outstanding, pending,
  status,         \* running, completed (completed is Some), failed (failed is Some)
  outcome,
  saved,          \* the snapshots taken in all lives of the machine
  latest,         \* the last of them: no element or one
  restarts,
  rewinds,        \* how many of the restarts restored another than the last
  charged, history, admitted

\* What a snapshot captures (the continuation, with its share of the history).
continuation ==
  <<frames, pending_state, budget, authority, outstanding, pending, charged, history>>

vars == <<start, continuation, status, outcome, saved, latest, restarts, rewinds, admitted>>
-----------------------------------------------------------------------------
(* Values *)

\* `born' counts the evidence recorded when the value was produced; it stands
\* for the provenance the code keeps with the value.
PlainValue ==
       [tag : {"data"}, data : Data]
  \cup [tag : {"candidate", "checked", "observation"}, data : Data, born : Nat]
  \cup [tag : {"intent"}, data : Data, expires_at : Nat]
  \cup [tag : {"proposal"}, proposal : Proposal]
  \cup [tag : {"permit"}, permit : Permit]
  \cup [tag : {"receipt", "reconciled"}, data : Data, proposal : Proposal, born : Nat]

Value == PlainValue \cup [tag : {"ok"}, value : PlainValue] \cup [tag : {"err"}]

Unset == [tag |-> "unset"]
Err   == [tag |-> "err"]
Ok(v) == [tag |-> "ok", value |-> v]
Plain(d) == [tag |-> "data", data |-> d]

\* The values runtime_to_json can render for a request or an operand.
DataTags == {"data", "candidate", "checked", "observation", "receipt", "reconciled"}

Frame == [routine             : STRING,
          instruction_pointer : Nat,
          slots               : [Slots -> Value \cup {Unset}],
          return_target       : Slots]

FrameStack == {stack \in Seq(Frame) : Len(stack) > 0}
-----------------------------------------------------------------------------
(* What checking and lowering guarantee of a start request *)

IsMap(m, keys, values) == DOMAIN m \subseteq keys /\ \A k \in DOMAIN m : m[k] \in values

\* The operands an instruction names are slots of the frame, its targets are
\* instruction indices, and the declarations it names exist.
WellFormedInstr(program, i) ==
  /\ i.op \in {"evaluate", "copy", "unwrap_result", "call", "validate", "construct_intent",
               "construct_proposal", "infer", "observe", "authorize", "commit", "reconcile"}
       => i.target \in Slots
  /\ i.op = "evaluate" => /\ \A k \in DOMAIN i.operands : i.operands[k] \in Slots
                          /\ \A x \in DOMAIN i.apply : i.apply[x] \in Data
  /\ i.op \in {"copy", "construct_intent", "construct_proposal", "infer", "observe"}
       => i.source \in Slots
  /\ i.op = "unwrap_result" => i.result \in Slots
  /\ i.op \in {"branch", "require"} => i.condition \in Slots
  /\ i.op = "branch" => i.then_target \in Nat /\ i.else_target \in Nat
  /\ i.op = "jump" => i.target \in Nat
  /\ i.op \in {"match", "return"} => i.value \in Slots
  /\ i.op = "match" => \A n \in DOMAIN i.arms :
                         /\ i.arms[n].target \in Nat
                         /\ i.arms[n].pattern = "ok" => i.arms[n].binding \in Slots
  /\ i.op = "call" => i.routine \in STRING /\ IsMap(i.arguments, Slots, Slots)
  /\ i.op = "validate" => i.candidate \in Slots
  /\ i.op = "construct_intent" => i.expires_at \in Nat
  /\ i.op = "construct_proposal" => i.intent \in Slots
  /\ i.op \in {"construct_proposal", "observe"} => i.action \in STRING
  /\ i.op = "infer" => i.prompt \in STRING
  /\ i.op \in {"authorize", "commit"} => i.proposal \in Slots
  /\ i.op = "authorize" => i.policy \in STRING /\ i.policy \in DOMAIN program.policies
  /\ i.op = "commit" => i.permit \in Slots
  /\ i.op = "reconcile" => i.receipt \in Slots /\ i.observation \in Slots
  /\ i.op = "update_state" => IsMap(i.fields, Fields, Slots)

WellFormed(request) ==
  /\ request.handler \in STRING
  /\ request.arguments \in [Slots -> Value \cup {Unset}]
  /\ request.result_slot \in Slots
  /\ request.event_time \in Nat
  /\ request.state \in [Fields -> Data]
  /\ IsMap(request.limits, BudgetDimension, Nat)
  /\ \A r \in DOMAIN request.program.routines :
       \A n \in DOMAIN request.program.routines[r] :
         WellFormedInstr(request.program, request.program.routines[r][n])
  /\ \A p \in DOMAIN request.program.policies :
       \A n \in DOMAIN request.program.policies[p] :
         request.program.policies[p][n].decision \in {"allow", "approve", "deny"}
-----------------------------------------------------------------------------
(* Requests and the pending effect *)

DataRequest     == [kind : {"model", "read"}, identity : STRING, data : Data]
ProposalRequest == [kind : {"approval", "write"}, identity : STRING, proposal : Proposal]
EffectRequest   == DataRequest \cup ProposalRequest

\* `held' are the count reservation and the usage reservations by dimension,
\* `expected' the payloads of the expected type, `permits' the permit a write
\* consumed.
IsPendingEffect(p) ==
  \E dims \in SUBSET BudgetDimension :
    p \in [request  : EffectRequest,
          target   : Slots,
          held     : [dims -> Reservation],
          expected : SUBSET Data,
          permits  : SUBSET Permit]

ASSUME DataAssumption == BOOLEAN \subseteq Data
ASSUME RequestsAssumption == \A request \in StartRequests : WellFormed(request)
ASSUME DeclarationsAssumption ==
  \A m \in Declarations : DOMAIN m # {} /\ IsMap(m, UsageDimensions, Nat)
ASSUME BoundsAssumption == MaxUsage \in Nat /\ MaxSnapshots \in Nat /\ MaxRestarts \in Nat
ASSUME SentinelAssumption == ~IsPendingEffect(NoEffect)

\* Faulty variant: a write is charged as a read.
CountWritesAsReads(kind) ==
  CASE kind = "model"    -> "model_calls"
    [] kind = "approval" -> "approvals"
    [] OTHER             -> "external_reads"

CountDimension(kind) ==
  CASE kind = "model"    -> "model_calls"
    [] kind = "read"     -> "external_reads"
    [] kind = "approval" -> "approvals"
    [] kind = "write"    -> "external_writes"
-----------------------------------------------------------------------------
(* The program *)

Program   == start.program
Top       == frames[Len(frames)]
Code(f)   == Program.routines[f.routine]
InBounds  == /\ Top.routine \in DOMAIN Program.routines
             /\ Top.instruction_pointer \in DOMAIN Code(Top)
Instr     == Code(Top)[Top.instruction_pointer]
Slot(s)   == Top.slots[s]
HasTag(s, t) == Slot(s).tag = t
HasData(s)   == Slot(s).tag \in DataTags

\* Faulty variant: the machine goes on while an effect is pending.
ReadyWhilePending == status = "running"

\* step() executes the current instruction only if no outcome or error is
\* stored and no effect is pending.
Ready  == status = "running" /\ pending = NoEffect
At(op) == Ready /\ InBounds /\ Instr.op = op

\* require_capability: no declared capability needs no grant.
Granted(capability, argument) == <<capability, argument>> \in start.capabilities

ToolGranted(action, argument) ==
  Program.tools[action].guarded => Granted(action, argument)

\* decode_json accepts the payloads of the declared type.
Typed(type) == {d \in Data : d \in type}

\* policy_decision: the decision of the first rule whose condition holds.
DecisionOf(policy, proposal) ==
  LET rules   == Program.policies[policy]
      applies == {n \in DOMAIN rules : proposal.data \in rules[n].when}
  IN  IF applies = {} THEN "none"
      ELSE rules[CHOOSE n \in applies : \A m \in applies : n <= m].decision

\* The frame stack after the current frame moves to an instruction with new
\* slots; after it stores v and advances; after it jumps.
Moved(slots, ip) ==
  [frames EXCEPT ![Len(frames)] = [Top EXCEPT !.slots = slots, !.instruction_pointer = ip]]

\* Faulty variant: a result is stored without advancing.
StoredInPlace(slot, v) == Moved([Top.slots EXCEPT ![slot] = v], Top.instruction_pointer)

With(slot, v)   == [Top.slots EXCEPT ![slot] = v]
Stored(slot, v) == Moved(With(slot, v), Top.instruction_pointer + 1)
Jumped(ip)      == Moved(Top.slots, ip)
-----------------------------------------------------------------------------
Init ==
  /\ start \in StartRequests
  /\ frames = <<[routine |-> start.handler, instruction_pointer |-> 1,
                 slots |-> start.arguments, return_target |-> start.result_slot]>>
  /\ pending_state = [f \in {} |-> f]
  /\ budget = NewBudget(start.limits)
  /\ authority = EmptyLedger
  /\ outstanding = {}
  /\ pending = NoEffect
  /\ status = "running"
  /\ outcome = NoOutcome
  /\ saved = {} /\ latest = {}
  /\ restarts = 0 /\ rewinds = 0
  /\ charged = [d \in BudgetDimension |-> 0]
  /\ history = <<>>
  /\ admitted = {}
-----------------------------------------------------------------------------
(* Instructions that only move the frame stack *)

MoveFrames(new) ==
  /\ frames' = new
  /\ UNCHANGED <<start, pending_state, budget, authority, outstanding, pending, status,
                 outcome, saved, latest, restarts, rewinds, charged, history, admitted>>

Operands == [k \in DOMAIN Instr.operands |-> Slot(Instr.operands[k]).data]

\* A candidate is opaque to expressions.
CanEvaluate ==
  /\ \A k \in DOMAIN Instr.operands : /\ HasData(Instr.operands[k])
                                      /\ ~HasTag(Instr.operands[k], "candidate")
  /\ Operands \in DOMAIN Instr.apply

Evaluate ==
  /\ At("evaluate") /\ CanEvaluate
  /\ MoveFrames(Stored(Instr.target, Plain(Instr.apply[Operands])))

\* Bind and Copy.
CanCopy == ~HasTag(Instr.source, "unset")

Copy ==
  /\ At("copy") /\ CanCopy
  /\ MoveFrames(Stored(Instr.target, Slot(Instr.source)))

\* An Err result fails the machine (propagated_error): see Fault.
CanUnwrap == HasTag(Instr.result, "ok")

UnwrapResult ==
  /\ At("unwrap_result") /\ CanUnwrap
  /\ MoveFrames(Stored(Instr.target, Slot(Instr.result).value))

CanBranch == Slot(Instr.condition) \in {Plain(TRUE), Plain(FALSE)}

Branch ==
  /\ At("branch") /\ CanBranch
  /\ MoveFrames(Jumped(IF Slot(Instr.condition) = Plain(TRUE) THEN Instr.then_target
                                                               ELSE Instr.else_target))

Jump ==
  /\ At("jump")
  /\ MoveFrames(Jumped(Instr.target))

\* match_pattern: a wildcard, the constructor of a Result, or the variants of
\* an enum.  The first arm that matches is taken; an Ok arm binds the payload.
Accepts(arm, v) ==
  arm.pattern = "_" \/ (arm.pattern = v.tag /\ (v.tag = "data" => v.data \in arm.variants))

Matching == {n \in DOMAIN Instr.arms : Accepts(Instr.arms[n], Slot(Instr.value))}

CanMatch == ~HasTag(Instr.value, "unset") /\ Matching # {}

Match ==
  /\ At("match") /\ CanMatch
  /\ \E n \in Matching :
       LET arm == Instr.arms[n]
       IN  /\ \A m \in Matching : n <= m
           /\ MoveFrames(IF arm.pattern = "ok"
                         THEN Moved(With(arm.binding, Slot(Instr.value).value), arm.target)
                         ELSE Jumped(arm.target))

\* The caller advances before the callee's frame is pushed.
CanCall ==
  /\ Instr.routine \in DOMAIN Program.routines
  /\ \A p \in DOMAIN Instr.arguments : ~HasTag(Instr.arguments[p], "unset")

Call ==
  /\ At("call") /\ CanCall
  /\ MoveFrames(Append(Jumped(Top.instruction_pointer + 1),
                  [routine |-> Instr.routine, instruction_pointer |-> 1,
                   slots |-> [s \in Slots |-> IF s \in DOMAIN Instr.arguments
                                              THEN Slot(Instr.arguments[s]) ELSE Unset],
                   return_target |-> Instr.target]))

CanReturn == ~HasTag(Instr.value, "unset")

ReturnToCaller ==
  /\ At("return") /\ CanReturn
  /\ Len(frames) > 1
  /\ MoveFrames([n \in 1..(Len(frames) - 1) |->
                   IF n = Len(frames) - 1
                   THEN [frames[n] EXCEPT !.slots[Top.return_target] = Slot(Instr.value)]
                   ELSE frames[n]])

\* Validate: a failed requirement is an Err value, not a machine error.
CanValidate == HasTag(Instr.candidate, "candidate")

Validate ==
  /\ At("validate") /\ CanValidate
  /\ LET candidate == Slot(Instr.candidate)
     IN  MoveFrames(Stored(Instr.target,
           IF <<candidate.data>> \in Program.validators[Instr.validator]
           THEN Ok([tag |-> "checked", data |-> candidate.data, born |-> candidate.born])
           ELSE Err))

CanIntend == HasData(Instr.source)

ConstructIntent ==
  /\ At("construct_intent") /\ CanIntend
  /\ MoveFrames(Stored(Instr.target,
       [tag |-> "intent", data |-> Slot(Instr.source).data, expires_at |-> Instr.expires_at]))

\* The capability is checked here and again when the proposal is committed.
CanPropose ==
  /\ HasTag(Instr.intent, "intent")
  /\ HasData(Instr.source)
  /\ Instr.action \in DOMAIN Program.tools
  /\ ToolGranted(Instr.action, Slot(Instr.source).data)

ConstructProposal ==
  /\ At("construct_proposal") /\ CanPropose
  /\ MoveFrames(Stored(Instr.target,
       [tag |-> "proposal",
        proposal |-> [action |-> Instr.action, data |-> Slot(Instr.source).data,
                      intent |-> Slot(Instr.intent).data,
                      expires_at |-> Slot(Instr.intent).expires_at]]))

CanRequire == Slot(Instr.condition) = Plain(TRUE)

Require ==
  /\ At("require") /\ CanRequire
  /\ MoveFrames(Jumped(Top.instruction_pointer + 1))
-----------------------------------------------------------------------------
(* Persistent state and completion *)

CanUpdate == \A f \in DOMAIN Instr.fields : HasData(Instr.fields[f])

UpdateState ==
  /\ At("update_state") /\ CanUpdate
  /\ pending_state' = [f \in DOMAIN pending_state \cup DOMAIN Instr.fields |->
                         IF f \in DOMAIN Instr.fields THEN Slot(Instr.fields[f]).data
                                                      ELSE pending_state[f]]
  /\ frames' = Jumped(Top.instruction_pointer + 1)
  /\ UNCHANGED <<start, budget, authority, outstanding, pending, status, outcome, saved,
                 latest, restarts, rewinds, charged, history, admitted>>

\* Faulty variant: outstanding receipts do not block completion.
CompleteRegardless == CanReturn /\ HasData(Instr.value)

\* The handler's own return: refused while a receipt is outstanding.
CanComplete == CanReturn /\ outstanding = {} /\ HasData(Instr.value)

Complete ==
  /\ At("return") /\ CanComplete
  /\ Len(frames) = 1
  /\ outcome' = [state |-> [f \in Fields |-> IF f \in DOMAIN pending_state
                                             THEN pending_state[f] ELSE start.state[f]],
                 value |-> Slot(Instr.value).data]
  /\ pending_state' = [f \in {} |-> f]
  /\ status' = "completed"
  /\ UNCHANGED <<start, frames, budget, authority, outstanding, pending, saved, latest,
                 restarts, rewinds, charged, history, admitted>>
-----------------------------------------------------------------------------
(* Instructions that suspend on an external effect *)

\* Reserve one unit, record the pending effect, and yield the request.
Suspend(request, expected, permits, evidence) ==
  LET one == [d \in {CountDimension(request.kind)} |-> 1]
  IN  /\ budget' = Reserve(budget, one)
      /\ pending' = [request |-> request, target |-> Instr.target,
                     held |-> ReservationsFor(budget, one),
                     expected |-> expected, permits |-> permits]
      /\ history' = Append(history \o evidence, [event |-> "effect_requested", request |-> request])
      /\ UNCHANGED <<start, frames, pending_state, outstanding, status, outcome, saved,
                     latest, restarts, rewinds, charged, admitted>>

HasBudget(kind) == CanReserve(budget, CountDimension(kind), 1)

CanInfer ==
  /\ HasData(Instr.source)
  /\ Granted("ModelUse", Instr.alias)
  /\ HasBudget("model")

Infer ==
  /\ At("infer") /\ CanInfer
  /\ Suspend([kind |-> "model", identity |-> Instr.prompt, data |-> Slot(Instr.source).data],
             Typed(Program.prompts[Instr.prompt]), {}, <<>>)
  /\ UNCHANGED authority

CanObserve ==
  /\ HasData(Instr.source)
  /\ Instr.action \in DOMAIN Program.tools
  /\ ToolGranted(Instr.action, Slot(Instr.source).data)
  /\ HasBudget("read")

Observe ==
  /\ At("observe") /\ CanObserve
  /\ Suspend([kind |-> "read", identity |-> Instr.action, data |-> Slot(Instr.source).data],
             Typed(Program.tools[Instr.action].result), {}, <<>>)
  /\ UNCHANGED authority
-----------------------------------------------------------------------------
(* Authorize: evaluate the policy, then issue, suspend, or deny *)

Decided(decision) ==
  [event |-> "policy_decision", policy |-> Instr.policy,
   proposal |-> Slot(Instr.proposal).proposal, decision |-> decision]

Decision == DecisionOf(Instr.policy, Slot(Instr.proposal).proposal)

CanAuthorize ==
  /\ HasTag(Instr.proposal, "proposal")
  /\ Decision # "none"
  /\ Decision = "approve" => Instr.approval_may_suspend

Issued(permit) ==
  [event |-> "permit_issued", policy |-> permit.policy, proposal |-> permit.proposal]

AuthorizeAllow ==
  /\ At("authorize") /\ CanAuthorize /\ Decision = "allow"
  /\ LET permit == NextPermit(authority, Slot(Instr.proposal).proposal, Instr.policy,
                              start.event_time, "direct_allow")
     IN  /\ authority' = Issue(authority, permit)
         /\ history' = history \o <<Decided("allow"), Issued(permit)>>
         /\ frames' = Stored(Instr.target, Ok([tag |-> "permit", permit |-> permit]))
  /\ UNCHANGED <<start, pending_state, budget, outstanding, pending, status, outcome, saved,
                 latest, restarts, rewinds, charged, admitted>>

AuthorizeDeny ==
  /\ At("authorize") /\ CanAuthorize /\ Decision = "deny"
  /\ history' = Append(history, Decided("deny"))
  /\ frames' = Stored(Instr.target, Err)
  /\ UNCHANGED <<start, pending_state, budget, authority, outstanding, pending, status,
                 outcome, saved, latest, restarts, rewinds, charged, admitted>>

CanAskApproval == Granted("HumanApproval", Program.principal) /\ HasBudget("approval")

AuthorizeSuspend ==
  /\ At("authorize") /\ CanAuthorize /\ Decision = "approve" /\ CanAskApproval
  /\ Suspend([kind |-> "approval", identity |-> Instr.policy,
              proposal |-> Slot(Instr.proposal).proposal],
             BOOLEAN, {}, <<Decided("approve")>>)
  /\ UNCHANGED authority

\* The decision is already in the evidence when the machine fails.
AuthorizeRefused ==
  /\ At("authorize") /\ CanAuthorize /\ Decision = "approve" /\ ~CanAskApproval
  /\ history' = Append(history, Decided("approve"))
  /\ status' = "failed"
  /\ UNCHANGED <<start, frames, pending_state, budget, authority, outstanding, pending,
                 outcome, saved, latest, restarts, rewinds, charged, admitted>>
-----------------------------------------------------------------------------
(* Commit: consume the permit, then suspend on the write *)

CanCommit ==
  /\ HasTag(Instr.proposal, "proposal")
  /\ HasTag(Instr.permit, "permit")
  /\ LET proposal == Slot(Instr.proposal).proposal
     IN  /\ ToolGranted(proposal.action, proposal.data)
         /\ CanConsume(authority, proposal, Slot(Instr.permit).permit, start.event_time)

Committed ==
  [event |-> "proposal_committed", proposal |-> Slot(Instr.proposal).proposal,
   permit |-> Slot(Instr.permit).permit]

Commit ==
  /\ At("commit") /\ CanCommit /\ HasBudget("write")
  /\ LET proposal == Slot(Instr.proposal).proposal
         permit   == Slot(Instr.permit).permit
     IN  /\ authority' = Consume(authority, permit)
         /\ Suspend([kind |-> "write", identity |-> proposal.action, proposal |-> proposal],
                    Typed(Program.tools[proposal.action].result), {permit}, <<Committed>>)

\* The permit is spent before the write budget is found exhausted.
CommitExhausted ==
  /\ At("commit") /\ CanCommit /\ ~HasBudget("write")
  /\ authority' = Consume(authority, Slot(Instr.permit).permit)
  /\ history' = Append(history, Committed)
  /\ status' = "failed"
  /\ UNCHANGED <<start, frames, pending_state, budget, outstanding, pending, outcome, saved,
                 latest, restarts, rewinds, charged, admitted>>

CanReconcile == HasTag(Instr.receipt, "receipt") /\ HasTag(Instr.observation, "observation")

\* Outstanding receipts are a set of proposal hashes; a failed validation
\* leaves the receipt outstanding and an Err in the slot.
Reconcile ==
  /\ At("reconcile") /\ CanReconcile
  /\ LET receipt     == Slot(Instr.receipt)
         observation == Slot(Instr.observation)
         valid == <<receipt.data, observation.data>> \in Program.validators[Instr.validator]
     IN  /\ outstanding' = IF valid THEN outstanding \ {receipt.proposal} ELSE outstanding
         /\ frames' = Stored(Instr.target,
              IF valid THEN Ok([tag |-> "reconciled", data |-> receipt.data,
                                proposal |-> receipt.proposal, born |-> receipt.born])
                       ELSE Err)
         /\ history' = Append(history,
              [event |-> "reconciliation_decision", proposal |-> receipt.proposal,
               matched |-> valid, receipt_born |-> receipt.born,
               observation_born |-> observation.born])
  /\ UNCHANGED <<start, pending_state, budget, authority, pending, status, outcome, saved,
                 latest, restarts, rewinds, charged, admitted>>
-----------------------------------------------------------------------------
(* A machine error: the error is stored and the continuation is left as it *)
(* was.                                                                     *)

Executable ==
  \/ Instr.op = "evaluate" /\ CanEvaluate
  \/ Instr.op = "copy" /\ CanCopy
  \/ Instr.op = "unwrap_result" /\ CanUnwrap
  \/ Instr.op = "branch" /\ CanBranch
  \/ Instr.op = "jump"
  \/ Instr.op = "match" /\ CanMatch
  \/ Instr.op = "call" /\ CanCall
  \/ Instr.op = "return" /\ (IF Len(frames) > 1 THEN CanReturn ELSE CanComplete)
  \/ Instr.op = "validate" /\ CanValidate
  \/ Instr.op = "construct_intent" /\ CanIntend
  \/ Instr.op = "construct_proposal" /\ CanPropose
  \/ Instr.op = "require" /\ CanRequire
  \/ Instr.op = "update_state" /\ CanUpdate
  \/ Instr.op = "infer" /\ CanInfer
  \/ Instr.op = "observe" /\ CanObserve
  \/ Instr.op = "authorize" /\ CanAuthorize
  \/ Instr.op = "commit" /\ CanCommit
  \/ Instr.op = "reconcile" /\ CanReconcile

Fault ==
  /\ Ready
  /\ ~(InBounds /\ Executable)
  /\ status' = "failed"
  /\ UNCHANGED <<start, continuation, outcome, saved, latest, restarts, rewinds, admitted>>
-----------------------------------------------------------------------------
(* reserve_pending_usage, supply, snapshot and restore *)

Suspended == status = "running" /\ pending # NoEffect

\* Either every declared maximum is reserved or none is.
ReservePendingUsage(maximums) ==
  /\ Suspended
  /\ DOMAIN maximums \cap DOMAIN pending.held = {}
  /\ \A d \in DOMAIN maximums : CanReserve(budget, d, maximums[d])
  /\ budget' = Reserve(budget, maximums)
  /\ pending' = [pending EXCEPT !.held =
                   [d \in DOMAIN pending.held \cup DOMAIN maximums |->
                      IF d \in DOMAIN maximums THEN ReservationsFor(budget, maximums)[d]
                                               ELSE pending.held[d]]]
  /\ UNCHANGED <<start, frames, pending_state, authority, outstanding, status, outcome,
                 saved, latest, restarts, rewinds, charged, history, admitted>>

\* A resolution reports use for some reserved usage dimensions; an absent
\* report is zero and a count reservation is settled with one.
Use(usage) ==
  [d \in DOMAIN pending.held |->
     IF d \in CountDimensions THEN 1 ELSE IF d \in DOMAIN usage THEN usage[d] ELSE 0]

SettleAndCharge(usage, dims) ==
  /\ budget' = Settle(budget, pending.held, Use(usage), dims)
  /\ charged' = [d \in BudgetDimension |->
                   IF d \in dims THEN charged[d] + Use(usage)[d] ELSE charged[d]]

CanSupply(usage) ==
  /\ Suspended
  /\ DOMAIN usage \subseteq DOMAIN pending.held \cap UsageDimensions
  /\ pending.held[CountDimension(pending.request.kind)] \in budget.reservations

CanSettleAll(usage) ==
  \A d \in DOMAIN pending.held : CanSettle(budget, pending.held[d], Use(usage)[d])

Resolved(payload) ==
  [event |-> "effect_resolved", request |-> pending.request, payload |-> payload]

\* Faulty variant: every answer to an approval request counts as a yes.
ApprovesAnyAnswer(payload) == pending.request.kind = "approval"

Approves(payload) == pending.request.kind = "approval" /\ payload = TRUE

\* The value decode_resolution produces for a well-typed payload, given the
\* permit an approval would issue.
Decoded(payload, permit) ==
  CASE pending.request.kind = "model" ->
         Ok([tag |-> "candidate", data |-> payload, born |-> Len(history)])
    [] pending.request.kind = "read" ->
         Ok([tag |-> "observation", data |-> payload, born |-> Len(history)])
    [] pending.request.kind = "write" ->
         Ok([tag |-> "receipt", data |-> payload, proposal |-> pending.request.proposal,
             born |-> Len(history)])
    [] pending.request.kind = "approval" ->
         IF Approves(payload) THEN Ok([tag |-> "permit", permit |-> permit]) ELSE Err

ApprovalPermit ==
  NextPermit(authority, pending.request.proposal, pending.request.identity,
             start.event_time, "human_approval")

Supply(usage, payload) ==
  /\ CanSupply(usage) /\ CanSettleAll(usage)
  /\ payload \in pending.expected
  /\ SettleAndCharge(usage, DOMAIN pending.held)
  /\ authority' = IF Approves(payload) THEN Issue(authority, ApprovalPermit) ELSE authority
  /\ history' = history \o (IF Approves(payload)
                            THEN <<Resolved(payload), Issued(ApprovalPermit)>>
                            ELSE <<Resolved(payload)>>)
  /\ outstanding' = IF pending.request.kind = "write"
                    THEN outstanding \cup {pending.request.proposal} ELSE outstanding
  /\ frames' = Stored(pending.target, Decoded(payload, ApprovalPermit))
  /\ pending' = NoEffect
  /\ UNCHANGED <<start, pending_state, status, outcome, saved, latest, restarts, rewinds,
                 admitted>>

\* The payload is decoded after settlement: a malformed one leaves the effect
\* pending with its reservations gone.
SupplyMalformed(usage, payload) ==
  /\ CanSupply(usage) /\ CanSettleAll(usage)
  /\ payload \notin pending.expected
  /\ SettleAndCharge(usage, DOMAIN pending.held)
  /\ UNCHANGED <<start, frames, pending_state, authority, outstanding, pending, status,
                 outcome, saved, latest, restarts, rewinds, history, admitted>>

\* The first usage dimension found over its maximum stops the settlement: the
\* count and the dimensions before it are already settled.
SupplyOverdrawn(usage) ==
  /\ CanSupply(usage)
  /\ \E over \in DOMAIN usage :
       LET before == {d \in DOMAIN pending.held :
                        d \in CountDimensions \/ UsageRank(d) < UsageRank(over)}
       IN  /\ ~CanSettle(budget, pending.held[over], Use(usage)[over])
           /\ \A d \in before : CanSettle(budget, pending.held[d], Use(usage)[d])
           /\ SettleAndCharge(usage, before)
  /\ UNCHANGED <<start, frames, pending_state, authority, outstanding, pending, status,
                 outcome, saved, latest, restarts, rewinds, history, admitted>>

\* Faulty variant: the snapshot forgets which permits are consumed.
ContinuationUnspent ==
  [frames |-> frames, pending_state |-> pending_state, budget |-> budget,
   authority |-> [authority EXCEPT !.consumed = {}], outstanding |-> outstanding,
   pending |-> pending, charged |-> charged, history |-> history]

Continuation ==
  [frames |-> frames, pending_state |-> pending_state, budget |-> budget,
   authority |-> authority, outstanding |-> outstanding, pending |-> pending,
   charged |-> charged, history |-> history]

\* The record session snapshots a machine only while an effect is pending,
\* and before the effect is performed.
Snapshot ==
  /\ Suspended
  /\ Continuation \in saved \/ Cardinality(saved) < MaxSnapshots
  /\ saved' = saved \cup {Continuation} /\ latest' = {Continuation}
  /\ admitted' = admitted \cup pending.permits
  /\ UNCHANGED <<start, continuation, status, outcome, restarts, rewinds>>

\* The process is lost at any point and a snapshot restored, the last one or
\* an older one: restore() asks only that it belongs to the program.
Restore ==
  /\ restarts < MaxRestarts
  /\ \E s \in saved : /\ frames' = s.frames /\ pending_state' = s.pending_state
                     /\ budget' = s.budget /\ authority' = s.authority
                     /\ outstanding' = s.outstanding /\ pending' = s.pending
                     /\ charged' = s.charged /\ history' = s.history
                     /\ rewinds' = IF s \in latest THEN rewinds ELSE rewinds + 1
  /\ status' = "running" /\ outcome' = NoOutcome
  /\ restarts' = restarts + 1
  /\ UNCHANGED <<start, saved, latest, admitted>>

\* step() on a suspended, completed or failed machine repeats its answer.
StepAgain == ~Ready /\ UNCHANGED vars
-----------------------------------------------------------------------------
UsageReports == UNION {[D -> 0..MaxUsage] : D \in SUBSET UsageDimensions}

Step ==
  \/ Evaluate \/ Copy \/ UnwrapResult \/ Branch \/ Jump \/ Match \/ Call \/ ReturnToCaller
  \/ Validate \/ ConstructIntent \/ ConstructProposal \/ Require \/ UpdateState \/ Complete
  \/ Infer \/ Observe
  \/ AuthorizeAllow \/ AuthorizeDeny \/ AuthorizeSuspend \/ AuthorizeRefused
  \/ Commit \/ CommitExhausted \/ Reconcile \/ Fault

Resolve ==
  \E usage \in UsageReports :
    \/ \E payload \in Data : Supply(usage, payload) \/ SupplyMalformed(usage, payload)
    \/ SupplyOverdrawn(usage)

Next ==
  \/ Step
  \/ Resolve
  \/ \E maximums \in Declarations : ReservePendingUsage(maximums)
  \/ Snapshot
  \/ Restore
  \/ StepAgain

Spec == Init /\ [][Next]_vars

\* The caller's loop keeps stepping the machine (run.rs, progress).
FairSpec == Spec /\ WF_vars(Step)
-----------------------------------------------------------------------------
(* Types *)

Outcome == [state : [Fields -> Data], value : Data]

Event ==
       [event : {"policy_decision"}, policy : STRING, proposal : Proposal,
        decision : {"allow", "approve", "deny"}]
  \cup [event : {"permit_issued"}, policy : STRING, proposal : Proposal]
  \cup [event : {"proposal_committed"}, proposal : Proposal, permit : Permit]
  \cup [event : {"effect_requested"}, request : EffectRequest]
  \cup [event : {"effect_resolved"}, request : EffectRequest, payload : Data]
  \cup [event : {"reconciliation_decision"}, proposal : Proposal, matched : BOOLEAN,
        receipt_born : Nat, observation_born : Nat]

PendingState == UNION {[F -> Data] : F \in SUBSET Fields}

IsSnapshot(s) ==
  /\ s \in [frames : FrameStack, pending_state : PendingState, budget : BudgetLedger,
           authority : AuthorityLedger, outstanding : SUBSET Proposal, pending : {s.pending},
           charged : [BudgetDimension -> Nat], history : Seq(Event)]
  /\ IsPendingEffect(s.pending)

\* The type invariant: every slot of every frame, every ledger entry and
\* every piece of evidence has the shape the code's types give it, in the
\* live machine and in every snapshot.
TypeOK ==
  /\ start \in StartRequests
  /\ frames \in FrameStack
  /\ pending_state \in PendingState
  /\ budget \in BudgetLedger
  /\ authority \in AuthorityLedger
  /\ outstanding \subseteq Proposal
  /\ pending = NoEffect \/ IsPendingEffect(pending)
  /\ status \in {"running", "completed", "failed"}
  /\ outcome \in Outcome \cup {NoOutcome}
  /\ latest \subseteq saved /\ \A s \in saved : IsSnapshot(s)
  /\ restarts \in 0..MaxRestarts /\ rewinds \in 0..restarts
  /\ charged \in [BudgetDimension -> Nat]
  /\ history \in Seq(Event)
  /\ admitted \subseteq Permit
-----------------------------------------------------------------------------
(* Safety *)

Limit(d) == NewBudget(start.limits).remaining[d]

\* In each dimension, what remains, what the one open reservation holds and
\* what was settled add up to the event's limit: no partial reservation, no
\* partly failed settlement and no restored snapshot creates or loses
\* capacity (Budget::reserve and settle under supply and
\* reserve_pending_usage).
BudgetConserved ==
  \A d \in BudgetDimension :
    LET open == {r \in budget.reservations : r.dimension = d}
    IN  \/ open = {} /\ budget.remaining[d] + charged[d] = Limit(d)
        \/ \E r \in open : /\ open = {r}
                           /\ budget.remaining[d] + r.maximum + charged[d] = Limit(d)

\* Reservations belong to the pending effect: a machine that goes on, ends or
\* fails has settled all of them, so no capacity stays locked up behind an
\* effect that is over.
NoReservationOutlivesItsEffect ==
  budget.reservations \subseteq
    (IF pending = NoEffect THEN {} ELSE {pending.held[d] : d \in DOMAIN pending.held})

IsCommit(h, n) == h[n].event = "proposal_committed"

\* No two commits of a run use the same permit, each permit used was issued
\* here for exactly the proposal committed, and it is on the consumed ledger
\* (AuthorityLedger::consume before a driver is invoked), also after a crash.
CommitsSpendDistinctPermits ==
  \A n \in DOMAIN history : IsCommit(history, n) =>
    /\ history[n].permit \in authority.consumed
    /\ history[n].permit.proposal = history[n].proposal
    /\ \A m \in DOMAIN history :
         m # n /\ IsCommit(history, m) => history[m].permit # history[n].permit

\* The decision that stands behind a permit, in the evidence h before entry n:
\* an allow rule, or an approve rule and a person's yes to that request.
DecidedBefore(h, n, permit) ==
  LET DecisionAt(k, decision) ==
        h[k] = [event |-> "policy_decision", policy |-> permit.policy,
                proposal |-> permit.proposal, decision |-> decision]
  IN  \/ /\ permit.evidence = "direct_allow"
         /\ \E k \in 1..(n - 1) : DecisionAt(k, "allow")
      \/ /\ permit.evidence = "human_approval"
         /\ \E k \in 1..(n - 1) : \E l \in (k + 1)..(n - 1) :
              /\ DecisionAt(k, "approve")
              /\ h[l] = [event   |-> "effect_resolved",
                         request |-> [kind |-> "approval", identity |-> permit.policy,
                                      proposal |-> permit.proposal],
                         payload |-> TRUE]

\* Every write that is offered was decided by the policy for that very
\* proposal, and where the policy asks for approval, approved by a person
\* (execute_authorize, decode_resolution, yield_commit).
CommitsWereDecided ==
  \A n \in DOMAIN history :
    IsCommit(history, n) => DecidedBefore(history, n, history[n].permit)

RequestedAt(h, n) == h[n].event = "effect_requested"
ResolvedAt(h, n)  == h[n].event = "effect_resolved"
ExchangedAt(h, n) == RequestedAt(h, n) \/ ResolvedAt(h, n)

\* The last request or resolution before entry n, if there is one.
LastBefore(h, n) ==
  {m \in DOMAIN h : /\ m < n /\ ExchangedAt(h, m)
                    /\ \A k \in DOMAIN h : k < n /\ ExchangedAt(h, k) => k <= m}

\* Whether a request may be made before entry n, or that one awaits its answer.
AllResolved(h, n) == \A m \in LastBefore(h, n) : ResolvedAt(h, m)
Awaits(h, n, request) == \E m \in LastBefore(h, n) : RequestedAt(h, m) /\ h[m].request = request

\* Requests and resolutions alternate: an effect is requested only when the
\* one before it was resolved, a resolution answers the request last made,
\* and the pending effect is the one request without a resolution.
OneEffectAtATime ==
  LET next == Len(history) + 1
  IN  /\ \A n \in DOMAIN history :
           /\ RequestedAt(history, n) => AllResolved(history, n)
           /\ ResolvedAt(history, n) => Awaits(history, n, history[n].request)
      /\ IF pending = NoEffect THEN AllResolved(history, next)
         ELSE Awaits(history, next, pending.request)

WriteResolved(h, n) == h[n].event = "effect_resolved" /\ h[n].request.kind = "write"

MatchedFor(h, n, proposal) ==
  /\ h[n].event = "reconciliation_decision"
  /\ h[n].matched
  /\ h[n].proposal = proposal

\* A machine completes only after every write it performed was followed by a
\* successful reconciliation of the same proposal.
CompletionReconciled ==
  status = "completed" =>
    \A n \in DOMAIN history : WriteResolved(history, n) =>
      \E m \in (n + 1)..Len(history) : MatchedFor(history, m, history[n].request.proposal)

\* A permit whose write a host may have performed is never usable again, in
\* this life of the machine or after any number of crashes, as long as each
\* crash is followed by a restore of the last snapshot: the one that makes the
\* pending write resumable already holds the consumption.  An older snapshot
\* may hold the permit unspent.
AdmittedWritesStayConsumed == rewinds = 0 => admitted \subseteq authority.consumed

\* Over all the lives of a machine, the distinct writes a host may have
\* performed stay within the event's write budget, once more for each restore
\* of a snapshot that is not the last: nothing but going back to one gives
\* write units back.
AdmittedWritesWithinBudget ==
  Cardinality(admitted) <= Limit("external_writes") * (rewinds + 1)
-----------------------------------------------------------------------------
(* Refinement and liveness *)

\* The machine implements the authority protocol of GovernedEffects.
Governed ==
  INSTANCE GovernedEffects WITH
    Nothing     <- NoEffect,
    phase       <- IF Suspended THEN "waiting" ELSE status,
    request     <- IF pending = NoEffect THEN NoEffect ELSE pending.request,
    usable      <- authority.issued \ authority.consumed,
    spent       <- authority.consumed,
    owed        <- outstanding,
    checkpoints <- {[request |-> s.pending.request,
                     usable  |-> s.authority.issued \ s.authority.consumed,
                     spent   |-> s.authority.consumed,
                     owed    |-> s.outstanding] : s \in saved}

\* Every behaviour of the machine, its faults, partial failures and restored
\* snapshots included, is one GovernedEffects allows.
RefinesGovernedEffects == Governed!GSpec

\* A stepped machine does not run forever: it suspends, completes or fails.
\* Handlers have no backward jumps and calls do not recurse.
KeepsMoving == Ready ~> ~Ready
-----------------------------------------------------------------------------
(* Claims of the documentation that the machine does not meet *)

\* docs/spec/aster-0.1.md:363: "A top-level handler cannot complete while a
\* committed receipt remains unreconciled": every receipt has a successful
\* reconciliation of its own.
EachReceiptReconciled ==
  status = "completed" =>
    \A proposal \in {history[n].request.proposal :
                       n \in {k \in DOMAIN history : WriteResolved(history, k)}} :
      Cardinality({n \in DOMAIN history :
                     WriteResolved(history, n) /\ history[n].request.proposal = proposal})
        <= Cardinality({n \in DOMAIN history : MatchedFor(history, n, proposal)})

\* ARCHITECTURE.md:44: "Receipt must be reconciled against a later observation
\* before normal completion".
ReconciledAgainstLaterObservation ==
  \A n \in DOMAIN history :
    history[n].event = "reconciliation_decision" /\ history[n].matched =>
      history[n].observation_born > history[n].receipt_born
=============================================================================
