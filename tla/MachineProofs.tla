---------------------------- MODULE MachineProofs ---------------------------
(***************************************************************************)
(* Proofs about Machine for every program, input, grant, budget and bound  *)
(* that satisfies its assumptions.  First the operators of Budget, for     *)
(* every ledger: what reserving and settling return, and that both keep    *)
(* the account of each dimension.                                          *)
(***************************************************************************)
EXTENDS Machine, TLAPS

\* A map of maximums that fits what remains.
Affordable(b, maximums) ==
  /\ DOMAIN maximums \subseteq BudgetDimension
  /\ \A d \in DOMAIN maximums : maximums[d] \in Nat /\ CanReserve(b, d, maximums[d])

\* Reservations keyed by their own dimension.
Keyed(held) ==
  /\ DOMAIN held \subseteq BudgetDimension
  /\ \A d \in DOMAIN held : held[d] \in Reservation /\ held[d].dimension = d

\* A use within its reservation.
Covers(held, actual, dims) ==
  /\ dims \subseteq DOMAIN held
  /\ \A d \in dims : actual[d] \in Nat /\ actual[d] <= held[d].maximum

\* What is open in a dimension of a ledger whose reservations are among `held'.
OpenIn(b, held, d) ==
  IF d \in DOMAIN held /\ held[d] \in b.reservations THEN held[d].maximum ELSE 0

\* Each reservation that a map of maximums obtains is a reservation of the
\* dimension it is keyed by and of the declared maximum (Budget::reserve).
LEMMA ReservationsForType ==
  ASSUME NEW b \in BudgetLedger, NEW maximums, Affordable(b, maximums)
  PROVE  /\ DOMAIN ReservationsFor(b, maximums) = DOMAIN maximums
         /\ Keyed(ReservationsFor(b, maximums))
         /\ \A d \in DOMAIN maximums : ReservationsFor(b, maximums)[d].maximum = maximums[d]
<1> DEFINE rank(d) == IF DOMAIN maximums = UsageDimensions THEN UsageRank(d) ELSE 0
<1>1. \A d : b.next_id + rank(d) \in Nat
  BY DEF BudgetLedger, UsageRank
<1>2. ReservationsFor(b, maximums) =
        [d \in DOMAIN maximums |->
           [id |-> b.next_id + rank(d), dimension |-> d, maximum |-> maximums[d]]]
  BY DEF ReservationsFor
<1> HIDE DEF rank
<1>3. QED
  BY <1>1, <1>2 DEF Keyed, Affordable, Reservation

\* Reserving within what remains yields a ledger: the subtraction of
\* Budget::reserve cannot underflow.
LEMMA ReserveType ==
  ASSUME NEW b \in BudgetLedger, NEW maximums, Affordable(b, maximums)
  PROVE  Reserve(b, maximums) \in BudgetLedger
<1> DEFINE held == ReservationsFor(b, maximums)
<1>1. \A d \in DOMAIN held : held[d] \in Reservation
  BY ReservationsForType DEF Keyed
<1>2. \A d \in DOMAIN maximums : b.remaining[d] - maximums[d] \in Nat
  BY DEF Affordable, CanReserve, BudgetLedger
<1>3. b.reservations \cup {held[d] : d \in DOMAIN held} \subseteq Reservation
  BY <1>1 DEF BudgetLedger
<1>4. QED
  BY <1>2, <1>3 DEF Reserve, BudgetLedger

\* Settling uses that the reservations cover yields a ledger: the difference
\* that Budget::settle releases is never negative.
LEMMA SettleType ==
  ASSUME NEW b \in BudgetLedger, NEW held, NEW actual, NEW dims,
         DOMAIN held \subseteq BudgetDimension,
         \A d \in DOMAIN held : held[d] \in Reservation,
         Covers(held, actual, dims)
  PROVE  Settle(b, held, actual, dims) \in BudgetLedger
<1>1. \A d \in dims : held[d].maximum - actual[d] \in Nat
  BY DEF Covers, Reservation
<1>2. \A d \in dims : b.remaining[d] + (held[d].maximum - actual[d]) \in Nat
  BY <1>1 DEF Covers, BudgetLedger
<1>3. QED
  BY <1>2 DEF Settle, BudgetLedger

\* Reserving moves the maximum from what remains to what is open.
LEMMA ReserveBalance ==
  ASSUME NEW b \in BudgetLedger, NEW maximums, Affordable(b, maximums),
         NEW held, Keyed(held), DOMAIN maximums \cap DOMAIN held = {},
         b.reservations \subseteq {held[d] : d \in DOMAIN held},
         NEW joined,
         joined = [d \in DOMAIN held \cup DOMAIN maximums |->
                     IF d \in DOMAIN maximums THEN ReservationsFor(b, maximums)[d] ELSE held[d]],
         NEW d \in BudgetDimension
  PROVE  /\ Keyed(joined)
         /\ Reserve(b, maximums).reservations \subseteq {joined[k] : k \in DOMAIN joined}
         /\ Reserve(b, maximums).remaining[d] + OpenIn(Reserve(b, maximums), joined, d)
              = b.remaining[d] + OpenIn(b, held, d)
<1> DEFINE new == ReservationsFor(b, maximums)
           after == Reserve(b, maximums)
<1>1. /\ DOMAIN new = DOMAIN maximums /\ Keyed(new)
      /\ \A k \in DOMAIN maximums : new[k].maximum = maximums[k]
  BY ReservationsForType
<1>2. Keyed(joined)
  BY <1>1 DEF Keyed
<1>3. after.reservations = b.reservations \cup {new[k] : k \in DOMAIN new}
  BY DEF Reserve
<1>4. after.reservations \subseteq {joined[k] : k \in DOMAIN joined}
  BY <1>1, <1>3
<1> DEFINE Balance == after.remaining[d] + OpenIn(after, joined, d)
                        = b.remaining[d] + OpenIn(b, held, d)
<1>5. ASSUME d \in DOMAIN maximums PROVE Balance
  <2>1. after.remaining[d] = b.remaining[d] - maximums[d]
    BY <1>5 DEF Reserve
  <2>2. OpenIn(after, joined, d) = maximums[d]
    BY <1>1, <1>3, <1>5 DEF OpenIn
  <2>3. OpenIn(b, held, d) = 0
    BY <1>5 DEF OpenIn
  <2>4. maximums[d] \in Nat /\ b.remaining[d] \in Nat
    BY <1>5 DEF Affordable, BudgetLedger
  <2>5. QED
    BY <2>1, <2>2, <2>3, <2>4
<1>6. ASSUME d \notin DOMAIN maximums PROVE Balance
  <2>1. after.remaining[d] = b.remaining[d]
    BY <1>6 DEF Reserve
  <2>2. d \in DOMAIN joined <=> d \in DOMAIN held
    BY <1>6
  <2>3. ASSUME d \in DOMAIN held
        PROVE  /\ joined[d] = held[d]
               /\ held[d] \in after.reservations <=> held[d] \in b.reservations
    <3>1. \A k \in DOMAIN new : new[k] # held[d]
      BY <1>1, <1>6, <2>3 DEF Keyed
    <3>2. QED
      BY <1>3, <1>6, <2>3, <3>1
  <2>4. OpenIn(after, joined, d) = OpenIn(b, held, d)
    BY <2>2, <2>3 DEF OpenIn
  <2>5. QED
    BY <2>1, <2>4
<1>7. QED
  BY <1>2, <1>4, <1>5, <1>6

\* Settling moves the use from what is open to what is charged, and the rest
\* back to what remains; other dimensions keep their account.
LEMMA SettleBalance ==
  ASSUME NEW b \in BudgetLedger, NEW held, NEW actual, NEW dims,
         Keyed(held), Covers(held, actual, dims),
         \A k \in dims : held[k] \in b.reservations,
         NEW d \in BudgetDimension
  PROVE  LET after == Settle(b, held, actual, dims)
         IN  /\ after.reservations = b.reservations \ {held[k] : k \in dims}
             /\ after.remaining[d] + OpenIn(after, held, d)
                  + (IF d \in dims THEN actual[d] ELSE 0)
                  = b.remaining[d] + OpenIn(b, held, d)
<1> DEFINE after == Settle(b, held, actual, dims)
<1>1. after.reservations = b.reservations \ {held[k] : k \in dims}
  BY DEF Settle, BudgetLedger
<1>2. after.remaining[d] = IF d \in dims THEN b.remaining[d] + (held[d].maximum - actual[d])
                                         ELSE b.remaining[d]
  BY DEF Settle, BudgetLedger
<1>3. b.remaining[d] \in Nat
  BY DEF BudgetLedger
<1>4. CASE d \in dims
  <2>1. d \in DOMAIN held /\ held[d].maximum \in Nat /\ actual[d] \in Nat
    BY <1>4 DEF Keyed, Covers, Reservation
  <2>2. OpenIn(after, held, d) = 0
    BY <1>1, <1>4 DEF OpenIn
  <2>3. OpenIn(b, held, d) = held[d].maximum
    BY <1>4, <2>1 DEF OpenIn
  <2>4. QED
    BY <1>1, <1>2, <1>3, <1>4, <2>1, <2>2, <2>3
<1>5. CASE d \notin dims
  <2>1. ASSUME d \in DOMAIN held
        PROVE  held[d] \in after.reservations <=> held[d] \in b.reservations
    <3>1. \A k \in dims : held[k] # held[d]
      BY <1>5, <2>1 DEF Keyed, Covers
    <3>2. QED
      BY <1>1, <3>1
  <2>2. OpenIn(after, held, d) = OpenIn(b, held, d)
    BY <2>1 DEF OpenIn
  <2>3. OpenIn(b, held, d) \in Nat
    BY DEF OpenIn, Keyed, Reservation
  <2>4. QED
    BY <1>1, <1>2, <1>3, <1>5, <2>2, <2>3
<1>6. QED
  BY <1>4, <1>5
-----------------------------------------------------------------------------

\* The current frame is a frame.
LEMMA TopType ==
  ASSUME frames \in FrameStack
  PROVE  /\ Top \in Frame
         /\ Len(frames) \in Nat \ {0}
         /\ Top.instruction_pointer \in Nat
         /\ \A s \in Slots : Slot(s) \in Value \cup {Unset}
<1>1. Len(frames) \in Nat \ {0} /\ Top \in Frame
  BY DEF FrameStack, Top
<1>2. QED
  BY <1>1 DEF Slot, Frame

\* Moving the current frame keeps the frame stack well formed.
LEMMA MovedType ==
  ASSUME frames \in FrameStack,
         NEW slots \in [Slots -> Value \cup {Unset}], NEW ip \in Nat
  PROVE  Moved(slots, ip) \in FrameStack
<1>1. Top \in Frame
  BY TopType
<1>2. [Top EXCEPT !.slots = slots, !.instruction_pointer = ip] \in Frame
  BY <1>1 DEF Frame
<1>3. QED
  BY <1>2, TopType DEF Moved, FrameStack

\* So does storing a value, or jumping.
LEMMA WithType ==
  ASSUME frames \in FrameStack, NEW s \in Slots, NEW v \in Value
  PROVE  With(s, v) \in [Slots -> Value \cup {Unset}]
BY TopType DEF Frame, With

LEMMA StoredType ==
  ASSUME frames \in FrameStack, NEW s \in Slots, NEW v \in Value
  PROVE  Stored(s, v) \in FrameStack
<1>1. Top.instruction_pointer + 1 \in Nat
  BY TopType
<1>2. QED
  BY <1>1, WithType, MovedType DEF Stored

LEMMA JumpedType ==
  ASSUME frames \in FrameStack, NEW ip \in Nat
  PROVE  Jumped(ip) \in FrameStack
<1>1. Top.slots \in [Slots -> Value \cup {Unset}]
  BY TopType DEF Frame
<1>2. QED
  BY <1>1, MovedType DEF Jumped

\* The current instruction of a started program is well formed.
LEMMA InstrType ==
  ASSUME start \in StartRequests, InBounds
  PROVE  WellFormedInstr(Program, Instr)
BY RequestsAssumption DEF WellFormed, InBounds, Code, Instr, Program
-----------------------------------------------------------------------------
(* Types *)

\* What the tag of a value says about its content.
LEMMA ValueShape ==
  ASSUME NEW v \in Value \cup {Unset}
  PROVE  /\ v.tag # "unset" => v \in Value
         /\ v.tag \in DataTags => v.data \in Data
         /\ v.tag = "ok" => v.value \in Value
         /\ v.tag \in {"candidate", "observation"} => v.born \in Nat
         /\ v.tag = "intent" => v.data \in Data /\ v.expires_at \in Nat
         /\ v.tag = "proposal" => v.proposal \in Proposal
         /\ v.tag = "permit" => v.permit \in Permit
         /\ v.tag \in {"receipt", "reconciled"} => v.proposal \in Proposal /\ v.born \in Nat
<1>1. CASE v \in [tag : {"data"}, data : Data]
  BY <1>1 DEF Value, PlainValue, DataTags
<1>2. CASE v \in [tag : {"candidate", "checked", "observation"}, data : Data, born : Nat]
  BY <1>2 DEF Value, PlainValue, DataTags
<1>3. CASE v \in [tag : {"intent"}, data : Data, expires_at : Nat]
  BY <1>3 DEF Value, PlainValue, DataTags
<1>4. CASE v \in [tag : {"proposal"}, proposal : Proposal]
  BY <1>4 DEF Value, PlainValue, DataTags
<1>5. CASE v \in [tag : {"permit"}, permit : Permit]
  BY <1>5 DEF Value, PlainValue, DataTags
<1>6. CASE v \in [tag : {"receipt", "reconciled"}, data : Data, proposal : Proposal, born : Nat]
  BY <1>6 DEF Value, PlainValue, DataTags
<1>7. CASE v \in [tag : {"ok"}, value : PlainValue]
  BY <1>7 DEF Value, DataTags
<1>8. CASE v \in [tag : {"err"}]
  BY <1>8 DEF Value, DataTags
<1>9. CASE v = Unset
  BY <1>9 DEF Unset, DataTags
<1>10. QED
  BY <1>1, <1>2, <1>3, <1>4, <1>5, <1>6, <1>7, <1>8, <1>9 DEF Value, PlainValue

\* The values that the instructions build are values.
LEMMA BuiltValues ==
  /\ \A d \in Data : Plain(d) \in Value
  /\ Err \in Value
  /\ \A d \in Data, n \in Nat :
       /\ Ok([tag |-> "candidate", data |-> d, born |-> n]) \in Value
       /\ Ok([tag |-> "checked", data |-> d, born |-> n]) \in Value
       /\ Ok([tag |-> "observation", data |-> d, born |-> n]) \in Value
       /\ [tag |-> "intent", data |-> d, expires_at |-> n] \in Value
       /\ \A p \in Proposal :
            /\ Ok([tag |-> "receipt", data |-> d, proposal |-> p, born |-> n]) \in Value
            /\ Ok([tag |-> "reconciled", data |-> d, proposal |-> p, born |-> n]) \in Value
  /\ \A p \in Proposal : [tag |-> "proposal", proposal |-> p] \in Value
  /\ \A p \in Permit : Ok([tag |-> "permit", permit |-> p]) \in Value
BY DEF Plain, Err, Ok, Value, PlainValue

\* An instruction that only moves the frame stack keeps every type.
LEMMA MoveFramesType ==
  ASSUME TypeOK, NEW new \in FrameStack, MoveFrames(new)
  PROVE  TypeOK'
BY DEF TypeOK, MoveFrames

\* Issuing and consuming keep the authority ledger's type.
LEMMA AuthorityTypes ==
  ASSUME NEW ledger \in AuthorityLedger
  PROVE  /\ \A permit \in Permit : /\ Issue(ledger, permit) \in AuthorityLedger
                                   /\ Consume(ledger, permit) \in AuthorityLedger
         /\ \A proposal \in Proposal, policy \in STRING, now \in Nat, evidence \in Evidence :
              NextPermit(ledger, proposal, policy, now, evidence) \in Permit
<1>1. /\ ledger.next_sequence \in Nat
      /\ ledger.issued \subseteq Permit /\ ledger.consumed \subseteq Permit
  BY DEF AuthorityLedger
<1>2. ASSUME NEW permit \in Permit PROVE Issue(ledger, permit) \in AuthorityLedger
  <2>1. ledger.next_sequence + 1 \in Nat /\ ledger.issued \cup {permit} \subseteq Permit
    BY <1>1
  <2>2. QED
    BY <2>1 DEF Issue, AuthorityLedger
<1>3. \A permit \in Permit : Consume(ledger, permit) \in AuthorityLedger
  BY <1>1 DEF Consume, AuthorityLedger
<1>4. \A proposal \in Proposal, policy \in STRING, now \in Nat, evidence \in Evidence :
        NextPermit(ledger, proposal, policy, now, evidence) \in Permit
  BY <1>1 DEF NextPermit, Permit, Proposal
<1>5. QED
  BY <1>2, <1>3, <1>4
\* Sequences of evidence grow by evidence.
LEMMA HistoryGrows ==
  ASSUME history \in Seq(Event), NEW e \in Event, NEW f \in Event
  PROVE  /\ history \o <<e>> \in Seq(Event)
         /\ Append(history, e) \in Seq(Event)
         /\ history \o <<e, f>> \in Seq(Event)
<1>1. <<e>> \in Seq(Event) /\ <<e, f>> \in Seq(Event)
  OBVIOUS
<1>2. QED
  BY <1>1

\* Every request kind has a count dimension.
LEMMA CountDimensionType ==
  ASSUME NEW request \in EffectRequest
  PROVE  /\ CountDimension(request.kind) \in BudgetDimension
         /\ CountDimension(request.kind) \in CountDimensions
BY DEF EffectRequest, DataRequest, ProposalRequest, CountDimension, BudgetDimension, CountDimensions

\* One unit in an affordable dimension.
LEMMA OneUnit ==
  ASSUME NEW d \in BudgetDimension, CanReserve(budget, d, 1)
  PROVE  Affordable(budget, [k \in {d} |-> 1])
BY DEF Affordable

\* What a pending effect is made of.
LEMMA PendingShape ==
  ASSUME NEW p, IsPendingEffect(p)
  PROVE  /\ DOMAIN p.held \subseteq BudgetDimension
         /\ \A d \in DOMAIN p.held : p.held[d] \in Reservation
         /\ p.request \in EffectRequest
         /\ p.target \in Slots
         /\ p.expected \subseteq Data
         /\ p.permits \subseteq Permit
BY DEF IsPendingEffect

\* A suspension leaves a pending effect ...
LEMMA SuspendedType ==
  ASSUME TypeOK, NEW request \in EffectRequest, NEW expected \in SUBSET Data,
         NEW permits \in SUBSET Permit, NEW evidence,
         Instr.target \in Slots, HasBudget(request.kind),
         Suspend(request, expected, permits, evidence)
  PROVE  /\ Affordable(budget, [k \in {CountDimension(request.kind)} |-> 1])
         /\ IsPendingEffect(pending')
         /\ pending' # NoEffect
<1> DEFINE d == CountDimension(request.kind)
           one == [k \in {d} |-> 1]
<1>1. d \in BudgetDimension /\ budget \in BudgetLedger
  BY CountDimensionType DEF TypeOK
<1>2. Affordable(budget, one)
  BY <1>1, OneUnit DEF HasBudget
<1>3. ReservationsFor(budget, one) = [k \in {d} |-> ReservationsFor(budget, one)[k]]
  BY DEF ReservationsFor
<1>4. ReservationsFor(budget, one) \in [{d} -> Reservation]
  BY <1>1, <1>2, <1>3, ReservationsForType DEF Keyed
<1>5. pending' \in [request : EffectRequest, target : Slots, held : [{d} -> Reservation],
                    expected : SUBSET Data, permits : SUBSET Permit]
  BY <1>4 DEF Suspend
<1>6. IsPendingEffect(pending')
  BY <1>1, <1>5 DEF IsPendingEffect
<1>7. QED
  BY <1>2, <1>6, SentinelAssumption

\* ... and an event for its request.
LEMMA SuspendType ==
  ASSUME TypeOK, NEW request \in EffectRequest, NEW expected \in SUBSET Data,
         NEW permits \in SUBSET Permit, NEW evidence,
         history \o evidence \in Seq(Event),
         Instr.target \in Slots, HasBudget(request.kind),
         Suspend(request, expected, permits, evidence),
         authority' \in AuthorityLedger
  PROVE  TypeOK'
<1>1. IsPendingEffect(pending')
  BY SuspendedType
<1>2. budget' \in BudgetLedger
  BY SuspendedType, ReserveType DEF Suspend, TypeOK
<1>3. history' \in Seq(Event)
  <2>1. [event |-> "effect_requested", request |-> request] \in Event
    BY DEF Event
  <2>2. QED
    BY <2>1 DEF Suspend
<1>4. QED
  BY <1>1, <1>2, <1>3 DEF TypeOK, Suspend

\* The instruction an action executes, when it executes `op'.
LEMMA AtType ==
  ASSUME TypeOK, NEW op, At(op)
  PROVE  /\ frames \in FrameStack
         /\ Instr.op = op
         /\ WellFormedInstr(Program, Instr)
BY InstrType DEF At, TypeOK

\* A slot that holds data renders an element of Data.
LEMMA SlotShape ==
  ASSUME frames \in FrameStack, NEW s \in Slots
  PROVE  /\ Slot(s) \in Value \cup {Unset}
         /\ HasData(s) => Slot(s).data \in Data
         /\ Slot(s).tag # "unset" => Slot(s) \in Value
BY TopType, ValueShape DEF HasData

\* The instructions that only move the frame stack keep every type.
LEMMA LocalTypes ==
  ASSUME TypeOK,
         \/ Evaluate \/ Copy \/ UnwrapResult \/ Branch \/ Jump \/ Match \/ Call \/ ReturnToCaller
         \/ Validate \/ ConstructIntent \/ ConstructProposal \/ Require
  PROVE  TypeOK'
<1>1. CASE Evaluate
  <2>1. Instr.target \in Slots /\ Instr.apply[Operands] \in Data /\ frames \in FrameStack
    BY <1>1, AtType DEF Evaluate, CanEvaluate, WellFormedInstr
  <2>2. Stored(Instr.target, Plain(Instr.apply[Operands])) \in FrameStack
    BY <2>1, StoredType, BuiltValues
  <2>3. QED
    BY <1>1, <2>2, MoveFramesType DEF Evaluate
<1>2. CASE Copy
  <2>1. Instr.target \in Slots /\ Instr.source \in Slots /\ frames \in FrameStack
    BY <1>2, AtType DEF Copy, WellFormedInstr
  <2>2. Slot(Instr.source) \in Value
    BY <1>2, <2>1, SlotShape DEF Copy, CanCopy, HasTag
  <2>3. QED
    BY <1>2, <2>1, <2>2, StoredType, MoveFramesType DEF Copy
<1>3. CASE UnwrapResult
  <2>1. Instr.target \in Slots /\ Instr.result \in Slots /\ frames \in FrameStack
    BY <1>3, AtType DEF UnwrapResult, WellFormedInstr
  <2>2. Slot(Instr.result).value \in Value
    BY <1>3, <2>1, SlotShape, ValueShape DEF UnwrapResult, CanUnwrap, HasTag
  <2>3. QED
    BY <1>3, <2>1, <2>2, StoredType, MoveFramesType DEF UnwrapResult
<1>4. CASE Branch
  <2>1. Instr.then_target \in Nat /\ Instr.else_target \in Nat /\ frames \in FrameStack
    BY <1>4, AtType DEF Branch, WellFormedInstr
  <2>2. QED
    BY <1>4, <2>1, JumpedType, MoveFramesType DEF Branch
<1>5. CASE Jump
  <2>1. Instr.target \in Nat /\ frames \in FrameStack
    BY <1>5, AtType DEF Jump, WellFormedInstr
  <2>2. QED
    BY <1>5, <2>1, JumpedType, MoveFramesType DEF Jump
<1>6. CASE Match
  <2>1. Instr.value \in Slots /\ frames \in FrameStack
    BY <1>6, AtType DEF Match, WellFormedInstr
  <2>2. PICK n \in Matching :
          MoveFrames(IF Instr.arms[n].pattern = "ok"
                     THEN Moved(With(Instr.arms[n].binding, Slot(Instr.value).value),
                                Instr.arms[n].target)
                     ELSE Jumped(Instr.arms[n].target))
    BY <1>6 DEF Match
  <2>3. /\ Instr.arms[n].target \in Nat
        /\ Instr.arms[n].pattern = "ok" => Instr.arms[n].binding \in Slots
    BY <1>6, <2>2, AtType DEF Match, Matching, WellFormedInstr
  <2>4. CASE Instr.arms[n].pattern = "ok"
    <3>1. Slot(Instr.value).tag = "ok"
      BY <2>2, <2>4 DEF Matching, Accepts
    <3>2. Slot(Instr.value).value \in Value
      BY <2>1, <3>1, SlotShape, ValueShape
    <3>3. QED
      BY <2>1, <2>2, <2>3, <2>4, <3>2, WithType, MovedType, MoveFramesType
  <2>5. CASE Instr.arms[n].pattern # "ok"
    BY <2>1, <2>2, <2>3, <2>5, JumpedType, MoveFramesType
  <2>6. QED
    BY <2>4, <2>5
<1>7. CASE Call
  <2> DEFINE caller == Jumped(Top.instruction_pointer + 1)
             callee == [routine |-> Instr.routine, instruction_pointer |-> 1,
                        slots |-> [s \in Slots |-> IF s \in DOMAIN Instr.arguments
                                                   THEN Slot(Instr.arguments[s]) ELSE Unset],
                        return_target |-> Instr.target]
  <2>1. /\ Instr.routine \in STRING /\ IsMap(Instr.arguments, Slots, Slots)
        /\ Instr.target \in Slots /\ frames \in FrameStack
    BY <1>7, AtType DEF Call, WellFormedInstr
  <2>2. caller \in FrameStack
    BY <2>1, TopType, JumpedType
  <2>3. callee \in Frame
    BY <2>1, TopType DEF Frame, IsMap
  <2>4. Append(caller, callee) \in FrameStack
    BY <2>2, <2>3 DEF FrameStack
  <2>5. QED
    BY <1>7, <2>4, MoveFramesType DEF Call
<1>8. CASE ReturnToCaller
  <2> DEFINE caller == [frames[Len(frames) - 1] EXCEPT !.slots[Top.return_target] = Slot(Instr.value)]
             popped == [n \in 1..(Len(frames) - 1) |->
                          IF n = Len(frames) - 1 THEN caller ELSE frames[n]]
  <2>1. Instr.value \in Slots /\ frames \in FrameStack
    BY <1>8, AtType DEF ReturnToCaller, WellFormedInstr
  <2>2. Slot(Instr.value) \in Value
    BY <1>8, <2>1, SlotShape DEF ReturnToCaller, CanReturn, HasTag
  <2>3. Len(frames) - 1 \in 1..Len(frames) /\ frames \in Seq(Frame)
    BY <1>8, <2>1 DEF ReturnToCaller, FrameStack
  <2>4. Top.return_target \in Slots
    BY <2>1, TopType DEF Frame
  <2>5. caller \in Frame
    <3>1. frames[Len(frames) - 1] \in Frame
      BY <2>3
    <3>2. \A f \in Frame, t \in Slots, v \in Value : [f EXCEPT !.slots[t] = v] \in Frame
      BY DEF Frame
    <3>3. QED
      BY <2>2, <2>4, <3>1, <3>2
  <2>6. popped \in FrameStack
    BY <2>3, <2>5 DEF FrameStack
  <2>7. QED
    BY <1>8, <2>6, MoveFramesType DEF ReturnToCaller
<1>9. CASE Validate
  <2> DEFINE candidate == Slot(Instr.candidate)
             checked == [tag |-> "checked", data |-> candidate.data, born |-> candidate.born]
             result == IF <<candidate.data>> \in Program.validators[Instr.validator]
                       THEN Ok(checked) ELSE Err
  <2>1. Instr.candidate \in Slots /\ Instr.target \in Slots /\ frames \in FrameStack
    BY <1>9, AtType DEF Validate, WellFormedInstr
  <2>2. candidate.data \in Data /\ candidate.born \in Nat
    BY <1>9, <2>1, SlotShape, ValueShape DEF Validate, CanValidate, HasTag, DataTags
  <2>3. result \in Value
    BY <2>2, BuiltValues
  <2>4. QED
    BY <1>9, <2>1, <2>3, StoredType, MoveFramesType DEF Validate
<1>10. CASE ConstructIntent
  <2>1. /\ Instr.source \in Slots /\ Instr.target \in Slots /\ Instr.expires_at \in Nat
        /\ frames \in FrameStack
    BY <1>10, AtType DEF ConstructIntent, WellFormedInstr
  <2>2. Slot(Instr.source).data \in Data
    BY <1>10, <2>1, SlotShape DEF ConstructIntent, CanIntend
  <2>3. QED
    BY <1>10, <2>1, <2>2, BuiltValues, StoredType, MoveFramesType DEF ConstructIntent
<1>11. CASE ConstructProposal
  <2> DEFINE intent == Slot(Instr.intent)
             proposal == [action |-> Instr.action, data |-> Slot(Instr.source).data,
                          intent |-> intent.data, expires_at |-> intent.expires_at]
  <2>1. /\ Instr.source \in Slots /\ Instr.intent \in Slots /\ Instr.target \in Slots
        /\ Instr.action \in STRING /\ frames \in FrameStack
    BY <1>11, AtType DEF ConstructProposal, WellFormedInstr
  <2>2. Slot(Instr.source).data \in Data
    BY <1>11, <2>1, SlotShape DEF ConstructProposal, CanPropose
  <2>3. intent.data \in Data /\ intent.expires_at \in Nat
    BY <1>11, <2>1, SlotShape, ValueShape DEF ConstructProposal, CanPropose, HasTag
  <2>4. proposal \in Proposal
    BY <2>1, <2>2, <2>3 DEF Proposal
  <2>5. QED
    BY <1>11, <2>1, <2>4, BuiltValues, StoredType, MoveFramesType DEF ConstructProposal
<1>12. CASE Require
  <2>1. frames \in FrameStack
    BY DEF TypeOK
  <2>2. QED
    BY <1>12, <2>1, TopType, JumpedType, MoveFramesType DEF Require
<1>13. QED
  BY <1>1, <1>2, <1>3, <1>4, <1>5, <1>6, <1>7, <1>8, <1>9, <1>10, <1>11, <1>12
\* The start request never stops being well formed.
LEMMA StartType ==
  ASSUME TypeOK
  PROVE  WellFormed(start)
BY RequestsAssumption DEF TypeOK

\* Persistent state and completion.
LEMMA StateTypes ==
  ASSUME TypeOK, UpdateState \/ Complete
  PROVE  TypeOK'
<1>1. CASE UpdateState
  <2> DEFINE F == DOMAIN pending_state \cup DOMAIN Instr.fields
  <2>1. IsMap(Instr.fields, Fields, Slots) /\ frames \in FrameStack
    BY <1>1, AtType DEF UpdateState, WellFormedInstr
  <2>2. PICK old \in SUBSET Fields : pending_state \in [old -> Data]
    BY DEF TypeOK, PendingState
  <2>3. F \in SUBSET Fields
    BY <2>1, <2>2 DEF IsMap
  <2>4. \A f \in DOMAIN Instr.fields : Slot(Instr.fields[f]).data \in Data
    BY <1>1, <2>1, SlotShape DEF UpdateState, CanUpdate, IsMap
  <2>5. pending_state' = [f \in F |-> IF f \in DOMAIN Instr.fields
                                      THEN Slot(Instr.fields[f]).data ELSE pending_state[f]]
    BY <1>1 DEF UpdateState
  <2>6. pending_state' \in [F -> Data]
    BY <2>2, <2>4, <2>5
  <2>7. pending_state' \in PendingState
    BY <2>3, <2>6 DEF PendingState
  <2>8. frames' \in FrameStack
    BY <1>1, <2>1, TopType, JumpedType DEF UpdateState
  <2>9. QED
    BY <1>1, <2>7, <2>8 DEF TypeOK, UpdateState
<1>2. CASE Complete
  <2>1. Instr.value \in Slots /\ frames \in FrameStack
    BY <1>2, AtType DEF Complete, WellFormedInstr
  <2>2. Slot(Instr.value).data \in Data
    BY <1>2, <2>1, SlotShape DEF Complete, CanComplete
  <2>3. PICK old \in SUBSET Fields : pending_state \in [old -> Data]
    BY DEF TypeOK, PendingState
  <2>4. start.state \in [Fields -> Data]
    BY StartType DEF WellFormed
  <2>5. outcome' \in Outcome
    BY <1>2, <2>2, <2>3, <2>4 DEF Complete, Outcome
  <2>6. pending_state' \in [{} -> Data]
    BY <1>2 DEF Complete
  <2>7. pending_state' \in PendingState
    BY <2>6 DEF PendingState
  <2>8. QED
    BY <1>2, <2>5, <2>7 DEF TypeOK, Complete
<1>3. QED
  BY <1>1, <1>2

\* A proposal or permit held in a slot.
LEMMA HeldTypes ==
  ASSUME frames \in FrameStack, NEW s \in Slots
  PROVE  /\ HasTag(s, "proposal") => Slot(s).proposal \in Proposal
         /\ HasTag(s, "permit") => Slot(s).permit \in Permit
BY SlotShape, ValueShape DEF HasTag

\* The model and the read.
LEMMA RequestTypes ==
  ASSUME TypeOK, Infer \/ Observe
  PROVE  TypeOK'
<1>1. history \o <<>> \in Seq(Event) /\ authority \in AuthorityLedger
  BY DEF TypeOK
<1>2. CASE Infer
  <2> DEFINE request == [kind |-> "model", identity |-> Instr.prompt,
                         data |-> Slot(Instr.source).data]
             expected == Typed(Program.prompts[Instr.prompt])
  <2>1. /\ Instr.source \in Slots /\ Instr.target \in Slots /\ Instr.prompt \in STRING
        /\ frames \in FrameStack
    BY <1>2, AtType DEF Infer, WellFormedInstr
  <2>2. request \in EffectRequest
    BY <1>2, <2>1, SlotShape DEF Infer, CanInfer, EffectRequest, DataRequest
  <2>3. expected \in SUBSET Data
    BY DEF Typed
  <2>4. HasBudget(request.kind) /\ Suspend(request, expected, {}, <<>>) /\ authority' = authority
    BY <1>2 DEF Infer, CanInfer
  <2>5. QED
    BY <1>1, <2>1, <2>2, <2>3, <2>4, SuspendType
<1>3. CASE Observe
  <2> DEFINE request == [kind |-> "read", identity |-> Instr.action,
                         data |-> Slot(Instr.source).data]
             expected == Typed(Program.tools[Instr.action].result)
  <2>1. /\ Instr.source \in Slots /\ Instr.target \in Slots /\ Instr.action \in STRING
        /\ frames \in FrameStack
    BY <1>3, AtType DEF Observe, WellFormedInstr
  <2>2. request \in EffectRequest
    BY <1>3, <2>1, SlotShape DEF Observe, CanObserve, EffectRequest, DataRequest
  <2>3. expected \in SUBSET Data
    BY DEF Typed
  <2>4. HasBudget(request.kind) /\ Suspend(request, expected, {}, <<>>) /\ authority' = authority
    BY <1>3 DEF Observe, CanObserve
  <2>5. QED
    BY <1>1, <2>1, <2>2, <2>3, <2>4, SuspendType
<1>4. QED
  BY <1>2, <1>3

\* The pieces of evidence that authorize and commit record.
LEMMA EvidenceTypes ==
  /\ \A policy \in STRING, proposal \in Proposal, decision \in {"allow", "approve", "deny"} :
       [event |-> "policy_decision", policy |-> policy, proposal |-> proposal,
        decision |-> decision] \in Event
  /\ \A permit \in Permit : Issued(permit) \in Event
  /\ \A permit \in Permit, proposal \in Proposal :
       [event |-> "proposal_committed", proposal |-> proposal, permit |-> permit] \in Event
BY DEF Event, Issued, Permit

\* The four outcomes of authorize.
LEMMA AuthorizeTypes ==
  ASSUME TypeOK, AuthorizeAllow \/ AuthorizeDeny \/ AuthorizeSuspend \/ AuthorizeRefused
  PROVE  TypeOK'
<1> DEFINE proposal == Slot(Instr.proposal).proposal
<1>1. At("authorize") /\ CanAuthorize
  BY DEF AuthorizeAllow, AuthorizeDeny, AuthorizeSuspend, AuthorizeRefused
<1>2. /\ Instr.proposal \in Slots /\ Instr.target \in Slots /\ Instr.policy \in STRING
      /\ frames \in FrameStack
  BY <1>1, AtType DEF WellFormedInstr
<1>3. proposal \in Proposal
  BY <1>1, <1>2, HeldTypes DEF CanAuthorize
<1>4. \A decision \in {"allow", "approve", "deny"} : Decided(decision) \in Event
  BY <1>2, <1>3, EvidenceTypes DEF Decided
<1>5. history \in Seq(Event) /\ authority \in AuthorityLedger /\ start.event_time \in Nat
  BY StartType DEF TypeOK, WellFormed
<1>6. CASE AuthorizeAllow
  <2> DEFINE permit == NextPermit(authority, proposal, Instr.policy, start.event_time, "direct_allow")
  <2>1. permit \in Permit
    BY <1>2, <1>3, <1>5, AuthorityTypes DEF Evidence
  <2>2. Issued(permit) \in Event
    BY <2>1, EvidenceTypes
  <2>3. history' \in Seq(Event)
    BY <1>4, <1>5, <1>6, <2>2, HistoryGrows DEF AuthorizeAllow
  <2>4. authority' \in AuthorityLedger
    BY <1>5, <1>6, <2>1, AuthorityTypes DEF AuthorizeAllow
  <2>5. frames' \in FrameStack
    BY <1>2, <1>6, <2>1, BuiltValues, StoredType DEF AuthorizeAllow
  <2>6. QED
    BY <1>6, <2>3, <2>4, <2>5 DEF TypeOK, AuthorizeAllow
<1>7. CASE AuthorizeDeny
  <2>1. history' \in Seq(Event)
    BY <1>4, <1>5, <1>7, HistoryGrows DEF AuthorizeDeny
  <2>2. frames' \in FrameStack
    BY <1>2, <1>7, BuiltValues, StoredType DEF AuthorizeDeny
  <2>3. QED
    BY <1>7, <2>1, <2>2 DEF TypeOK, AuthorizeDeny
<1>8. CASE AuthorizeSuspend
  <2> DEFINE request == [kind |-> "approval", identity |-> Instr.policy, proposal |-> proposal]
  <2>1. request \in EffectRequest
    BY <1>2, <1>3 DEF EffectRequest, ProposalRequest
  <2>2. history \o <<Decided("approve")>> \in Seq(Event)
    BY <1>4, <1>5, HistoryGrows
  <2>3. /\ HasBudget(request.kind) /\ authority' = authority
        /\ Suspend(request, BOOLEAN, {}, <<Decided("approve")>>)
    BY <1>8 DEF AuthorizeSuspend, CanAskApproval
  <2>4. QED
    BY <1>2, <1>5, <2>1, <2>2, <2>3, DataAssumption, SuspendType
<1>9. CASE AuthorizeRefused
  <2>1. history' \in Seq(Event)
    BY <1>4, <1>5, <1>9, HistoryGrows DEF AuthorizeRefused
  <2>2. QED
    BY <1>9, <2>1 DEF TypeOK, AuthorizeRefused
<1>10. QED
  BY <1>6, <1>7, <1>8, <1>9

\* Commit and reconcile.
LEMMA CommitTypes ==
  ASSUME TypeOK, Commit \/ CommitExhausted
  PROVE  TypeOK'
<1> DEFINE proposal == Slot(Instr.proposal).proposal
           permit   == Slot(Instr.permit).permit
<1>1. At("commit") /\ CanCommit
  BY DEF Commit, CommitExhausted
<1>2. /\ Instr.proposal \in Slots /\ Instr.permit \in Slots /\ Instr.target \in Slots
      /\ frames \in FrameStack
  BY <1>1, AtType DEF WellFormedInstr
<1>3. proposal \in Proposal /\ permit \in Permit
  BY <1>1, <1>2, HeldTypes DEF CanCommit
<1>4. Committed \in Event
  BY <1>3, EvidenceTypes DEF Committed
<1>5. /\ history \o <<Committed>> \in Seq(Event)
      /\ Append(history, Committed) \in Seq(Event)
  BY <1>4, HistoryGrows DEF TypeOK
<1>6. Consume(authority, permit) \in AuthorityLedger
  BY <1>3, AuthorityTypes DEF TypeOK
<1>7. CASE Commit
  <2> DEFINE request == [kind |-> "write", identity |-> proposal.action, proposal |-> proposal]
             expected == Typed(Program.tools[proposal.action].result)
  <2>1. request \in EffectRequest
    BY <1>3 DEF EffectRequest, ProposalRequest, Proposal
  <2>2. expected \in SUBSET Data /\ {permit} \in SUBSET Permit
    BY <1>3 DEF Typed
  <2>3. /\ HasBudget(request.kind) /\ authority' = Consume(authority, permit)
        /\ Suspend(request, expected, {permit}, <<Committed>>)
    BY <1>7 DEF Commit
  <2>4. QED
    BY <1>2, <1>5, <1>6, <2>1, <2>2, <2>3, SuspendType
<1>8. CASE CommitExhausted
  BY <1>5, <1>6, <1>8 DEF TypeOK, CommitExhausted
<1>9. QED
  BY <1>7, <1>8

LEMMA ReconcileTypes ==
  ASSUME TypeOK, Reconcile
  PROVE  TypeOK'
<1> DEFINE receipt     == Slot(Instr.receipt)
           observation == Slot(Instr.observation)
           valid  == <<receipt.data, observation.data>> \in Program.validators[Instr.validator]
           result == IF valid THEN Ok([tag |-> "reconciled", data |-> receipt.data,
                                       proposal |-> receipt.proposal, born |-> receipt.born])
                              ELSE Err
           event  == [event |-> "reconciliation_decision", proposal |-> receipt.proposal,
                      matched |-> valid, receipt_born |-> receipt.born,
                      observation_born |-> observation.born]
<1>1. /\ Instr.receipt \in Slots /\ Instr.observation \in Slots /\ Instr.target \in Slots
      /\ frames \in FrameStack
  BY AtType DEF Reconcile, WellFormedInstr
<1>2. /\ receipt.data \in Data /\ receipt.proposal \in Proposal /\ receipt.born \in Nat
      /\ observation.born \in Nat
  BY <1>1, SlotShape, ValueShape DEF Reconcile, CanReconcile, HasTag, DataTags
<1>3. result \in Value
  BY <1>2, BuiltValues
<1>4. event \in Event
  BY <1>2 DEF Event
<1>5. history' \in Seq(Event)
  BY <1>4, HistoryGrows DEF Reconcile, TypeOK
<1>6. frames' \in FrameStack
  BY <1>1, <1>3, StoredType DEF Reconcile
<1>7. outstanding' \subseteq Proposal
  BY DEF Reconcile, TypeOK
<1>8. QED
  BY <1>5, <1>6, <1>7 DEF TypeOK, Reconcile
-----------------------------------------------------------------------------
(* The caller's operations *)

\* The extra reservations join those that are held.
LEMMA ReservePendingTypes ==
  ASSUME TypeOK, NEW maximums \in Declarations, ReservePendingUsage(maximums)
  PROVE  /\ TypeOK'
         /\ Affordable(budget, maximums)
         /\ pending' # NoEffect
<1>1. IsPendingEffect(pending) /\ budget \in BudgetLedger
  BY DEF TypeOK, ReservePendingUsage, Suspended
<1>2. Affordable(budget, maximums)
  BY DeclarationsAssumption DEF ReservePendingUsage, IsMap, Affordable, BudgetDimension
<1>3. budget' \in BudgetLedger
  BY <1>1, <1>2, ReserveType DEF ReservePendingUsage
<1>4. IsPendingEffect(pending')
  <2> DEFINE joined == [d \in DOMAIN pending.held \cup DOMAIN maximums |->
                          IF d \in DOMAIN maximums THEN ReservationsFor(budget, maximums)[d]
                                                   ELSE pending.held[d]]
  <2>1. PICK dims \in SUBSET BudgetDimension :
          pending \in [request : EffectRequest, target : Slots, held : [dims -> Reservation],
                       expected : SUBSET Data, permits : SUBSET Permit]
    BY <1>1 DEF IsPendingEffect
  <2>2. \A d \in DOMAIN maximums : ReservationsFor(budget, maximums)[d] \in Reservation
    BY <1>1, <1>2, ReservationsForType DEF Keyed
  <2>3. joined \in [dims \cup DOMAIN maximums -> Reservation]
    BY <2>1, <2>2
  <2>4. pending' = [pending EXCEPT !.held = joined]
    BY DEF ReservePendingUsage
  <2>5. pending' \in [request : EffectRequest, target : Slots,
                      held : [dims \cup DOMAIN maximums -> Reservation],
                      expected : SUBSET Data, permits : SUBSET Permit]
    BY <2>1, <2>3, <2>4
  <2>6. dims \cup DOMAIN maximums \in SUBSET BudgetDimension
    BY <1>2 DEF Affordable
  <2>7. QED
    BY <2>5, <2>6 DEF IsPendingEffect
<1>5. TypeOK'
  BY <1>3, <1>4 DEF TypeOK, ReservePendingUsage
<1>6. QED
  BY <1>2, <1>4, <1>5, SentinelAssumption

\* The use of a resolution, in the dimensions it settles.
LEMMA UseType ==
  ASSUME TypeOK, Suspended, NEW usage \in UsageReports
  PROVE  \A d \in DOMAIN pending.held : Use(usage)[d] \in Nat
<1>1. \A d \in DOMAIN usage : usage[d] \in Nat
  BY BoundsAssumption DEF UsageReports
<1>2. QED
  BY <1>1 DEF Use

\* Settling keeps the ledger and the account of what was charged.
LEMMA SettleTypes ==
  ASSUME TypeOK, Suspended, NEW usage \in UsageReports, NEW dims,
         dims \subseteq DOMAIN pending.held,
         \A d \in dims : CanSettle(budget, pending.held[d], Use(usage)[d]),
         SettleAndCharge(usage, dims)
  PROVE  /\ budget' \in BudgetLedger
         /\ charged' \in [BudgetDimension -> Nat]
         /\ Covers(pending.held, Use(usage), dims)
<1>1. IsPendingEffect(pending) /\ budget \in BudgetLedger
  BY DEF TypeOK, Suspended
<1>2. Covers(pending.held, Use(usage), dims)
  BY UseType DEF Covers, CanSettle
<1>3. budget' \in BudgetLedger
  BY <1>1, <1>2, PendingShape, SettleType DEF SettleAndCharge
<1>4. \A d \in dims : charged[d] + Use(usage)[d] \in Nat
  BY <1>1, PendingShape, UseType DEF TypeOK
<1>5. charged' \in [BudgetDimension -> Nat]
  BY <1>4 DEF SettleAndCharge, TypeOK
<1>6. QED
  BY <1>2, <1>3, <1>5

\* The dimensions settled before the first one found over its maximum.
LEMMA OverdrawnDims ==
  ASSUME TypeOK, NEW usage \in UsageReports, SupplyOverdrawn(usage)
  PROVE  \E dims \in SUBSET DOMAIN pending.held :
           /\ \A d \in dims : CanSettle(budget, pending.held[d], Use(usage)[d])
           /\ SettleAndCharge(usage, dims)
BY DEF SupplyOverdrawn

LEMMA SupplyTypes ==
  ASSUME TypeOK, NEW usage \in UsageReports, NEW payload \in Data, Supply(usage, payload)
  PROVE  TypeOK'
<1> DEFINE permit == ApprovalPermit
           request == pending.request
<1>1. Suspended /\ IsPendingEffect(pending)
  BY DEF Supply, Approves, CanSupply, Suspended, TypeOK
<1>2. budget' \in BudgetLedger /\ charged' \in [BudgetDimension -> Nat]
  BY <1>1, SettleTypes DEF Supply, Approves, CanSettleAll
<1>3. request \in EffectRequest /\ pending.target \in Slots
  BY <1>1, PendingShape
<1>4. /\ frames \in FrameStack /\ history \in Seq(Event) /\ authority \in AuthorityLedger
      /\ start.event_time \in Nat /\ Len(history) \in Nat
  BY StartType DEF TypeOK, WellFormed
<1>5. /\ request.kind \in {"model", "read", "approval", "write"}
      /\ request.kind \in {"approval", "write"} => /\ request.proposal \in Proposal
                                                   /\ request.identity \in STRING
  BY <1>3 DEF EffectRequest, DataRequest, ProposalRequest
<1>6. request.kind = "approval" => permit \in Permit
  BY <1>4, <1>5, AuthorityTypes DEF ApprovalPermit, Evidence
<1>7. Decoded(payload, permit) \in Value
  <2>1. CASE request.kind = "model"
    BY <1>4, <2>1, BuiltValues DEF Decoded, Approves
  <2>2. CASE request.kind = "read"
    BY <1>4, <2>2, BuiltValues DEF Decoded, Approves
  <2>3. CASE request.kind = "write"
    BY <1>4, <1>5, <2>3, BuiltValues DEF Decoded, Approves
  <2>4. CASE request.kind = "approval"
    BY <1>6, <2>4, BuiltValues DEF Decoded, Approves
  <2>5. QED
    BY <1>5, <2>1, <2>2, <2>3, <2>4
<1>8. frames' \in FrameStack
  BY <1>3, <1>4, <1>7, StoredType DEF Supply, Approves
<1>9. Resolved(payload) \in Event
  BY <1>3 DEF Resolved, Event
<1>10. history' \in Seq(Event)
  <2>1. CASE request.kind = "approval" /\ payload = TRUE
    BY <1>4, <1>6, <1>9, <2>1, EvidenceTypes, HistoryGrows DEF Supply, Approves
  <2>2. CASE ~(request.kind = "approval" /\ payload = TRUE)
    BY <1>4, <1>9, <2>2, HistoryGrows DEF Supply, Approves
  <2>3. QED
    BY <2>1, <2>2
<1>11. authority' \in AuthorityLedger
  BY <1>4, <1>6, AuthorityTypes DEF Supply, Approves
<1>12. outstanding' \subseteq Proposal
  BY <1>5 DEF Supply, Approves, TypeOK
<1>13. QED
  BY <1>2, <1>8, <1>10, <1>11, <1>12 DEF TypeOK, Supply, Approves

LEMMA FailedSupplyTypes ==
  ASSUME TypeOK, NEW usage \in UsageReports,
         SupplyOverdrawn(usage) \/ \E payload \in Data : SupplyMalformed(usage, payload)
  PROVE  TypeOK'
<1>1. CASE SupplyOverdrawn(usage)
  <2>1. Suspended
    BY <1>1 DEF SupplyOverdrawn, CanSupply
  <2>2. budget' \in BudgetLedger /\ charged' \in [BudgetDimension -> Nat]
    BY <1>1, <2>1, OverdrawnDims, SettleTypes
  <2>3. QED
    BY <1>1, <2>2 DEF TypeOK, SupplyOverdrawn
<1>2. CASE \E payload \in Data : SupplyMalformed(usage, payload)
  <2>1. PICK payload \in Data : SupplyMalformed(usage, payload)
    BY <1>2
  <2>2. budget' \in BudgetLedger /\ charged' \in [BudgetDimension -> Nat]
    BY <2>1, SettleTypes DEF SupplyMalformed, CanSupply, CanSettleAll
  <2>3. QED
    BY <2>1, <2>2 DEF TypeOK, SupplyMalformed
<1>3. QED
  BY <1>1, <1>2

\* A snapshot captures well-typed parts, and gives them back.
LEMMA SnapshotTypes ==
  ASSUME TypeOK, Snapshot
  PROVE  TypeOK'
<1>1. IsPendingEffect(pending)
  BY DEF Snapshot, Suspended, TypeOK
<1>2. /\ saved' = saved \cup {Continuation} /\ latest' = {Continuation}
      /\ Continuation.pending = pending
  BY DEF Snapshot, Continuation
<1>3. IsSnapshot(Continuation)
  BY <1>1, <1>2 DEF TypeOK, IsSnapshot, Continuation
<1>4. pending.permits \subseteq Permit
  BY <1>1, PendingShape
<1>5. QED
  BY <1>2, <1>3, <1>4 DEF TypeOK, Snapshot, continuation

LEMMA RestoreTypes ==
  ASSUME TypeOK, Restore
  PROVE  TypeOK'
<1>1. PICK s \in saved :
        /\ frames' = s.frames /\ pending_state' = s.pending_state /\ budget' = s.budget
        /\ authority' = s.authority /\ outstanding' = s.outstanding /\ pending' = s.pending
        /\ charged' = s.charged /\ history' = s.history
        /\ IsSnapshot(s)
  BY DEF Restore, TypeOK
<1>2. /\ frames' \in FrameStack /\ pending_state' \in PendingState
      /\ budget' \in BudgetLedger /\ authority' \in AuthorityLedger
      /\ outstanding' \subseteq Proposal /\ IsPendingEffect(pending')
      /\ charged' \in [BudgetDimension -> Nat] /\ history' \in Seq(Event)
  BY <1>1 DEF IsSnapshot
<1>3. restarts' \in 0..MaxRestarts /\ rewinds' \in 0..restarts'
  BY BoundsAssumption DEF Restore, TypeOK
<1>4. QED
  BY <1>2, <1>3 DEF TypeOK, Restore
-----------------------------------------------------------------------------
(* The type invariant *)

LEMMA TypeInit == Init => TypeOK
<1> SUFFICES ASSUME Init PROVE TypeOK
  OBVIOUS
<1>1. WellFormed(start)
  BY RequestsAssumption DEF Init
<1>2. frames \in FrameStack
  BY <1>1 DEF Init, FrameStack, Frame, WellFormed
<1>3. pending_state \in PendingState
  <2>1. pending_state \in [{} -> Data]
    BY DEF Init
  <2>2. QED
    BY <2>1 DEF PendingState
<1>4. budget \in BudgetLedger
  BY <1>1 DEF Init, WellFormed, NewBudget, BudgetLedger, IsMap
<1>5. authority \in AuthorityLedger
  BY DEF Init, EmptyLedger, AuthorityLedger
<1>6. history \in Seq(Event)
  BY DEF Init
<1>7. QED
  BY <1>2, <1>3, <1>4, <1>5, <1>6, BoundsAssumption DEF Init, TypeOK

LEMMA TypeStep == TypeOK /\ [Next]_vars => TypeOK'
<1> SUFFICES ASSUME TypeOK, [Next]_vars PROVE TypeOK'
  OBVIOUS
<1>1. CASE Step
  <2>1. CASE \/ Evaluate \/ Copy \/ UnwrapResult \/ Branch \/ Jump \/ Match \/ Call
             \/ ReturnToCaller \/ Validate \/ ConstructIntent \/ ConstructProposal \/ Require
    BY <2>1, LocalTypes
  <2>2. CASE UpdateState \/ Complete
    BY <2>2, StateTypes
  <2>3. CASE Infer \/ Observe
    BY <2>3, RequestTypes
  <2>4. CASE AuthorizeAllow \/ AuthorizeDeny \/ AuthorizeSuspend \/ AuthorizeRefused
    BY <2>4, AuthorizeTypes
  <2>5. CASE Commit \/ CommitExhausted
    BY <2>5, CommitTypes
  <2>6. CASE Reconcile
    BY <2>6, ReconcileTypes
  <2>7. CASE Fault
    BY <2>7 DEF Fault, TypeOK, continuation
  <2>8. QED
    BY <1>1, <2>1, <2>2, <2>3, <2>4, <2>5, <2>6, <2>7 DEF Step
<1>2. CASE Resolve
  BY <1>2, SupplyTypes, FailedSupplyTypes DEF Resolve
<1>3. CASE \E maximums \in Declarations : ReservePendingUsage(maximums)
  BY <1>3, ReservePendingTypes
<1>4. CASE Snapshot
  BY <1>4, SnapshotTypes
<1>5. CASE Restore
  BY <1>5, RestoreTypes
<1>6. CASE StepAgain \/ UNCHANGED vars
  BY <1>6 DEF StepAgain, vars, continuation, TypeOK
<1>7. QED
  BY <1>1, <1>2, <1>3, <1>4, <1>5, <1>6 DEF Next

\* Whatever the program, its input and its budgets, and whatever the caller
\* supplies, every variable of the machine and of its snapshots keeps its type.
THEOREM TypeCorrect == Spec => []TypeOK
BY TypeInit, TypeStep, PTL DEF Spec
=============================================================================
