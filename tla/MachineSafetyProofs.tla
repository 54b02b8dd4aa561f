------------------------- MODULE MachineSafetyProofs -------------------------
(***************************************************************************)
(* The safety properties of Machine, for every program, input, grant,      *)
(* budget and bound.  Each part of the inductive invariant is stated twice,*)
(* for the live machine and for the snapshot it may be rolled back to.     *)
(***************************************************************************)
EXTENDS MachineProofs, FiniteSetTheorems, SequenceTheorems

\* The variables that an instruction without an effect may change.
Unaccounted == <<start, budget, pending, charged, saved>>

\* The actions that neither reserve nor settle, nor move a snapshot.
LEMMA Unaccountable ==
  ASSUME \/ Evaluate \/ Copy \/ UnwrapResult \/ Branch \/ Jump \/ Match \/ Call \/ ReturnToCaller
         \/ Validate \/ ConstructIntent \/ ConstructProposal \/ Require \/ UpdateState \/ Complete
         \/ AuthorizeAllow \/ AuthorizeDeny \/ AuthorizeRefused \/ CommitExhausted \/ Reconcile
         \/ Fault \/ StepAgain \/ UNCHANGED vars
  PROVE  UNCHANGED Unaccounted
<1>1. CASE \/ Evaluate \/ Copy \/ UnwrapResult \/ Branch \/ Jump \/ Match \/ Call \/ ReturnToCaller
           \/ Validate \/ ConstructIntent \/ ConstructProposal \/ Require
  BY <1>1 DEF Evaluate, Copy, UnwrapResult, Branch, Jump, Match, Call, ReturnToCaller, Validate,
              ConstructIntent, ConstructProposal, Require, MoveFrames, Unaccounted
<1>2. CASE UpdateState \/ Complete
  BY <1>2 DEF UpdateState, Complete, Unaccounted
<1>3. CASE AuthorizeAllow \/ AuthorizeDeny \/ AuthorizeRefused
  BY <1>3 DEF AuthorizeAllow, AuthorizeDeny, AuthorizeRefused, Unaccounted
<1>4. CASE CommitExhausted \/ Reconcile \/ Fault
  BY <1>4 DEF CommitExhausted, Reconcile, Fault, Unaccounted, continuation
<1>5. CASE StepAgain \/ UNCHANGED vars
  BY <1>5 DEF StepAgain, Unaccounted, vars, continuation
<1>6. QED
  BY <1>1, <1>2, <1>3, <1>4, <1>5

NoResolution(e) == \A n \in DOMAIN e : e[n].event # "effect_resolved"
NoExchange(e)   == NoResolution(e) /\ \A n \in DOMAIN e : e[n].event # "effect_requested"

\* What a suspending instruction asks for: a request of some kind, within the
\* budget, with the permits and evidence that go with it.
LEMMA Suspensions ==
  ASSUME TypeOK, Infer \/ Observe \/ AuthorizeSuspend \/ Commit
  PROVE  \E request \in EffectRequest, expected \in SUBSET Data, permits \in SUBSET Permit,
            evidence \in Seq(Event) :
           /\ pending = NoEffect
           /\ request.kind = "write" => At("commit")
           /\ NoExchange(evidence)
           /\ permits = {} \/ (request.kind = "write" /\ \E permit \in Permit : permits = {permit})
           /\ Instr.target \in Slots
           /\ HasBudget(request.kind)
           /\ Suspend(request, expected, permits, evidence)
<1>1. pending = NoEffect /\ Instr.target \in Slots
  BY AtType DEF Infer, Observe, AuthorizeSuspend, Commit, At, Ready, WellFormedInstr
<1> <<>> \in Seq(Event) /\ NoExchange(<<>>)
  BY DEF NoExchange, NoResolution
<1>2. CASE Infer
  <2>1. /\ Instr.source \in Slots /\ Instr.prompt \in STRING /\ frames \in FrameStack
    BY <1>2, AtType DEF Infer, WellFormedInstr
  <2>2. [kind |-> "model", identity |-> Instr.prompt, data |-> Slot(Instr.source).data]
          \in EffectRequest
    BY <1>2, <2>1, SlotShape DEF Infer, CanInfer, EffectRequest, DataRequest
  <2>3. QED
    BY <1>1, <1>2, <2>2 DEF Infer, CanInfer, Typed
<1>3. CASE Observe
  <2>1. /\ Instr.source \in Slots /\ Instr.action \in STRING /\ frames \in FrameStack
    BY <1>3, AtType DEF Observe, WellFormedInstr
  <2>2. [kind |-> "read", identity |-> Instr.action, data |-> Slot(Instr.source).data]
          \in EffectRequest
    BY <1>3, <2>1, SlotShape DEF Observe, CanObserve, EffectRequest, DataRequest
  <2>3. QED
    BY <1>1, <1>3, <2>2 DEF Observe, CanObserve, Typed
<1>4. CASE AuthorizeSuspend
  <2>1. Instr.proposal \in Slots /\ Instr.policy \in STRING /\ frames \in FrameStack
    BY <1>4, AtType DEF AuthorizeSuspend, WellFormedInstr
  <2>2. [kind |-> "approval", identity |-> Instr.policy, proposal |-> Slot(Instr.proposal).proposal]
          \in EffectRequest
    BY <1>4, <2>1, HeldTypes DEF AuthorizeSuspend, CanAuthorize, EffectRequest, ProposalRequest
  <2>3. Decided("approve") \in Event /\ Decided("approve").event = "policy_decision"
    BY <1>4, <2>1, HeldTypes, EvidenceTypes DEF AuthorizeSuspend, CanAuthorize, Decided
  <2>4. <<Decided("approve")>> \in Seq(Event) /\ NoExchange(<<Decided("approve")>>)
    BY <2>3 DEF NoExchange, NoResolution
  <2>5. QED
    BY <1>1, <1>4, <2>2, <2>4, DataAssumption DEF AuthorizeSuspend, CanAskApproval
<1>5. CASE Commit
  <2> DEFINE proposal == Slot(Instr.proposal).proposal
  <2>1. Instr.proposal \in Slots /\ Instr.permit \in Slots /\ frames \in FrameStack
    BY <1>5, AtType DEF Commit, WellFormedInstr
  <2>2. proposal \in Proposal /\ Slot(Instr.permit).permit \in Permit
    BY <1>5, <2>1, HeldTypes DEF Commit, CanCommit
  <2>3. [kind |-> "write", identity |-> proposal.action, proposal |-> proposal] \in EffectRequest
    BY <2>2 DEF Proposal, EffectRequest, ProposalRequest
  <2>4. Committed \in Event /\ Committed.event = "proposal_committed"
    BY <2>2, EvidenceTypes DEF Committed
  <2>5. <<Committed>> \in Seq(Event) /\ NoExchange(<<Committed>>)
    BY <2>4 DEF NoExchange, NoResolution
  <2>6. QED
    BY <1>1, <1>5, <2>2, <2>3, <2>5 DEF Commit, Typed
<1>6. QED
  BY <1>2, <1>3, <1>4, <1>5
-----------------------------------------------------------------------------
(* The budget *)

\* What is reserved and not yet settled in a dimension.
Open(b, p, d) == IF p = NoEffect THEN 0 ELSE OpenIn(b, p.held, d)

\* The account of a continuation: reservations are those of the pending
\* effect, keyed by their own dimension, and the three parts of every
\* dimension add up to its limit.
Account(b, p, c) ==
  /\ p = NoEffect => b.reservations = {}
  /\ p # NoEffect => Keyed(p.held) /\ b.reservations \subseteq {p.held[d] : d \in DOMAIN p.held}
  /\ \A d \in BudgetDimension : b.remaining[d] + Open(b, p, d) + c[d] = Limit(d)

BudgetInv ==
  /\ Account(budget, pending, charged)
  /\ \A s \in saved : Account(s.budget, s.pending, s.charged)

LEMMA BudgetInit == Init => BudgetInv
<1> SUFFICES ASSUME Init PROVE BudgetInv
  OBVIOUS
<1>1. budget \in BudgetLedger
  BY TypeInit DEF TypeOK
<1>2. budget = NewBudget(start.limits) /\ pending = NoEffect /\ saved = {}
  BY DEF Init
<1>3. \A d \in BudgetDimension : /\ budget.remaining[d] \in Nat
                                 /\ charged[d] = 0
  BY <1>1 DEF BudgetLedger, Init
<1>4. budget.reservations = {}
  BY <1>2 DEF NewBudget
<1>5. QED
  BY <1>2, <1>3, <1>4 DEF BudgetInv, Account, Open, Limit

\* Suspending reserves one unit for the new pending effect.
LEMMA SuspendAccount ==
  ASSUME TypeOK, BudgetInv, pending = NoEffect,
         NEW request \in EffectRequest, NEW expected \in SUBSET Data,
         NEW permits \in SUBSET Permit, NEW evidence,
         Instr.target \in Slots, HasBudget(request.kind),
         Suspend(request, expected, permits, evidence)
  PROVE  BudgetInv'
<1> DEFINE dim  == CountDimension(request.kind)
           one  == [k \in {dim} |-> 1]
           none == [k \in {} |-> budget]
           new  == ReservationsFor(budget, one)
<1>1. dim \in BudgetDimension /\ budget \in BudgetLedger
  BY CountDimensionType DEF TypeOK
<1>2. Affordable(budget, one) /\ pending' # NoEffect
  BY SuspendedType
<1>3. Keyed(none) /\ DOMAIN none = {} /\ budget.reservations = {}
  BY DEF Keyed, BudgetInv, Account
<1>4. new = [k \in DOMAIN none \cup DOMAIN one |->
               IF k \in DOMAIN one THEN ReservationsFor(budget, one)[k] ELSE none[k]]
  BY <1>3 DEF ReservationsFor
<1>5. budget' = Reserve(budget, one) /\ pending'.held = new
  BY DEF Suspend
<1>6. /\ Keyed(new)
      /\ budget'.reservations \subseteq {new[k] : k \in DOMAIN new}
      /\ \A d \in BudgetDimension :
           budget'.remaining[d] + OpenIn(budget', new, d) = budget.remaining[d] + OpenIn(budget, none, d)
  <2> HIDE DEF one, none, new
  <2>1. budget.reservations \subseteq {none[d] : d \in DOMAIN none}
    BY <1>3
  <2>2. DOMAIN one \cap DOMAIN none = {}
    BY <1>3
  <2>3. ASSUME NEW d \in BudgetDimension
        PROVE  /\ Keyed(new)
               /\ Reserve(budget, one).reservations \subseteq {new[k] : k \in DOMAIN new}
               /\ Reserve(budget, one).remaining[d] + OpenIn(Reserve(budget, one), new, d)
                    = budget.remaining[d] + OpenIn(budget, none, d)
    BY <1>1, <1>2, <1>3, <1>4, <2>1, <2>2, ReserveBalance
  <2>4. QED
    BY <1>1, <1>5, <2>3
<1>7. \A d \in BudgetDimension : OpenIn(budget, none, d) = 0
  BY <1>3 DEF OpenIn
<1>8. UNCHANGED <<start, charged, saved>>
  BY DEF Suspend
<1>9. \A d \in BudgetDimension : Open(budget', pending', d) = OpenIn(budget', new, d)
  BY <1>2, <1>5 DEF Open
<1>10. \A d \in BudgetDimension : Open(budget, pending, d) = 0
  BY DEF Open
<1>11. \A d \in BudgetDimension : Limit(d)' = Limit(d)
  BY <1>8 DEF Limit
<1>12. Account(budget, pending, charged)'
  BY <1>2, <1>5, <1>6, <1>7, <1>8, <1>9, <1>10, <1>11 DEF BudgetInv, Account
<1>13. QED
  BY <1>8, <1>11, <1>12 DEF BudgetInv, Account
\* The extra reservations join the account.
LEMMA ReservePendingAccount ==
  ASSUME TypeOK, BudgetInv, NEW maximums \in Declarations, ReservePendingUsage(maximums)
  PROVE  BudgetInv'
<1> DEFINE joined == [d \in DOMAIN pending.held \cup DOMAIN maximums |->
                        IF d \in DOMAIN maximums THEN ReservationsFor(budget, maximums)[d]
                                                 ELSE pending.held[d]]
<1>1. pending # NoEffect /\ IsPendingEffect(pending) /\ budget \in BudgetLedger
  BY DEF TypeOK, ReservePendingUsage, Suspended
<1>2. Affordable(budget, maximums) /\ TypeOK'
  BY ReservePendingTypes
<1>3. /\ Keyed(pending.held)
      /\ budget.reservations \subseteq {pending.held[d] : d \in DOMAIN pending.held}
      /\ DOMAIN maximums \cap DOMAIN pending.held = {}
  BY <1>1 DEF BudgetInv, Account, ReservePendingUsage
<1>4. budget' = Reserve(budget, maximums) /\ pending'.held = joined
  <2>1. pending' = [pending EXCEPT !.held = joined]
    BY DEF ReservePendingUsage
  <2>2. PICK dims \in SUBSET BudgetDimension :
          pending \in [request : EffectRequest, target : Slots, held : [dims -> Reservation],
                       expected : SUBSET Data, permits : SUBSET Permit]
    BY <1>1 DEF IsPendingEffect
  <2>3. pending'.held = joined
    BY <2>1, <2>2
  <2>4. QED
    BY <2>3 DEF ReservePendingUsage
<1>5. ASSUME NEW d \in BudgetDimension
      PROVE  /\ Keyed(joined)
             /\ budget'.reservations \subseteq {joined[k] : k \in DOMAIN joined}
             /\ budget'.remaining[d] + OpenIn(budget', joined, d)
                  = budget.remaining[d] + OpenIn(budget, pending.held, d)
  BY <1>1, <1>2, <1>3, <1>4, ReserveBalance
<1>6. pending' # NoEffect
  BY ReservePendingTypes
<1>7. UNCHANGED <<start, charged, saved>>
  BY DEF ReservePendingUsage
<1>8. \A d \in BudgetDimension : /\ Open(budget', pending', d) = OpenIn(budget', joined, d)
                                 /\ Open(budget, pending, d) = OpenIn(budget, pending.held, d)
                                 /\ Limit(d)' = Limit(d)
  BY <1>1, <1>4, <1>6, <1>7 DEF Open, Limit
<1>9. Account(budget, pending, charged)'
  <2>1. "model_calls" \in BudgetDimension
    BY DEF BudgetDimension, CountDimensions
  <2>2. Keyed(joined) /\ budget'.reservations \subseteq {joined[k] : k \in DOMAIN joined}
    BY <1>5, <2>1
  <2>3. ASSUME NEW d \in BudgetDimension
        PROVE  budget'.remaining[d] + Open(budget', pending', d) + charged'[d] = Limit(d)'
    BY <1>5, <1>7, <1>8 DEF BudgetInv, Account
  <2>4. QED
    BY <1>4, <1>6, <2>2, <2>3 DEF Account
<1>10. QED
  BY <1>7, <1>8, <1>9 DEF BudgetInv, Account

\* Settling moves every use it settles from what is open to what is charged.
LEMMA SettleAccount ==
  ASSUME TypeOK, BudgetInv, Suspended, NEW usage \in UsageReports, NEW dims,
         dims \subseteq DOMAIN pending.held,
         \A d \in dims : CanSettle(budget, pending.held[d], Use(usage)[d]),
         SettleAndCharge(usage, dims), UNCHANGED start
  PROVE  /\ Keyed(pending.held)
         /\ budget'.reservations = budget.reservations \ {pending.held[d] : d \in dims}
         /\ budget'.reservations \subseteq {pending.held[d] : d \in DOMAIN pending.held}
         /\ \A d \in BudgetDimension :
              budget'.remaining[d] + OpenIn(budget', pending.held, d) + charged'[d] = Limit(d)'
<1> DEFINE held == pending.held
           use == Use(usage)
<1>1. /\ budget \in BudgetLedger /\ Keyed(held) /\ pending # NoEffect
      /\ budget.reservations \subseteq {held[d] : d \in DOMAIN held}
  BY DEF TypeOK, Suspended, BudgetInv, Account
<1>2. Covers(held, use, dims) /\ budget' \in BudgetLedger
  BY SettleTypes
<1>3. \A d \in dims : held[d] \in budget.reservations
  BY DEF CanSettle
<1>4. budget' = Settle(budget, held, use, dims)
  BY DEF SettleAndCharge
<1>5. ASSUME NEW d \in BudgetDimension
      PROVE  /\ budget'.reservations = budget.reservations \ {held[k] : k \in dims}
             /\ budget'.remaining[d] + OpenIn(budget', held, d) + (IF d \in dims THEN use[d] ELSE 0)
                  = budget.remaining[d] + OpenIn(budget, held, d)
  <2> HIDE DEF held, use
  <2>1. QED
    BY <1>1, <1>2, <1>3, <1>4, SettleBalance
<1>6. ASSUME NEW d \in BudgetDimension
      PROVE  budget'.remaining[d] + OpenIn(budget', held, d) + charged'[d] = Limit(d)'
  <2>1. charged'[d] = charged[d] + (IF d \in dims THEN use[d] ELSE 0)
    BY DEF SettleAndCharge, TypeOK
  <2>2. budget.remaining[d] + OpenIn(budget, held, d) + charged[d] = Limit(d)
    BY <1>1 DEF BudgetInv, Account, Open
  <2>3. /\ budget.remaining[d] \in Nat /\ budget'.remaining[d] \in Nat /\ charged[d] \in Nat
        /\ OpenIn(budget, held, d) \in Nat /\ OpenIn(budget', held, d) \in Nat
        /\ (IF d \in dims THEN use[d] ELSE 0) \in Nat
    BY <1>1, <1>2 DEF TypeOK, BudgetLedger, OpenIn, Keyed, Reservation, Covers
  <2>4. Limit(d)' = Limit(d)
    BY DEF Limit
  <2> HIDE DEF held, use
  <2>5. QED
    BY <1>5, <2>1, <2>2, <2>3, <2>4
<1>7. "model_calls" \in BudgetDimension
  BY DEF BudgetDimension, CountDimensions
<1>8. QED
  BY <1>1, <1>5, <1>6, <1>7

\* Supplying, in full or in part.
LEMMA SupplyAccount ==
  ASSUME TypeOK, BudgetInv, Resolve
  PROVE  BudgetInv'
<1>1. PICK usage \in UsageReports :
        \/ \E payload \in Data : Supply(usage, payload) \/ SupplyMalformed(usage, payload)
        \/ SupplyOverdrawn(usage)
  BY DEF Resolve
<1>2. Suspended /\ pending # NoEffect /\ UNCHANGED <<start, saved>>
  BY <1>1 DEF Supply, Approves, SupplyMalformed, SupplyOverdrawn, CanSupply, Suspended
<1>3. PICK dims \in SUBSET DOMAIN pending.held :
        /\ \A d \in dims : CanSettle(budget, pending.held[d], Use(usage)[d])
        /\ SettleAndCharge(usage, dims)
        /\ \/ dims = DOMAIN pending.held /\ pending' = NoEffect
           \/ pending' = pending
  <2>1. CASE \E payload \in Data : Supply(usage, payload) \/ SupplyMalformed(usage, payload)
    BY <2>1 DEF Supply, Approves, SupplyMalformed, CanSettleAll
  <2>2. CASE SupplyOverdrawn(usage)
    BY <2>2, OverdrawnDims DEF SupplyOverdrawn
  <2>3. QED
    BY <1>1, <2>1, <2>2
<1>4. /\ Keyed(pending.held)
      /\ budget'.reservations = budget.reservations \ {pending.held[d] : d \in dims}
      /\ budget'.reservations \subseteq {pending.held[d] : d \in DOMAIN pending.held}
      /\ \A d \in BudgetDimension :
           budget'.remaining[d] + OpenIn(budget', pending.held, d) + charged'[d] = Limit(d)'
  BY <1>2, <1>3, SettleAccount
<1>5. CASE dims = DOMAIN pending.held /\ pending' = NoEffect
  <2>1. budget'.reservations = {}
    BY <1>4, <1>5
  <2>2. \A d \in BudgetDimension :
          OpenIn(budget', pending.held, d) = 0 /\ Open(budget', pending', d) = 0
    BY <1>5, <2>1 DEF OpenIn, Open
  <2>3. Account(budget, pending, charged)'
    BY <1>4, <1>5, <2>1, <2>2 DEF Account
  <2>4. QED
    BY <1>2, <2>3 DEF BudgetInv, Account, Limit
<1>6. CASE pending' = pending
  <2>1. \A d \in BudgetDimension : Open(budget', pending', d) = OpenIn(budget', pending.held, d)
    BY <1>2, <1>6 DEF Open
  <2>2. Account(budget, pending, charged)'
    BY <1>2, <1>4, <1>6, <2>1 DEF Account
  <2>3. QED
    BY <1>2, <2>2 DEF BudgetInv, Account, Limit
<1>7. QED
  BY <1>3, <1>5, <1>6

LEMMA BudgetStep == TypeOK /\ BudgetInv /\ [Next]_vars => BudgetInv'
<1> SUFFICES ASSUME TypeOK, BudgetInv, [Next]_vars PROVE BudgetInv'
  OBVIOUS
<1>1. CASE UNCHANGED Unaccounted
  BY <1>1 DEF Unaccounted, BudgetInv, Account, Open, Limit
<1>2. CASE Infer \/ Observe \/ AuthorizeSuspend \/ Commit
  BY <1>2, Suspensions, SuspendAccount
<1>3. CASE \E maximums \in Declarations : ReservePendingUsage(maximums)
  BY <1>3, ReservePendingAccount
<1>4. CASE Resolve
  BY <1>4, SupplyAccount
<1>5. CASE Snapshot
  <2>1. UNCHANGED <<start, budget, pending, charged>> /\ pending # NoEffect
    BY <1>5 DEF Snapshot, continuation, Suspended
  <2>2. \A s \in saved' :
          s \in saved \/ (s.budget = budget /\ s.pending = pending /\ s.charged = charged)
    BY <1>5 DEF Snapshot, Continuation
  <2>3. QED
    BY <2>1, <2>2 DEF BudgetInv, Account, Open, Limit
<1>6. CASE Restore
  <2>1. /\ \E s \in saved : budget' = s.budget /\ pending' = s.pending /\ charged' = s.charged
        /\ UNCHANGED <<start, saved>>
    BY <1>6 DEF Restore
  <2>2. QED
    BY <2>1 DEF BudgetInv, Account, Open, Limit
<1>7. QED
  BY <1>1, <1>2, <1>3, <1>4, <1>5, <1>6, Unaccountable DEF Next, Step

\* In each dimension, what remains, what is reserved and what was charged add
\* up to the limit of the event, whatever sequence of partial settlements,
\* malformed answers, crashes and rollbacks the machine goes through.
THEOREM BudgetIsConserved == Spec => []BudgetConserved
<1>1. TypeOK /\ BudgetInv => BudgetConserved
  <2> SUFFICES ASSUME TypeOK, BudgetInv, NEW d \in BudgetDimension
               PROVE  LET open == {r \in budget.reservations : r.dimension = d}
                      IN  \/ open = {} /\ budget.remaining[d] + charged[d] = Limit(d)
                          \/ \E r \in open :
                               /\ open = {r}
                               /\ budget.remaining[d] + r.maximum + charged[d] = Limit(d)
    BY DEF BudgetConserved
  <2>1. /\ budget.remaining[d] + Open(budget, pending, d) + charged[d] = Limit(d)
        /\ budget.remaining[d] \in Nat
    BY DEF BudgetInv, Account, TypeOK, BudgetLedger
  <2>2. CASE pending = NoEffect
    BY <2>1, <2>2 DEF BudgetInv, Account, Open
  <2>3. CASE pending # NoEffect /\ d \in DOMAIN pending.held /\ pending.held[d] \in budget.reservations
    <3>1. {r \in budget.reservations : r.dimension = d} = {pending.held[d]}
      BY <2>3 DEF BudgetInv, Account, Keyed
    <3>2. QED
      BY <2>1, <2>3, <3>1 DEF Open, OpenIn
  <2>4. CASE pending # NoEffect /\ ~(d \in DOMAIN pending.held /\ pending.held[d] \in budget.reservations)
    <3>1. {r \in budget.reservations : r.dimension = d} = {}
      BY <2>4 DEF BudgetInv, Account, Keyed
    <3>2. QED
      BY <2>1, <2>4, <3>1 DEF Open, OpenIn
  <2>5. QED
    BY <2>2, <2>3, <2>4
<1>2. QED
  BY <1>1, TypeInit, TypeStep, BudgetInit, BudgetStep, PTL DEF Spec

\* No reservation survives the effect it was made for.
THEOREM ReservationsEnd == Spec => []NoReservationOutlivesItsEffect
<1>1. BudgetInv => NoReservationOutlivesItsEffect
  BY DEF BudgetInv, Account, NoReservationOutlivesItsEffect
<1>2. QED
  BY <1>1, TypeInit, TypeStep, BudgetInit, BudgetStep, PTL DEF Spec
-----------------------------------------------------------------------------
(* Permits *)

ApprovalAsked(h, request) ==
  \E k \in DOMAIN h : h[k] = [event |-> "policy_decision", policy |-> request.identity,
                              proposal |-> request.proposal, decision |-> "approve"]

\* A permit is issued once, with the next sequence number, after the decision
\* that stands behind it, and consumed by the commit that uses it.
PermitsSound(a, p, h) ==
  /\ \A permit \in a.issued : permit.sequence < a.next_sequence
  /\ a.consumed \subseteq a.issued
  /\ \A permit \in a.issued : DecidedBefore(h, Len(h) + 1, permit)
  /\ \A n \in DOMAIN h : IsCommit(h, n) =>
       /\ h[n].permit \in a.consumed
       /\ h[n].permit.proposal = h[n].proposal
       /\ DecidedBefore(h, n, h[n].permit)
       /\ \A m \in DOMAIN h : m # n /\ IsCommit(h, m) => h[m].permit # h[n].permit
  /\ p # NoEffect => /\ p.permits \subseteq a.consumed
                     /\ p.request.kind = "approval" => ApprovalAsked(h, p.request)

PermitInv ==
  /\ PermitsSound(authority, pending, history)
  /\ \A s \in saved : PermitsSound(s.authority, s.pending, s.history)
  /\ rewinds = 0 => /\ admitted \subseteq authority.consumed
                    /\ \A s \in latest : admitted \subseteq s.authority.consumed

NoCommit(e) == \A n \in DOMAIN e : e[n].event # "proposal_committed"

\* Evidence is only ever appended to.
LEMMA Prefix ==
  ASSUME NEW h \in Seq(Event), NEW e \in Seq(Event)
  PROVE  /\ h \o e \in Seq(Event)
         /\ Len(h \o e) = Len(h) + Len(e)
         /\ DOMAIN h = 1..Len(h) /\ DOMAIN e = 1..Len(e) /\ DOMAIN (h \o e) = 1..(Len(h) + Len(e))
         /\ Len(h) \in Nat /\ Len(e) \in Nat
         /\ \A n \in DOMAIN h : (h \o e)[n] = h[n]
         /\ \A n \in DOMAIN (h \o e) : n \notin DOMAIN h =>
              n - Len(h) \in DOMAIN e /\ (h \o e)[n] = e[n - Len(h)]
OBVIOUS

\* A decision made before an entry is made before every later one.
LEMMA DecidedStays ==
  ASSUME NEW h \in Seq(Event), NEW e \in Seq(Event), NEW n \in 1..(Len(h) + 1),
         NEW m \in Nat, n <= m, NEW permit, DecidedBefore(h, n, permit)
  PROVE  DecidedBefore(h \o e, m, permit)
<1> DEFINE g == h \o e
<1>1. \A k \in 1..(n - 1) : k \in 1..(m - 1) /\ g[k] = h[k]
  BY Prefix
<1>2. \A k \in 1..(n - 1) : \A l \in (k + 1)..(n - 1) :
        l \in (k + 1)..(m - 1) /\ g[l] = h[l]
  BY Prefix
<1> DEFINE decided(d) == [event |-> "policy_decision", policy |-> permit.policy,
                          proposal |-> permit.proposal, decision |-> d]
           resolved == [event |-> "effect_resolved",
                        request |-> [kind |-> "approval", identity |-> permit.policy,
                                     proposal |-> permit.proposal],
                        payload |-> TRUE]
           allowed(s, i) == permit.evidence = "direct_allow"
                            /\ \E k \in 1..(i - 1) : s[k] = decided("allow")
           approved(s, i) == permit.evidence = "human_approval"
                             /\ \E k \in 1..(i - 1) : \E l \in (k + 1)..(i - 1) :
                                  s[k] = decided("approve") /\ s[l] = resolved
<1>3. /\ DecidedBefore(h, n, permit) <=> allowed(h, n) \/ approved(h, n)
      /\ DecidedBefore(g, m, permit) <=> allowed(g, m) \/ approved(g, m)
  BY DEF DecidedBefore
<1> HIDE DEF g, decided, resolved
<1>4. allowed(h, n) => allowed(g, m)
  BY <1>1
<1>5. approved(h, n) => approved(g, m)
  BY <1>1, <1>2
<1>6. QED
  BY <1>3, <1>4, <1>5 DEF g

\* Evidence without a commit leaves the permits sound.
LEMMA SoundAppend ==
  ASSUME NEW a, NEW p, NEW h \in Seq(Event), NEW e \in Seq(Event),
         PermitsSound(a, p, h), NoCommit(e)
  PROVE  PermitsSound(a, p, h \o e)
<1> DEFINE g == h \o e
<1>1. \A permit \in a.issued : DecidedBefore(g, Len(g) + 1, permit)
  <2>1. Len(h) + 1 \in 1..(Len(h) + 1) /\ Len(g) + 1 \in Nat /\ Len(h) + 1 <= Len(g) + 1
    BY Prefix
  <2>2. QED
    BY <2>1, DecidedStays DEF PermitsSound
<1>2. ASSUME NEW n \in DOMAIN g, IsCommit(g, n)
      PROVE  n \in DOMAIN h /\ g[n] = h[n] /\ IsCommit(h, n)
  BY <1>2, Prefix DEF IsCommit, NoCommit
<1>3. \A n \in DOMAIN g : IsCommit(g, n) =>
        /\ g[n].permit \in a.consumed
        /\ g[n].permit.proposal = g[n].proposal
        /\ \A m \in DOMAIN g : m # n /\ IsCommit(g, m) => g[m].permit # g[n].permit
  BY <1>2 DEF PermitsSound
<1>4. \A n \in DOMAIN g : IsCommit(g, n) => DecidedBefore(g, n, g[n].permit)
  <2>1. \A n \in DOMAIN h : n \in 1..(Len(h) + 1) /\ n \in Nat /\ n <= n
    BY Prefix
  <2>2. QED
    BY <1>2, <2>1, DecidedStays DEF PermitsSound
<1>5. ASSUME p # NoEffect, p.request.kind = "approval"
      PROVE  ApprovalAsked(g, p.request)
  BY <1>5, Prefix DEF PermitsSound, ApprovalAsked
<1>6. QED
  BY <1>1, <1>3, <1>4, <1>5 DEF PermitsSound

\* Issuing a permit whose decision is in the evidence leaves them sound.
LEMMA SoundIssue ==
  ASSUME NEW a \in AuthorityLedger, NEW h, NEW permit,
         PermitsSound(a, NoEffect, h),
         permit.sequence = a.next_sequence, DecidedBefore(h, Len(h) + 1, permit)
  PROVE  PermitsSound(Issue(a, permit), NoEffect, h)
<1>1. a.next_sequence \in Nat
  BY DEF AuthorityLedger
<1>2. /\ Issue(a, permit).issued = a.issued \cup {permit}
      /\ Issue(a, permit).next_sequence = a.next_sequence + 1
      /\ Issue(a, permit).consumed = a.consumed
  BY DEF Issue, AuthorityLedger
<1>3. \A q \in a.issued \cup {permit} : q.sequence < a.next_sequence + 1
  <2>1. \A q \in a.issued : q.sequence \in Nat /\ q.sequence < a.next_sequence
    BY DEF PermitsSound, AuthorityLedger, Permit
  <2>2. QED
    BY <1>1, <2>1
<1>4. QED
  BY <1>2, <1>3 DEF PermitsSound

\* Committing consumes a permit that no earlier commit used.
LEMMA SoundConsume ==
  ASSUME NEW a \in AuthorityLedger, NEW h \in Seq(Event), NEW proposal, NEW permit, NEW now,
         PermitsSound(a, NoEffect, h), CanConsume(a, proposal, permit, now),
         NEW c \in Event,
         c = [event |-> "proposal_committed", proposal |-> proposal, permit |-> permit]
  PROVE  PermitsSound(Consume(a, permit), NoEffect, h \o <<c>>)
<1> DEFINE g == h \o <<c>>
           last == Len(h) + 1
<1>1. /\ Consume(a, permit).issued = a.issued
      /\ Consume(a, permit).next_sequence = a.next_sequence
      /\ Consume(a, permit).consumed = a.consumed \cup {permit}
      /\ permit \in a.issued /\ permit \notin a.consumed /\ permit.proposal = proposal
  BY DEF Consume, AuthorityLedger, CanConsume
<1>2. /\ g \in Seq(Event) /\ Len(g) = last /\ DOMAIN g = DOMAIN h \cup {last}
      /\ DOMAIN h = 1..Len(h) /\ last \notin DOMAIN h /\ last \in Nat
      /\ g[last] = c /\ \A n \in DOMAIN h : g[n] = h[n]
  OBVIOUS
<1>3. \A q \in a.issued : DecidedBefore(g, last, q) /\ DecidedBefore(g, Len(g) + 1, q)
  <2>1. /\ last \in 1..(Len(h) + 1) /\ last <= last
        /\ Len(g) + 1 \in Nat /\ last <= Len(g) + 1 /\ <<c>> \in Seq(Event)
    BY <1>2
  <2>2. QED
    BY <1>2, <2>1, DecidedStays DEF PermitsSound
<1>4. ASSUME NEW n \in DOMAIN g, IsCommit(g, n)
      PROVE  DecidedBefore(g, n, g[n].permit)
  <2>1. CASE n = last
    BY <1>1, <1>2, <1>3, <2>1
  <2>2. CASE n \in DOMAIN h
    <3>1. n \in 1..(Len(h) + 1) /\ n \in Nat /\ n <= n /\ <<c>> \in Seq(Event)
      BY <1>2, <2>2
    <3>2. DecidedBefore(h, n, h[n].permit)
      BY <1>2, <1>4, <2>2 DEF PermitsSound, IsCommit
    <3>3. QED
      BY <1>2, <2>2, <3>1, <3>2, DecidedStays
  <2>3. QED
    BY <1>2, <2>1, <2>2
<1>5. ASSUME NEW n \in DOMAIN h, IsCommit(g, n)
      PROVE  /\ g[n].permit \in a.consumed
             /\ g[n].permit.proposal = g[n].proposal
             /\ \A m \in DOMAIN h : m # n /\ IsCommit(g, m) => g[m].permit # g[n].permit
  BY <1>2, <1>5 DEF PermitsSound, IsCommit
<1>6. \A n \in DOMAIN g : IsCommit(g, n) =>
        /\ g[n].permit \in a.consumed \cup {permit}
        /\ g[n].permit.proposal = g[n].proposal
        /\ \A m \in DOMAIN g : m # n /\ IsCommit(g, m) => g[m].permit # g[n].permit
  BY <1>1, <1>2, <1>5
<1>7. QED
  BY <1>1, <1>3, <1>4, <1>6 DEF PermitsSound

\* The parts of the live machine that permits depend on.
Permitted == <<authority, pending, history, saved, latest, rewinds, admitted>>

LEMMA PermitInit == Init => PermitInv
BY DEF Init, PermitInv, PermitsSound, EmptyLedger

\* The snapshots' half of the invariant, when they stay.
LEMMA SavedPermits ==
  ASSUME PermitInv, UNCHANGED <<saved, latest, rewinds, admitted>>,
         PermitsSound(authority, pending, history)',
         authority.consumed \subseteq authority'.consumed
  PROVE  PermitInv'
BY DEF PermitInv

\* The local instructions.
LEMMA LocalPermits ==
  ASSUME PermitInv,
         \/ Evaluate \/ Copy \/ UnwrapResult \/ Branch \/ Jump \/ Match \/ Call \/ ReturnToCaller
         \/ Validate \/ ConstructIntent \/ ConstructProposal \/ Require \/ UpdateState \/ Complete
         \/ Fault \/ StepAgain \/ UNCHANGED vars
  PROVE  PermitInv'
<1>1. UNCHANGED Permitted
  <2>1. CASE \/ Evaluate \/ Copy \/ UnwrapResult \/ Branch \/ Jump \/ Match \/ Call \/ ReturnToCaller
             \/ Validate \/ ConstructIntent \/ ConstructProposal \/ Require
    BY <2>1 DEF Evaluate, Copy, UnwrapResult, Branch, Jump, Match, Call, ReturnToCaller, Validate,
                ConstructIntent, ConstructProposal, Require, MoveFrames, Permitted
  <2>2. CASE UpdateState \/ Complete \/ Fault
    BY <2>2 DEF UpdateState, Complete, Fault, Permitted, continuation
  <2>3. CASE StepAgain \/ UNCHANGED vars
    BY <2>3 DEF StepAgain, Permitted, vars, continuation
  <2>4. QED
    BY <2>1, <2>2, <2>3
<1>2. QED
  BY <1>1 DEF Permitted, PermitInv

\* Evidence without a commit, the permits and the pending effect unchanged.
LEMMA AppendPermits ==
  ASSUME PermitInv, history \in Seq(Event), NEW e \in Event, e.event # "proposal_committed",
         history' = Append(history, e), UNCHANGED <<authority, pending, saved, latest, rewinds, admitted>>
  PROVE  PermitInv'
<1>1. history' = history \o <<e>> /\ <<e>> \in Seq(Event) /\ NoCommit(<<e>>)
  BY DEF NoCommit
<1>2. PermitsSound(authority, pending, history \o <<e>>)
  BY <1>1, SoundAppend DEF PermitInv
<1>3. QED
  BY <1>1, <1>2, SavedPermits

\* Suspending on a model, a read or an approval.
LEMMA AskPermits ==
  ASSUME TypeOK, PermitInv, Infer \/ Observe \/ AuthorizeSuspend
  PROVE  PermitInv'
<1>1. pending = NoEffect /\ UNCHANGED <<authority, saved, latest, rewinds, admitted>>
  BY DEF Infer, Observe, AuthorizeSuspend, At, Ready, Suspend
<1>2. \E request \in EffectRequest, e \in Seq(Event) :
        /\ NoCommit(e)
        /\ history' = history \o e
        /\ pending'.permits = {}
        /\ pending'.request = request
        /\ request.kind = "approval" => ApprovalAsked(history \o e, request)
  <2>1. CASE Infer \/ Observe
    <3>1. PICK request \in EffectRequest :
            /\ request.kind # "approval"
            /\ pending'.request = request /\ pending'.permits = {}
            /\ history' = Append(history \o <<>>, [event |-> "effect_requested", request |-> request])
      <4>1. \A s \in Slots : HasData(s) => Slot(s).data \in Data
        BY SlotShape DEF TypeOK
      <4>2. CASE Infer
        <5> DEFINE request == [kind |-> "model", identity |-> Instr.prompt,
                               data |-> Slot(Instr.source).data]
        <5>1. request \in EffectRequest
          BY <4>1, <4>2, AtType DEF Infer, CanInfer, WellFormedInstr, EffectRequest, DataRequest
        <5>2. QED
          BY <4>2, <5>1 DEF Infer, Suspend
      <4>3. CASE Observe
        <5> DEFINE request == [kind |-> "read", identity |-> Instr.action,
                               data |-> Slot(Instr.source).data]
        <5>1. request \in EffectRequest
          BY <4>1, <4>3, AtType DEF Observe, CanObserve, WellFormedInstr, EffectRequest, DataRequest
        <5>2. QED
          BY <4>3, <5>1 DEF Observe, Suspend
      <4>4. QED
        BY <2>1, <4>2, <4>3
    <3> DEFINE e == <<[event |-> "effect_requested", request |-> request]>>
    <3>2. e \in Seq(Event) /\ NoCommit(e)
      BY DEF Event, NoCommit
    <3>3. history' = history \o e
      <4>1. history \in Seq(Event)
        BY DEF TypeOK
      <4>2. QED
        BY <3>1, <3>2, <4>1
    <3>4. QED
      BY <3>1, <3>2, <3>3
  <2>2. CASE AuthorizeSuspend
    <3> DEFINE proposal == Slot(Instr.proposal).proposal
               request == [kind |-> "approval", identity |-> Instr.policy, proposal |-> proposal]
               requested == [event |-> "effect_requested", request |-> request]
               e == <<Decided("approve"), requested>>
    <3>1. Instr.proposal \in Slots /\ Instr.policy \in STRING /\ frames \in FrameStack
      BY <2>2, AtType DEF AuthorizeSuspend, WellFormedInstr
    <3>2. proposal \in Proposal
      BY <2>2, <3>1, HeldTypes DEF AuthorizeSuspend, CanAuthorize
    <3>3. request \in EffectRequest
      BY <3>1, <3>2 DEF EffectRequest, ProposalRequest
    <3>4. Decided("approve") \in Event /\ requested \in Event
      BY <3>1, <3>2, <3>3, EvidenceTypes DEF Decided, Event
    <3>5. e \in Seq(Event) /\ NoCommit(e)
      <4> HIDE DEF requested
      <4>1. Decided("approve").event = "policy_decision" /\ requested.event = "effect_requested"
        BY DEF Decided, requested
      <4>2. QED
        BY <3>4, <4>1 DEF NoCommit
    <3>6. /\ history' = Append(history \o <<Decided("approve")>>, requested)
          /\ pending'.request = request /\ pending'.permits = {}
      BY <2>2 DEF AuthorizeSuspend, Suspend
    <3>7. history' = history \o e
      <4> HIDE DEF requested
      <4>1. QED
        BY <3>4, <3>6 DEF TypeOK
    <3>8. ApprovalAsked(history \o e, request)
      <4>1. Decided("approve") = [event |-> "policy_decision", policy |-> request.identity,
                                  proposal |-> request.proposal, decision |-> "approve"]
        BY DEF Decided
      <4>2. Len(history) + 1 \in DOMAIN (history \o e) /\ (history \o e)[Len(history) + 1] = Decided("approve")
        <5> HIDE DEF requested
        <5>1. QED
          BY <3>4 DEF TypeOK
      <4>3. QED
        BY <4>1, <4>2 DEF ApprovalAsked
    <3>9. QED
      BY <3>3, <3>5, <3>6, <3>7, <3>8
  <2>3. QED
    BY <2>1, <2>2
<1>3. PICK request \in EffectRequest, e \in Seq(Event) :
        /\ NoCommit(e)
        /\ history' = history \o e
        /\ pending'.permits = {}
        /\ pending'.request = request
        /\ request.kind = "approval" => ApprovalAsked(history \o e, request)
  BY <1>2
<1>4. PermitsSound(authority, NoEffect, history \o e)
  BY <1>1, <1>3, SoundAppend DEF PermitInv, TypeOK
<1>5. PermitsSound(authority, pending, history)'
  BY <1>1, <1>3, <1>4 DEF PermitsSound
<1>6. QED
  BY <1>1, <1>5, SavedPermits

\* Issuing by rule.
LEMMA AllowPermits ==
  ASSUME TypeOK, PermitInv, AuthorizeAllow
  PROVE  PermitInv'
<1> DEFINE proposal == Slot(Instr.proposal).proposal
           permit == NextPermit(authority, proposal, Instr.policy, start.event_time, "direct_allow")
           e == <<Decided("allow"), Issued(permit)>>
           g == history \o e
<1>1. /\ pending = NoEffect /\ UNCHANGED <<pending, saved, latest, rewinds, admitted>>
      /\ history' = g /\ authority' = Issue(authority, permit)
  BY DEF AuthorizeAllow, At, Ready
<1>2. Instr.proposal \in Slots /\ Instr.policy \in STRING /\ frames \in FrameStack
  BY AtType DEF AuthorizeAllow, WellFormedInstr
<1>3. proposal \in Proposal
  BY <1>2, HeldTypes DEF AuthorizeAllow, CanAuthorize
<1>4. authority \in AuthorityLedger /\ history \in Seq(Event) /\ start.event_time \in Nat
  BY StartType DEF TypeOK, WellFormed
<1>5. permit \in Permit
  BY <1>2, <1>3, <1>4, AuthorityTypes DEF Evidence
<1>6. Decided("allow") \in Event /\ Issued(permit) \in Event
  BY <1>2, <1>3, <1>5, EvidenceTypes DEF Decided
<1>7. /\ permit.sequence = authority.next_sequence /\ permit.evidence = "direct_allow"
      /\ Decided("allow") = [event |-> "policy_decision", policy |-> permit.policy,
                             proposal |-> permit.proposal, decision |-> "allow"]
      /\ Decided("allow").event = "policy_decision" /\ Issued(permit).event = "permit_issued"
  BY DEF NextPermit, Decided, Issued
<1> HIDE DEF permit
<1>8. e \in Seq(Event) /\ NoCommit(e)
  BY <1>6, <1>7 DEF NoCommit
<1>9. PermitsSound(authority, NoEffect, g)
  BY <1>1, <1>4, <1>8, SoundAppend DEF PermitInv
<1>10. DecidedBefore(g, Len(g) + 1, permit)
  <2>1. Len(history) + 1 \in 1..((Len(g) + 1) - 1) /\ g[Len(history) + 1] = Decided("allow")
    BY <1>4, <1>6
  <2>2. QED
    BY <1>7, <2>1 DEF DecidedBefore
<1>11. PermitsSound(Issue(authority, permit), NoEffect, g)
  BY <1>4, <1>7, <1>9, <1>10, SoundIssue
<1>12. authority'.consumed = authority.consumed
  BY <1>1, <1>4 DEF Issue, AuthorityLedger
<1>13. QED
  BY <1>1, <1>11, <1>12, SavedPermits

\* Committing, within the write budget or not.
LEMMA CommitPermits ==
  ASSUME TypeOK, PermitInv, Commit \/ CommitExhausted
  PROVE  PermitInv'
<1> DEFINE proposal == Slot(Instr.proposal).proposal
           permit == Slot(Instr.permit).permit
           g == history \o <<Committed>>
<1>1. /\ pending = NoEffect /\ UNCHANGED <<saved, latest, rewinds, admitted>> /\ authority' = Consume(authority, permit)
      /\ CanConsume(authority, proposal, permit, start.event_time)
  BY DEF Commit, CommitExhausted, CanCommit, At, Ready, Suspend
<1>2. /\ Instr.proposal \in Slots /\ Instr.permit \in Slots /\ frames \in FrameStack
      /\ HasTag(Instr.proposal, "proposal") /\ HasTag(Instr.permit, "permit")
  BY AtType DEF Commit, CommitExhausted, CanCommit, WellFormedInstr
<1>3. proposal \in Proposal /\ permit \in Permit
  BY <1>2, HeldTypes
<1>4. Committed \in Event
  BY <1>3, EvidenceTypes DEF Committed
<1>5. authority \in AuthorityLedger /\ history \in Seq(Event)
  BY DEF TypeOK
<1>6. Committed = [event |-> "proposal_committed", proposal |-> proposal, permit |-> permit]
  BY DEF Committed
<1>7. PermitsSound(authority', NoEffect, g)
  BY <1>1, <1>4, <1>5, <1>6, SoundConsume DEF PermitInv
<1>8. permit \in authority'.consumed /\ authority.consumed \subseteq authority'.consumed
  BY <1>1, <1>5 DEF Consume, AuthorityLedger
<1>9. CASE Commit
  <2> DEFINE requested == [event |-> "effect_requested", request |-> pending'.request]
  <2>1. /\ history' = Append(g, requested) /\ pending'.permits = {permit}
        /\ pending'.request.kind = "write"
        /\ requested \in Event
    <3>1. [kind |-> "write", identity |-> proposal.action, proposal |-> proposal] \in EffectRequest
      BY <1>3 DEF Proposal, EffectRequest, ProposalRequest
    <3>2. QED
      BY <1>9, <3>1 DEF Commit, Suspend, Event
  <2>2. requested.event = "effect_requested"
    OBVIOUS
  <2> HIDE DEF requested
  <2>3. g \in Seq(Event) /\ history' = g \o <<requested>> /\ <<requested>> \in Seq(Event)
    <3>1. g \in Seq(Event) /\ <<requested>> \in Seq(Event)
      BY <1>4, <1>5, <2>1
    <3> HIDE DEF g
    <3>2. QED
      BY <2>1, <3>1, AppendIsConcat
  <2>4. NoCommit(<<requested>>)
    BY <2>2 DEF NoCommit
  <2>5. PermitsSound(authority', NoEffect, history')
    BY <1>7, <2>3, <2>4, SoundAppend
  <2>6. PermitsSound(authority, pending, history)'
    BY <1>8, <2>1, <2>5 DEF PermitsSound
  <2>7. QED
    BY <1>1, <1>8, <2>6, SavedPermits
<1>10. CASE CommitExhausted
  <2>1. pending' = NoEffect /\ history' = g
    BY <1>1, <1>4, <1>5, <1>10 DEF CommitExhausted
  <2>2. QED
    BY <1>1, <1>7, <1>8, <2>1, SavedPermits
<1>11. QED
  BY <1>9, <1>10

\* Answering, which issues a permit when a person approves.
LEMMA SupplyPermits ==
  ASSUME TypeOK, PermitInv, NEW usage \in UsageReports, NEW payload \in Data, Supply(usage, payload)
  PROVE  PermitInv'
<1> DEFINE permit == ApprovalPermit
           request == pending.request
           approved == request.kind = "approval" /\ payload = TRUE
           answer == <<Resolved(payload)>>
           g == history \o answer
<1>1. /\ pending # NoEffect /\ IsPendingEffect(pending) /\ pending' = NoEffect
      /\ UNCHANGED <<saved, latest, rewinds, admitted>>
  BY DEF Supply, Approves, CanSupply, Suspended, TypeOK
<1>2. authority \in AuthorityLedger /\ history \in Seq(Event) /\ start.event_time \in Nat
  BY StartType DEF TypeOK, WellFormed
<1>3. request \in EffectRequest
  BY <1>1, PendingShape
<1>4. Resolved(payload) \in Event /\ Resolved(payload).event = "effect_resolved"
  BY <1>3 DEF Resolved, Event
<1>5. answer \in Seq(Event) /\ NoCommit(answer) /\ g \in Seq(Event)
  BY <1>2, <1>4 DEF NoCommit
<1>6. PermitsSound(authority, NoEffect, g)
  <2>1. PermitsSound(authority, NoEffect, history)
    BY DEF PermitInv, PermitsSound
  <2>2. QED
    BY <1>2, <1>5, <2>1, SoundAppend
<1>7. CASE ~approved
  <2>1. authority' = authority /\ history' = g
    BY <1>7 DEF Supply, Approves
  <2>2. QED
    BY <1>1, <1>6, <2>1, SavedPermits
<1>8. CASE approved
  <2>1. authority' = Issue(authority, permit) /\ history' = history \o <<Resolved(payload), Issued(permit)>>
    BY <1>8 DEF Supply, Approves
  <2>2. /\ request.proposal \in Proposal /\ request.identity \in STRING
        /\ request = [kind |-> "approval", identity |-> request.identity, proposal |-> request.proposal]
    BY <1>3, <1>8 DEF EffectRequest, DataRequest, ProposalRequest
  <2>3. permit \in Permit
    BY <1>2, <2>2, AuthorityTypes DEF ApprovalPermit, Evidence
  <2>4. /\ permit.sequence = authority.next_sequence /\ permit.evidence = "human_approval"
        /\ permit.policy = request.identity /\ permit.proposal = request.proposal
        /\ Issued(permit).event = "permit_issued" /\ Issued(permit) \in Event
    BY <2>3, EvidenceTypes DEF ApprovalPermit, NextPermit, Issued
  <2> HIDE DEF permit
  <2>5. DecidedBefore(g, Len(g) + 1, permit)
    <3>1. ApprovalAsked(history, request)
      BY <1>1, <1>8 DEF PermitInv, PermitsSound
    <3>2. PICK k \in DOMAIN history :
            history[k] = [event |-> "policy_decision", policy |-> permit.policy,
                          proposal |-> permit.proposal, decision |-> "approve"]
      BY <2>4, <3>1 DEF ApprovalAsked
    <3> DEFINE l == Len(history) + 1
    <3>3. k \in 1..((Len(g) + 1) - 1) /\ g[k] = history[k] /\ l \in (k + 1)..((Len(g) + 1) - 1)
      BY <1>2, <1>4
    <3>4. g[l] = Resolved(payload)
      BY <1>2, <1>4
    <3>5. Resolved(payload) = [event |-> "effect_resolved",
                               request |-> [kind |-> "approval", identity |-> permit.policy,
                                            proposal |-> permit.proposal],
                               payload |-> TRUE]
      BY <1>8, <2>2, <2>4 DEF Resolved
    <3>6. QED
      BY <2>4, <3>2, <3>3, <3>4, <3>5 DEF DecidedBefore
  <2>6. PermitsSound(authority', NoEffect, g)
    BY <1>2, <1>6, <2>1, <2>4, <2>5, SoundIssue
  <2>7. history' = g \o <<Issued(permit)>> /\ <<Issued(permit)>> \in Seq(Event) /\ NoCommit(<<Issued(permit)>>)
    BY <1>2, <1>4, <2>1, <2>4 DEF NoCommit
  <2>8. PermitsSound(authority', NoEffect, history')
    BY <1>5, <2>6, <2>7, SoundAppend
  <2>9. authority'.consumed = authority.consumed
    BY <1>2, <2>1 DEF Issue, AuthorityLedger
  <2>10. QED
    BY <1>1, <2>8, <2>9, SavedPermits
<1>9. QED
  BY <1>7, <1>8

\* The operations that answer nothing keep the request and the permits.
LEMMA OtherCallerPermits ==
  ASSUME TypeOK, PermitInv,
         \/ \E maximums \in Declarations : ReservePendingUsage(maximums)
         \/ \E usage \in UsageReports :
              SupplyOverdrawn(usage) \/ \E payload \in Data : SupplyMalformed(usage, payload)
  PROVE  PermitInv'
<1>1. /\ pending # NoEffect /\ IsPendingEffect(pending)
      /\ UNCHANGED <<authority, history, saved, latest, rewinds, admitted>>
  BY DEF ReservePendingUsage, SupplyOverdrawn, SupplyMalformed, CanSupply, Suspended, TypeOK
<1>2. pending'.permits = pending.permits /\ pending'.request = pending.request
  <2>1. CASE \E maximums \in Declarations : ReservePendingUsage(maximums)
    BY <1>1, <2>1 DEF ReservePendingUsage, IsPendingEffect
  <2>2. CASE \E usage \in UsageReports :
               SupplyOverdrawn(usage) \/ \E payload \in Data : SupplyMalformed(usage, payload)
    BY <2>2 DEF SupplyOverdrawn, SupplyMalformed
  <2>3. QED
    BY <2>1, <2>2
<1>3. PermitsSound(authority, pending, history)'
  BY <1>1, <1>2 DEF PermitInv, PermitsSound
<1>4. QED
  BY <1>1, <1>3, SavedPermits

LEMMA PermitStep == TypeOK /\ PermitInv /\ [Next]_vars => PermitInv'
<1> SUFFICES ASSUME TypeOK, PermitInv, [Next]_vars PROVE PermitInv'
  OBVIOUS
<1>1. CASE AuthorizeDeny \/ AuthorizeRefused \/ Reconcile
  <2>1. \E e \in Event : /\ e.event # "proposal_committed"
                         /\ history' = Append(history, e)
                         /\ UNCHANGED <<authority, pending, saved, latest, rewinds, admitted>>
    <3>1. CASE AuthorizeDeny \/ AuthorizeRefused
      <4>1. Instr.proposal \in Slots /\ Instr.policy \in STRING /\ frames \in FrameStack
        BY <3>1, AtType DEF AuthorizeDeny, AuthorizeRefused, WellFormedInstr
      <4>2. Slot(Instr.proposal).proposal \in Proposal
        BY <3>1, <4>1, HeldTypes DEF AuthorizeDeny, AuthorizeRefused, CanAuthorize
      <4>3. \A decision \in {"approve", "deny"} : /\ Decided(decision) \in Event
                                                  /\ Decided(decision).event = "policy_decision"
        BY <4>1, <4>2, EvidenceTypes DEF Decided
      <4>4. QED
        BY <3>1, <4>3 DEF AuthorizeDeny, AuthorizeRefused
    <3>2. CASE Reconcile
      <4> DEFINE receipt     == Slot(Instr.receipt)
                 observation == Slot(Instr.observation)
                 valid == <<receipt.data, observation.data>> \in Program.validators[Instr.validator]
                 decided == [event |-> "reconciliation_decision", proposal |-> receipt.proposal,
                             matched |-> valid, receipt_born |-> receipt.born,
                             observation_born |-> observation.born]
      <4>1. Instr.receipt \in Slots /\ Instr.observation \in Slots /\ frames \in FrameStack
        BY <3>2, AtType DEF Reconcile, WellFormedInstr
      <4>2. receipt.proposal \in Proposal /\ receipt.born \in Nat /\ observation.born \in Nat
        BY <3>2, <4>1, SlotShape, ValueShape DEF Reconcile, CanReconcile, HasTag
      <4>3. decided \in Event /\ decided.event # "proposal_committed"
        <5> HIDE DEF receipt, observation
        <5>1. valid \in BOOLEAN
          OBVIOUS
        <5> HIDE DEF valid
        <5>2. QED
          BY <4>2, <5>1 DEF Event
      <4>4. history' = Append(history, decided) /\ UNCHANGED <<authority, pending, saved, latest, rewinds, admitted>>
        BY <3>2 DEF Reconcile
      <4>5. QED
        BY <4>3, <4>4
    <3>3. QED
      BY <1>1, <3>1, <3>2
  <2>2. QED
    BY <2>1, AppendPermits DEF TypeOK
<1>2. CASE Infer \/ Observe \/ AuthorizeSuspend
  BY <1>2, AskPermits
<1>3. CASE AuthorizeAllow
  BY <1>3, AllowPermits
<1>4. CASE Commit \/ CommitExhausted
  BY <1>4, CommitPermits
<1>5. CASE Resolve
  BY <1>5, SupplyPermits, OtherCallerPermits DEF Resolve
<1>6. CASE \E maximums \in Declarations : ReservePendingUsage(maximums)
  BY <1>6, OtherCallerPermits
<1>7. CASE Snapshot
  <2>1. /\ pending # NoEffect /\ UNCHANGED <<authority, pending, history>>
        /\ admitted' = admitted \cup pending.permits /\ rewinds' = rewinds
        /\ saved' = saved \cup {Continuation} /\ latest' = {Continuation}
        /\ Continuation.authority = authority /\ Continuation.pending = pending
        /\ Continuation.history = history
    BY <1>7 DEF Snapshot, Suspended, continuation, Continuation
  <2>2. pending.permits \subseteq authority.consumed
    BY <2>1 DEF PermitInv, PermitsSound
  <2>3. \A s \in saved' : PermitsSound(s.authority, s.pending, s.history)
    BY <2>1 DEF PermitInv
  <2>4. rewinds' = 0 => /\ admitted' \subseteq authority.consumed
                        /\ \A s \in latest' : admitted' \subseteq s.authority.consumed
    BY <2>1, <2>2 DEF PermitInv
  <2>5. QED
    BY <2>1, <2>3, <2>4 DEF PermitInv
<1>8. CASE Restore
  <2>1. PICK s \in saved : /\ authority' = s.authority /\ pending' = s.pending
                           /\ history' = s.history
                           /\ rewinds' = IF s \in latest THEN rewinds ELSE rewinds + 1
    BY <1>8 DEF Restore
  <2>2. UNCHANGED <<saved, latest, admitted>> /\ rewinds \in Nat
    BY <1>8 DEF Restore, TypeOK
  <2>3. rewinds' = 0 => rewinds = 0 /\ s \in latest
    BY <2>1, <2>2
  <2>4. QED
    BY <2>1, <2>2, <2>3 DEF PermitInv
<1>9. QED
  BY <1>1, <1>2, <1>3, <1>4, <1>5, <1>6, <1>7, <1>8, LocalPermits DEF Next, Step

\* A permit is spent at most once, on the proposal it was issued for, in all
\* the lives of a machine.
THEOREM PermitsSpentOnce == Spec => []CommitsSpendDistinctPermits
<1>1. PermitInv => CommitsSpendDistinctPermits
  BY DEF PermitInv, PermitsSound, CommitsSpendDistinctPermits
<1>2. QED
  BY <1>1, TypeInit, TypeStep, PermitInit, PermitStep, PTL DEF Spec

\* Behind every commit there is a decision of the policy for that proposal
\* and, where the policy asks for it, a person's approval.
THEOREM CommitsDecided == Spec => []CommitsWereDecided
<1>1. PermitInv => CommitsWereDecided
  BY DEF PermitInv, PermitsSound, CommitsWereDecided
<1>2. QED
  BY <1>1, TypeInit, TypeStep, PermitInit, PermitStep, PTL DEF Spec

\* No crash gives back the permit of a write a host may have performed, unless
\* another snapshot than the last was restored.
THEOREM AdmittedStayConsumed == Spec => []AdmittedWritesStayConsumed
<1>1. PermitInv => AdmittedWritesStayConsumed
  BY DEF PermitInv, AdmittedWritesStayConsumed
<1>2. QED
  BY <1>1, TypeInit, TypeStep, PermitInit, PermitStep, PTL DEF Spec
-----------------------------------------------------------------------------
(* Writes within the budget, over all the lives of a machine *)

PermitsOf(p) == IF p = NoEffect THEN {} ELSE p.permits

\* What a continuation may still write, and the permit it is about to write
\* with, on top of the writes in `before': a settled write returns nothing to
\* what remains.
WritesWithin(b, p, before, bound) ==
  /\ IsFiniteSet(PermitsOf(p))
  /\ Cardinality(before \cup PermitsOf(p)) + b.remaining["external_writes"] <= bound
  /\ p # NoEffect /\ "external_writes" \in DOMAIN p.held => p.held["external_writes"].maximum = 1

\* The budget of all lives: once more for each snapshot restored that was not
\* the last.
AllLives == Limit("external_writes") * (rewinds + 1)

\* Any snapshot gives back at most one budget; the live machine and the last
\* snapshot stay within that of all lives.
WriteInv ==
  /\ IsFiniteSet(admitted)
  /\ WritesWithin(budget, pending, {}, Limit("external_writes"))
  /\ WritesWithin(budget, pending, admitted, AllLives)
  /\ \A s \in saved : WritesWithin(s.budget, s.pending, {}, Limit("external_writes"))
  /\ \A s \in latest : WritesWithin(s.budget, s.pending, admitted, AllLives)

LEMMA LimitType ==
  ASSUME start \in StartRequests
  PROVE  /\ "external_writes" \in BudgetDimension
         /\ Limit("external_writes") \in Nat
<1>1. WellFormed(start)
  BY RequestsAssumption
<1>2. "external_writes" \in BudgetDimension
  BY DEF BudgetDimension, CountDimensions
<1>3. QED
  BY <1>1, <1>2 DEF Limit, NewBudget, WellFormed, IsMap

LEMMA AllLivesType ==
  ASSUME start \in StartRequests, rewinds \in Nat
  PROVE  AllLives \in Nat
<1>1. Limit("external_writes") \in Nat /\ rewinds + 1 \in Nat
  BY LimitType
<1>2. \A x, y \in Nat : x * y \in Nat
  OBVIOUS
<1>3. QED
  BY <1>1, <1>2 DEF AllLives

LEMMA WriteInit == Init => WriteInv
<1> SUFFICES ASSUME Init PROVE WriteInv
  OBVIOUS
<1>1. /\ admitted = {} /\ pending = NoEffect /\ saved = {} /\ latest = {} /\ rewinds = 0
      /\ budget = NewBudget(start.limits)
  BY DEF Init
<1>2. Limit("external_writes") \in Nat
  BY LimitType DEF Init
<1>3. IsFiniteSet({}) /\ Cardinality({}) = 0
  BY FS_EmptySet
<1>4. budget.remaining["external_writes"] = Limit("external_writes")
  BY <1>1 DEF Limit
<1>5. PermitsOf(pending) = {} /\ {} \cup PermitsOf(pending) = {}
  BY <1>1 DEF PermitsOf
<1>6. AllLives = Limit("external_writes")
  BY <1>1, <1>2 DEF AllLives
<1>7. WritesWithin(budget, pending, {}, Limit("external_writes"))
  BY <1>1, <1>2, <1>3, <1>4, <1>5 DEF WritesWithin
<1>8. QED
  BY <1>1, <1>3, <1>6, <1>7 DEF WriteInv

\* A continuation that gains no permit and no write stays within its bound.
LEMMA KeepWithin ==
  ASSUME NEW b, NEW p, NEW c, NEW q, NEW before, NEW bound \in Nat,
         IsFiniteSet(before), WritesWithin(b, p, before, bound),
         b.remaining["external_writes"] \in Nat, c.remaining["external_writes"] \in Nat,
         c.remaining["external_writes"] <= b.remaining["external_writes"],
         PermitsOf(q) \subseteq PermitsOf(p),
         q # NoEffect /\ "external_writes" \in DOMAIN q.held => q.held["external_writes"].maximum = 1
  PROVE  WritesWithin(c, q, before, bound)
<1> DEFINE all == before \cup PermitsOf(p)
           some == before \cup PermitsOf(q)
<1>1. IsFiniteSet(PermitsOf(p)) /\ Cardinality(all) + b.remaining["external_writes"] <= bound
  BY DEF WritesWithin
<1>2. IsFiniteSet(PermitsOf(q)) /\ IsFiniteSet(all) /\ some \subseteq all
  BY <1>1, FS_Subset, FS_Union
<1> HIDE DEF all, some
<1>3. IsFiniteSet(some) /\ Cardinality(some) <= Cardinality(all)
  BY <1>2, FS_Subset
<1>4. Cardinality(some) \in Nat /\ Cardinality(all) \in Nat
  BY <1>2, <1>3, FS_CardinalityType
<1>5. Cardinality(some) + c.remaining["external_writes"] <= bound
  BY <1>1, <1>3, <1>4
<1>6. QED
  BY <1>2, <1>5 DEF WritesWithin, some

\* So does one that takes one permit for one write.
LEMMA SpendWithin ==
  ASSUME NEW b, NEW p, NEW c, NEW q, NEW before, NEW bound \in Nat, NEW permit,
         IsFiniteSet(before), WritesWithin(b, p, before, bound),
         b.remaining["external_writes"] \in Nat, c.remaining["external_writes"] \in Nat,
         c.remaining["external_writes"] = b.remaining["external_writes"] - 1,
         PermitsOf(p) = {}, PermitsOf(q) = {permit},
         q # NoEffect /\ "external_writes" \in DOMAIN q.held => q.held["external_writes"].maximum = 1
  PROVE  WritesWithin(c, q, before, bound)
<1>1. before \cup PermitsOf(p) = before
  OBVIOUS
<1>2. Cardinality(before) + b.remaining["external_writes"] <= bound
  BY <1>1 DEF WritesWithin
<1>3. Cardinality(before \cup {permit}) =
        IF permit \in before THEN Cardinality(before) ELSE Cardinality(before) + 1
  BY FS_AddElement
<1>4. Cardinality(before \cup {permit}) \in Nat /\ Cardinality(before) \in Nat
  BY <1>3, FS_CardinalityType
<1>5. Cardinality(before \cup {permit}) + c.remaining["external_writes"] <= bound
  BY <1>2, <1>3, <1>4
<1>6. IsFiniteSet({permit})
  BY FS_Singleton
<1>7. QED
  BY <1>5, <1>6 DEF WritesWithin

\* A step that leaves the admitted writes and the snapshots alone preserves
\* the invariant if the live machine stays within both bounds.
LEMMA WriteFrame ==
  ASSUME WriteInv, UNCHANGED <<start, admitted, saved, latest, rewinds>>,
         WritesWithin(budget', pending', {}, Limit("external_writes")),
         WritesWithin(budget', pending', admitted, AllLives)
  PROVE  WriteInv'
<1>1. Limit("external_writes")' = Limit("external_writes") /\ AllLives' = AllLives
  BY DEF Limit, AllLives
<1>2. QED
  BY <1>1 DEF WriteInv, WritesWithin, PermitsOf

\* A step that leaves the admitted writes alone, returns no write to the
\* budget and adds no permit to the pending effect.
LEMMA WriteKeep ==
  ASSUME TypeOK, TypeOK', WriteInv, UNCHANGED <<start, admitted, saved, latest, rewinds>>,
         PermitsOf(pending') \subseteq PermitsOf(pending),
         budget'.remaining["external_writes"] <= budget.remaining["external_writes"],
         pending' # NoEffect /\ "external_writes" \in DOMAIN pending'.held =>
           pending'.held["external_writes"].maximum = 1
  PROVE  WriteInv'
<1>1. /\ "external_writes" \in BudgetDimension /\ Limit("external_writes") \in Nat
      /\ AllLives \in Nat
  BY LimitType, AllLivesType DEF TypeOK
<1>2. budget.remaining["external_writes"] \in Nat /\ budget'.remaining["external_writes"] \in Nat
  BY <1>1 DEF TypeOK, BudgetLedger
<1>3. WritesWithin(budget', pending', {}, Limit("external_writes"))
  BY <1>1, <1>2, KeepWithin, FS_EmptySet DEF WriteInv
<1>4. WritesWithin(budget', pending', admitted, AllLives)
  BY <1>1, <1>2, KeepWithin DEF WriteInv
<1>5. QED
  BY <1>3, <1>4, WriteFrame

\* A suspension spends one write when, and only when, it takes a permit.
LEMMA SuspendWrites ==
  ASSUME TypeOK, WriteInv, Infer \/ Observe \/ AuthorizeSuspend \/ Commit
  PROVE  WriteInv'
<1> DEFINE w == "external_writes"
<1>1. PICK request \in EffectRequest, expected \in SUBSET Data, permits \in SUBSET Permit,
           evidence \in Seq(Event) :
        /\ pending = NoEffect
        /\ permits = {} \/ (request.kind = "write" /\ \E permit \in Permit : permits = {permit})
        /\ Instr.target \in Slots
        /\ HasBudget(request.kind)
        /\ Suspend(request, expected, permits, evidence)
  BY Suspensions
<1> DEFINE dim == CountDimension(request.kind)
           one == [k \in {dim} |-> 1]
<1>2. TypeOK' /\ UNCHANGED <<start, admitted, saved, latest, rewinds>>
  <2>1. [Next]_vars
    BY DEF Next, Step
  <2>2. QED
    BY <1>1, <2>1, TypeStep DEF Suspend
<1>3. pending' # NoEffect /\ Affordable(budget, one)
  BY <1>1, SuspendedType
<1>4. /\ budget' = Reserve(budget, one) /\ pending'.permits = permits
      /\ pending'.held = ReservationsFor(budget, one)
  BY <1>1 DEF Suspend
<1>5. w \in BudgetDimension /\ Limit(w) \in Nat /\ AllLives \in Nat
  BY LimitType, AllLivesType DEF TypeOK
<1>6. budget.remaining[w] \in Nat /\ budget'.remaining[w] \in Nat
  BY <1>2, <1>5 DEF TypeOK, BudgetLedger
<1>7. budget'.remaining[w] = IF dim = w THEN budget.remaining[w] - 1 ELSE budget.remaining[w]
  BY <1>4, <1>5 DEF Reserve
<1>8. w \in DOMAIN pending'.held => pending'.held[w].maximum = 1
  BY <1>4 DEF ReservationsFor
<1>9. CASE permits = {}
  <2>1. PermitsOf(pending') \subseteq PermitsOf(pending)
    BY <1>3, <1>4, <1>9 DEF PermitsOf
  <2>2. budget'.remaining[w] <= budget.remaining[w]
    BY <1>6, <1>7
  <2>3. QED
    BY <1>2, <1>8, <2>1, <2>2, WriteKeep
<1>10. CASE request.kind = "write" /\ \E permit \in Permit : permits = {permit}
  <2>1. PICK permit \in Permit : permits = {permit}
    BY <1>10
  <2>2. dim = w /\ budget'.remaining[w] = budget.remaining[w] - 1
    BY <1>7, <1>10 DEF CountDimension
  <2>3. PermitsOf(pending') = {permit} /\ PermitsOf(pending) = {}
    BY <1>1, <1>3, <1>4, <2>1 DEF PermitsOf
  <2>4. WritesWithin(budget', pending', {}, Limit(w))
    BY <1>5, <1>6, <1>8, <2>2, <2>3, SpendWithin, FS_EmptySet DEF WriteInv
  <2>5. WritesWithin(budget', pending', admitted, AllLives)
    BY <1>5, <1>6, <1>8, <2>2, <2>3, SpendWithin DEF WriteInv
  <2>6. QED
    BY <1>2, <2>4, <2>5, WriteFrame
<1>11. QED
  BY <1>1, <1>9, <1>10

\* A resolution settles a write in full: its reservation is of one unit.
LEMMA ResolveWrites ==
  ASSUME TypeOK, WriteInv, Resolve
  PROVE  WriteInv'
<1> DEFINE w == "external_writes"
<1>1. PICK usage \in UsageReports :
        \/ \E payload \in Data : Supply(usage, payload) \/ SupplyMalformed(usage, payload)
        \/ SupplyOverdrawn(usage)
  BY DEF Resolve
<1>2. Suspended /\ pending # NoEffect /\ UNCHANGED <<start, admitted, saved, latest, rewinds>>
  BY <1>1 DEF Supply, Approves, SupplyMalformed, SupplyOverdrawn, CanSupply, Suspended
<1>3. PICK dims \in SUBSET DOMAIN pending.held :
        /\ \A d \in dims : CanSettle(budget, pending.held[d], Use(usage)[d])
        /\ SettleAndCharge(usage, dims)
        /\ pending' = NoEffect \/ pending' = pending
  <2>1. CASE \E payload \in Data : Supply(usage, payload) \/ SupplyMalformed(usage, payload)
    BY <2>1 DEF Supply, Approves, SupplyMalformed, CanSettleAll
  <2>2. CASE SupplyOverdrawn(usage)
    BY <2>2, OverdrawnDims DEF SupplyOverdrawn
  <2>3. QED
    BY <1>1, <2>1, <2>2
<1>4. TypeOK'
  BY TypeStep DEF Next
<1>5. w \in BudgetDimension /\ w \in CountDimensions
  BY DEF BudgetDimension, CountDimensions
<1>6. budget.remaining[w] \in Nat
  BY <1>5 DEF TypeOK, BudgetLedger
<1>7. w \in dims => pending.held[w].maximum = 1 /\ Use(usage)[w] = 1
  BY <1>2, <1>3, <1>5 DEF WriteInv, WritesWithin, Use
<1>8. budget'.remaining[w] =
        IF w \in dims THEN budget.remaining[w] + (pending.held[w].maximum - Use(usage)[w])
                      ELSE budget.remaining[w]
  BY <1>3, <1>5 DEF SettleAndCharge, Settle, TypeOK, BudgetLedger
<1>9. budget'.remaining[w] <= budget.remaining[w]
  BY <1>6, <1>7, <1>8
<1>10. PermitsOf(pending') \subseteq PermitsOf(pending)
  BY <1>3 DEF PermitsOf
<1>11. pending' # NoEffect /\ w \in DOMAIN pending'.held => pending'.held[w].maximum = 1
  BY <1>3 DEF WriteInv, WritesWithin
<1>12. QED
  BY <1>2, <1>4, <1>9, <1>10, <1>11, WriteKeep

\* The writes admitted so far are within the budget of all lives.
LEMMA AdmittedBound ==
  ASSUME TypeOK, WriteInv
  PROVE  /\ IsFiniteSet(admitted) /\ Cardinality(admitted) \in Nat
         /\ Cardinality(admitted) <= AllLives
<1> DEFINE all == admitted \cup PermitsOf(pending)
<1>1. IsFiniteSet(admitted) /\ IsFiniteSet(all) /\ admitted \subseteq all
  BY FS_Union DEF WriteInv, WritesWithin
<1>2. budget.remaining["external_writes"] \in Nat /\ AllLives \in Nat
  BY LimitType, AllLivesType DEF TypeOK, BudgetLedger
<1>3. Cardinality(all) + budget.remaining["external_writes"] <= AllLives
  BY DEF WriteInv, WritesWithin
<1> HIDE DEF all
<1>4. /\ Cardinality(admitted) \in Nat /\ Cardinality(all) \in Nat
      /\ Cardinality(admitted) <= Cardinality(all)
  BY <1>1, FS_Subset, FS_CardinalityType
<1>5. QED
  BY <1>1, <1>2, <1>3, <1>4

\* Writes made before, and those a continuation allows on its own, are
\* together within the sum of their bounds.
LEMMA BothWithin ==
  ASSUME NEW b, NEW p, NEW before, NEW made \in Nat, NEW bound \in Nat,
         IsFiniteSet(before), Cardinality(before) \in Nat, Cardinality(before) <= made,
         b.remaining["external_writes"] \in Nat, WritesWithin(b, p, {}, bound)
  PROVE  WritesWithin(b, p, before, made + bound)
<1> DEFINE all == before \cup PermitsOf(p)
<1>1. IsFiniteSet(PermitsOf(p)) /\ {} \cup PermitsOf(p) = PermitsOf(p)
  BY DEF WritesWithin
<1>2. Cardinality(PermitsOf(p)) + b.remaining["external_writes"] <= bound
  BY <1>1 DEF WritesWithin
<1>3. /\ IsFiniteSet(all)
      /\ Cardinality(all) =
           Cardinality(before) + Cardinality(PermitsOf(p)) - Cardinality(before \cap PermitsOf(p))
  BY <1>1, FS_Union
<1>4. IsFiniteSet(before \cap PermitsOf(p))
  BY FS_Intersection
<1>5. /\ Cardinality(before \cap PermitsOf(p)) \in Nat /\ Cardinality(PermitsOf(p)) \in Nat
      /\ Cardinality(all) \in Nat
  BY <1>1, <1>3, <1>4, FS_CardinalityType
<1> HIDE DEF all
<1>6. Cardinality(all) + b.remaining["external_writes"] <= made + bound
  BY <1>2, <1>3, <1>5
<1>7. QED
  BY <1>6 DEF WritesWithin, all

\* A larger bound only allows more.
LEMMA LaterWithin ==
  ASSUME NEW b, NEW p, NEW before, NEW bound \in Nat, NEW more \in Nat,
         IsFiniteSet(before), b.remaining["external_writes"] \in Nat,
         WritesWithin(b, p, before, bound)
  PROVE  WritesWithin(b, p, before, bound + more)
<1>1. IsFiniteSet(before \cup PermitsOf(p))
  BY FS_Union DEF WritesWithin
<1>2. Cardinality(before \cup PermitsOf(p)) \in Nat
  BY <1>1, FS_CardinalityType
<1>3. Cardinality(before \cup PermitsOf(p)) + b.remaining["external_writes"] <= bound + more
  BY <1>2 DEF WritesWithin
<1>4. QED
  BY <1>3 DEF WritesWithin

LEMMA WriteStep == TypeOK /\ WriteInv /\ [Next]_vars => WriteInv'
<1> SUFFICES ASSUME TypeOK, WriteInv, [Next]_vars PROVE WriteInv'
  OBVIOUS
<1> DEFINE w == "external_writes"
<1>1. TypeOK'
  BY TypeStep
<1>2. w \in BudgetDimension /\ budget.remaining[w] \in Nat /\ budget'.remaining[w] \in Nat
  BY <1>1 DEF TypeOK, BudgetLedger, BudgetDimension, CountDimensions
<1>3. CASE \/ Evaluate \/ Copy \/ UnwrapResult \/ Branch \/ Jump \/ Match \/ Call \/ ReturnToCaller
           \/ Validate \/ ConstructIntent \/ ConstructProposal \/ Require \/ UpdateState \/ Complete
           \/ AuthorizeAllow \/ AuthorizeDeny \/ AuthorizeRefused \/ CommitExhausted \/ Reconcile
           \/ Fault \/ StepAgain \/ UNCHANGED vars
  <2>1. UNCHANGED Unaccounted
    BY <1>3, Unaccountable
  <2>2. UNCHANGED <<admitted, latest, rewinds>>
    BY <1>3 DEF Evaluate, Copy, UnwrapResult, Branch, Jump, Match, Call, ReturnToCaller, Validate,
                ConstructIntent, ConstructProposal, Require, MoveFrames, UpdateState, Complete,
                AuthorizeAllow, AuthorizeDeny, AuthorizeRefused, CommitExhausted, Reconcile,
                Fault, StepAgain, vars
  <2>3. QED
    BY <2>1, <2>2 DEF Unaccounted, WriteInv, WritesWithin, PermitsOf, Limit, AllLives
<1>4. CASE Infer \/ Observe \/ AuthorizeSuspend \/ Commit
  BY <1>4, SuspendWrites
<1>5. CASE Resolve
  BY <1>5, ResolveWrites
<1>6. CASE \E maximums \in Declarations : ReservePendingUsage(maximums)
  <2>1. PICK maximums \in Declarations : ReservePendingUsage(maximums)
    BY <1>6
  <2>2. /\ pending # NoEffect /\ IsPendingEffect(pending)
        /\ UNCHANGED <<start, admitted, saved, latest, rewinds>>
    BY <2>1 DEF ReservePendingUsage, Suspended, TypeOK
  <2>3. w \notin DOMAIN maximums
    BY DeclarationsAssumption DEF IsMap, UsageDimensions
  <2>4. budget'.remaining[w] = budget.remaining[w]
    BY <1>2, <2>1, <2>3 DEF ReservePendingUsage, Reserve
  <2>5. /\ pending'.permits = pending.permits
        /\ w \in DOMAIN pending'.held => w \in DOMAIN pending.held /\ pending'.held[w] = pending.held[w]
    BY <2>1, <2>2, <2>3 DEF ReservePendingUsage, IsPendingEffect
  <2>6. PermitsOf(pending') \subseteq PermitsOf(pending)
    BY <2>2, <2>5 DEF PermitsOf
  <2>7. pending' # NoEffect /\ w \in DOMAIN pending'.held => pending'.held[w].maximum = 1
    BY <2>2, <2>5 DEF WriteInv, WritesWithin
  <2>8. QED
    BY <1>1, <1>2, <2>2, <2>4, <2>6, <2>7, WriteKeep
<1>7. CASE Snapshot
  <2>1. /\ pending # NoEffect /\ UNCHANGED <<start, budget, pending, rewinds>>
        /\ admitted' = admitted \cup PermitsOf(pending)
        /\ \A s \in saved' : s \in saved \/ (s.budget = budget /\ s.pending = pending)
        /\ \A s \in latest' : s.budget = budget /\ s.pending = pending
    BY <1>7 DEF Snapshot, Suspended, continuation, Continuation, PermitsOf
  <2>2. admitted' \cup PermitsOf(pending) = admitted \cup PermitsOf(pending)
    BY <2>1
  <2>3. IsFiniteSet(admitted')
    BY <2>1, FS_Union DEF WriteInv, WritesWithin
  <2>4. Limit(w)' = Limit(w) /\ AllLives' = AllLives
    BY <2>1 DEF Limit, AllLives
  <2>5. WritesWithin(budget, pending, admitted', AllLives)
    BY <2>2 DEF WriteInv, WritesWithin
  <2>6. QED
    BY <2>1, <2>3, <2>4, <2>5 DEF WriteInv, WritesWithin, PermitsOf
<1>8. CASE Restore
  <2>1. PICK s \in saved : /\ budget' = s.budget /\ pending' = s.pending
                           /\ rewinds' = IF s \in latest THEN rewinds ELSE rewinds + 1
    BY <1>8 DEF Restore
  <2>2. UNCHANGED <<start, saved, latest, admitted>> /\ Limit(w)' = Limit(w)
    BY <1>8 DEF Restore, Limit
  <2>3. rewinds \in Nat /\ Limit(w) \in Nat /\ AllLives \in Nat
    BY LimitType, AllLivesType DEF TypeOK
  <2>4. WritesWithin(budget', pending', {}, Limit(w))
    BY <2>1 DEF WriteInv
  <2>5. CASE s \in latest
    <3>1. AllLives' = AllLives
      BY <2>1, <2>2, <2>5 DEF AllLives
    <3>2. QED
      BY <2>1, <2>2, <2>4, <2>5, <3>1 DEF WriteInv, WritesWithin, PermitsOf
  <2>6. CASE s \notin latest
    <3>1. AllLives' = AllLives + Limit(w)
      <4>1. \A x, y \in Nat : x * (y + 1 + 1) = x * (y + 1) + x
        OBVIOUS
      <4>2. QED
        BY <2>1, <2>2, <2>3, <2>6, <4>1 DEF AllLives
    <3>2. IsFiniteSet(admitted) /\ Cardinality(admitted) \in Nat /\ Cardinality(admitted) <= AllLives
      BY AdmittedBound
    <3>3. WritesWithin(budget', pending', admitted, AllLives')
      BY <1>1, <2>3, <2>4, <3>1, <3>2, BothWithin DEF TypeOK, BudgetLedger, BudgetDimension, CountDimensions
    <3>4. \A r \in latest : WritesWithin(r.budget, r.pending, admitted, AllLives')
      <4>1. TAKE r \in latest
      <4>2. WritesWithin(r.budget, r.pending, admitted, AllLives) /\ IsSnapshot(r)
        BY DEF WriteInv, TypeOK
      <4>3. r.budget.remaining[w] \in Nat
        BY <4>2 DEF IsSnapshot, BudgetLedger, BudgetDimension, CountDimensions
      <4>4. QED
        BY <2>3, <3>1, <3>2, <4>2, <4>3, LaterWithin
    <3>5. QED
      BY <2>2, <2>4, <3>2, <3>3, <3>4 DEF WriteInv, WritesWithin, PermitsOf
  <2>7. QED
    BY <2>5, <2>6
<1>9. QED
  BY <1>3, <1>4, <1>5, <1>6, <1>7, <1>8 DEF Next, Step

\* The distinct writes that hosts may have performed, over every crash and
\* restore, never exceed the limit of the event, once more for each restore of
\* a snapshot that was not the last.
THEOREM WritesStayWithinBudget == Spec => []AdmittedWritesWithinBudget
<1>1. TypeOK /\ WriteInv => AdmittedWritesWithinBudget
  BY AdmittedBound DEF AdmittedWritesWithinBudget, AllLives
<1>2. QED
  BY <1>1, TypeInit, TypeStep, WriteInit, WriteStep, PTL DEF Spec
-----------------------------------------------------------------------------
(* Completion *)

MatchedAfter(h, n, proposal) == \E m \in (n + 1)..Len(h) : MatchedFor(h, m, proposal)

\* Every write answered is still owed or was matched after its answer.
ReceiptsSound(o, h) ==
  \A n \in DOMAIN h : WriteResolved(h, n) =>
    h[n].request.proposal \in o \/ MatchedAfter(h, n, h[n].request.proposal)

ReceiptInv ==
  /\ ReceiptsSound(outstanding, history)
  /\ status = "completed" => outstanding = {}
  /\ \A s \in saved : ReceiptsSound(s.outstanding, s.history)

LEMMA ReceiptInit == Init => ReceiptInv
BY DEF Init, ReceiptInv, ReceiptsSound

\* New evidence keeps the account of receipts if a write it answers becomes
\* owed and a proposal that stops being owed is matched in it.
LEMMA ReceiptsAppend ==
  ASSUME NEW h \in Seq(Event), NEW e \in Seq(Event), NEW o, NEW q, ReceiptsSound(o, h),
         \A n \in DOMAIN e : WriteResolved(e, n) => e[n].request.proposal \in q,
         \A proposal \in o : proposal \in q \/ \E m \in DOMAIN e : MatchedFor(e, m, proposal)
  PROVE  ReceiptsSound(q, h \o e)
<1> DEFINE g == h \o e
<1> SUFFICES ASSUME NEW n \in DOMAIN g, WriteResolved(g, n)
             PROVE  g[n].request.proposal \in q \/ MatchedAfter(g, n, g[n].request.proposal)
  BY DEF ReceiptsSound
<1>1. CASE n \notin DOMAIN h
  BY <1>1, Prefix DEF WriteResolved
<1>2. CASE n \in DOMAIN h
  <2>1. g[n] = h[n] /\ WriteResolved(h, n)
    BY <1>2, Prefix DEF WriteResolved
  <2> DEFINE proposal == h[n].request.proposal
  <2>2. CASE proposal \in o /\ \E m \in DOMAIN e : MatchedFor(e, m, proposal)
    <3>1. PICK m \in DOMAIN e : MatchedFor(e, m, proposal)
      BY <2>2
    <3>2. Len(h) + m \in (n + 1)..Len(g) /\ g[Len(h) + m] = e[m]
      BY <1>2, <3>1
    <3>3. QED
      BY <2>1, <3>1, <3>2 DEF MatchedAfter, MatchedFor
  <2>3. CASE MatchedAfter(h, n, proposal)
    <3>1. PICK m \in (n + 1)..Len(h) : MatchedFor(h, m, proposal)
      BY <2>3 DEF MatchedAfter
    <3>2. m \in DOMAIN h /\ m \in (n + 1)..Len(g) /\ g[m] = h[m]
      BY <1>2, <3>1
    <3>3. QED
      BY <2>1, <3>1, <3>2 DEF MatchedAfter, MatchedFor
  <2>4. proposal \in o \/ MatchedAfter(h, n, proposal)
    BY <1>2, <2>1 DEF ReceiptsSound
  <2>5. CASE proposal \in q
    BY <2>1, <2>5
  <2>6. QED
    BY <2>2, <2>3, <2>4, <2>5
<1>3. QED
  BY <1>1, <1>2

\* Evidence without a resolution, the receipts owed unchanged.
LEMMA ReceiptsQuiet ==
  ASSUME TypeOK, ReceiptInv, UNCHANGED <<outstanding, saved>>,
         NEW e \in Seq(Event), NoResolution(e), history' = history \o e,
         status' = "completed" => outstanding = {}
  PROVE  ReceiptInv'
<1>1. ReceiptsSound(outstanding, history \o e)
  <2>1. \A n \in DOMAIN e : ~WriteResolved(e, n)
    BY DEF NoResolution, WriteResolved
  <2>2. QED
    BY <2>1, ReceiptsAppend DEF ReceiptInv, TypeOK
<1>2. QED
  BY <1>1 DEF ReceiptInv

\* What the instructions that neither suspend nor reconcile leave behind.
LEMMA QuietSteps ==
  ASSUME TypeOK, ReceiptInv,
         \/ Evaluate \/ Copy \/ UnwrapResult \/ Branch \/ Jump \/ Match \/ Call \/ ReturnToCaller
         \/ Validate \/ ConstructIntent \/ ConstructProposal \/ Require \/ UpdateState \/ Complete
         \/ Fault \/ StepAgain \/ UNCHANGED vars
  PROVE  ReceiptInv'
<1>1. UNCHANGED <<outstanding, history, saved>> /\ (status' = "completed" => outstanding = {})
  <2>1. CASE \/ Evaluate \/ Copy \/ UnwrapResult \/ Branch \/ Jump \/ Match \/ Call \/ ReturnToCaller
             \/ Validate \/ ConstructIntent \/ ConstructProposal \/ Require
    BY <2>1 DEF Evaluate, Copy, UnwrapResult, Branch, Jump, Match, Call, ReturnToCaller, Validate,
                ConstructIntent, ConstructProposal, Require, MoveFrames, ReceiptInv
  <2>2. CASE UpdateState \/ Complete \/ Fault
    BY <2>2 DEF UpdateState, Complete, CanComplete, Fault, ReceiptInv, continuation
  <2>3. CASE StepAgain \/ UNCHANGED vars
    BY <2>3 DEF StepAgain, ReceiptInv, vars, continuation
  <2>4. QED
    BY <2>1, <2>2, <2>3
<1>2. QED
  BY <1>1 DEF ReceiptInv

\* Authorizing and committing without a suspension add no request or
\* resolution.
LEMMA DecisionEvidence ==
  ASSUME TypeOK, AuthorizeAllow \/ AuthorizeDeny \/ AuthorizeRefused \/ CommitExhausted
  PROVE  \E e \in Seq(Event) : NoExchange(e) /\ history' = history \o e
<1> DEFINE proposal == Slot(Instr.proposal).proposal
<1>1. Instr.proposal \in Slots /\ frames \in FrameStack /\ proposal \in Proposal
  BY AtType, HeldTypes DEF AuthorizeAllow, AuthorizeDeny, AuthorizeRefused, CommitExhausted,
                           CanAuthorize, CanCommit, WellFormedInstr
<1>2. history \in Seq(Event) /\ authority \in AuthorityLedger /\ start.event_time \in Nat
  BY StartType DEF TypeOK, WellFormed
<1>3. ASSUME NEW e \in Event, e.event \notin {"effect_requested", "effect_resolved"},
             history' = Append(history, e)
      PROVE  \E f \in Seq(Event) : NoExchange(f) /\ history' = history \o f
  <2>1. <<e>> \in Seq(Event) /\ NoExchange(<<e>>) /\ history' = history \o <<e>>
    BY <1>2, <1>3 DEF NoExchange, NoResolution
  <2>2. QED
    BY <2>1
<1>4. CASE AuthorizeDeny \/ AuthorizeRefused \/ AuthorizeAllow
  <2>1. Instr.policy \in STRING
    BY <1>4, AtType DEF AuthorizeAllow, AuthorizeDeny, AuthorizeRefused, WellFormedInstr
  <2>2. \A decision \in {"allow", "approve", "deny"} :
          Decided(decision) \in Event /\ Decided(decision).event = "policy_decision"
    BY <1>1, <2>1, EvidenceTypes DEF Decided
  <2>3. CASE AuthorizeDeny \/ AuthorizeRefused
    BY <1>3, <2>2, <2>3 DEF AuthorizeDeny, AuthorizeRefused
  <2>4. CASE AuthorizeAllow
    <3> DEFINE permit == NextPermit(authority, proposal, Instr.policy, start.event_time, "direct_allow")
    <3>1. permit \in Permit
      BY <1>1, <1>2, <2>1, AuthorityTypes DEF Evidence
    <3>2. Issued(permit) \in Event /\ Issued(permit).event = "permit_issued"
      BY <3>1, EvidenceTypes DEF Issued
    <3>3. history' = history \o <<Decided("allow"), Issued(permit)>>
      BY <2>4 DEF AuthorizeAllow
    <3> HIDE DEF permit
    <3>4. /\ <<Decided("allow"), Issued(permit)>> \in Seq(Event)
          /\ NoExchange(<<Decided("allow"), Issued(permit)>>)
      BY <2>2, <3>2 DEF NoExchange, NoResolution
    <3>5. QED
      BY <3>3, <3>4
  <2>5. QED
    BY <1>4, <2>3, <2>4
<1>5. CASE CommitExhausted
  <2>1. Instr.permit \in Slots
    BY <1>5, AtType DEF CommitExhausted, WellFormedInstr
  <2>2. Committed \in Event /\ Committed.event = "proposal_committed"
    BY <1>1, <1>5, <2>1, HeldTypes, EvidenceTypes DEF Committed, CommitExhausted, CanCommit
  <2>3. QED
    BY <1>3, <1>5, <2>2 DEF CommitExhausted
<1>6. QED
  BY <1>4, <1>5
\* Authorizing and committing add no resolution.
LEMMA DecisionSteps ==
  ASSUME TypeOK, ReceiptInv,
         AuthorizeAllow \/ AuthorizeDeny \/ AuthorizeRefused \/ CommitExhausted
  PROVE  ReceiptInv'
<1>1. status' # "completed" /\ UNCHANGED <<outstanding, saved>>
  BY DEF AuthorizeAllow, AuthorizeDeny, AuthorizeRefused, CommitExhausted, At, Ready
<1>2. QED
  BY <1>1, DecisionEvidence, ReceiptsQuiet DEF NoExchange

\* Suspending adds no resolution.
LEMMA SuspendReceipts ==
  ASSUME TypeOK, ReceiptInv, Infer \/ Observe \/ AuthorizeSuspend \/ Commit
  PROVE  ReceiptInv'
<1>1. PICK request \in EffectRequest, expected \in SUBSET Data, permits \in SUBSET Permit,
           evidence \in Seq(Event) :
        NoResolution(evidence) /\ Suspend(request, expected, permits, evidence)
  BY Suspensions DEF NoExchange
<1> DEFINE requested == [event |-> "effect_requested", request |-> request]
           e == Append(evidence, requested)
<1>2. requested \in Event /\ requested.event = "effect_requested"
  BY DEF Event
<1>3. history' = Append(history \o evidence, requested) /\ UNCHANGED <<outstanding, saved, status>>
  BY <1>1 DEF Suspend
<1> HIDE DEF requested
<1>4. e \in Seq(Event) /\ NoResolution(e)
  BY <1>1, <1>2 DEF NoResolution
<1>5. history' = history \o e
  <2>1. history \in Seq(Event) /\ history \o evidence \in Seq(Event) /\ <<requested>> \in Seq(Event)
    BY <1>2 DEF TypeOK
  <2>2. history' = (history \o evidence) \o <<requested>>
    BY <1>2, <1>3, <2>1, AppendIsConcat
  <2>3. e = evidence \o <<requested>>
    BY <1>2, AppendIsConcat
  <2>4. QED
    BY <2>1, <2>2, <2>3, ConcatAssociative
<1>6. status # "completed"
  BY DEF Infer, Observe, AuthorizeSuspend, Commit, At, Ready
<1>7. QED
  BY <1>3, <1>4, <1>5, <1>6, ReceiptsQuiet

\* A reconciliation that matches pays what it takes off the account.
LEMMA ReconcileReceipts ==
  ASSUME TypeOK, ReceiptInv, Reconcile
  PROVE  ReceiptInv'
<1> DEFINE receipt     == Slot(Instr.receipt)
           observation == Slot(Instr.observation)
           valid   == <<receipt.data, observation.data>> \in Program.validators[Instr.validator]
           decided == [event |-> "reconciliation_decision", proposal |-> receipt.proposal,
                       matched |-> valid, receipt_born |-> receipt.born,
                       observation_born |-> observation.born]
<1>1. Instr.receipt \in Slots /\ Instr.observation \in Slots /\ frames \in FrameStack
  BY AtType DEF Reconcile, WellFormedInstr
<1>2. receipt.proposal \in Proposal /\ receipt.born \in Nat /\ observation.born \in Nat
  BY <1>1, SlotShape, ValueShape DEF Reconcile, CanReconcile, HasTag
<1>3. /\ history' = Append(history, decided) /\ UNCHANGED <<saved, status>> /\ status # "completed"
      /\ outstanding' = IF valid THEN outstanding \ {receipt.proposal} ELSE outstanding
  BY DEF Reconcile, At, Ready
<1>4. decided.event = "reconciliation_decision" /\ decided.proposal = receipt.proposal
      /\ decided.matched = valid
  OBVIOUS
<1>5. decided \in Event
  <2> HIDE DEF receipt, observation
  <2>1. valid \in BOOLEAN
    OBVIOUS
  <2> HIDE DEF valid
  <2>2. QED
    BY <1>2, <2>1 DEF Event
<1> HIDE DEF receipt, observation, valid, decided
<1>6. <<decided>> \in Seq(Event) /\ history' = history \o <<decided>> /\ DOMAIN <<decided>> = {1}
      /\ <<decided>>[1] = decided
  BY <1>3, <1>5 DEF TypeOK
<1>7. ReceiptsSound(outstanding', history')
  <2>1. \A n \in DOMAIN <<decided>> : ~WriteResolved(<<decided>>, n)
    BY <1>4, <1>6 DEF WriteResolved
  <2>2. ASSUME NEW p \in outstanding, p \notin outstanding'
        PROVE  MatchedFor(<<decided>>, 1, p)
    BY <1>3, <1>4, <1>6, <2>2 DEF MatchedFor
  <2>3. QED
    BY <1>6, <2>1, <2>2, ReceiptsAppend DEF ReceiptInv, TypeOK
<1>8. QED
  BY <1>3, <1>7 DEF ReceiptInv

\* The answer to a write is owed.
LEMMA SupplyReceipts ==
  ASSUME TypeOK, ReceiptInv, NEW usage \in UsageReports, NEW payload \in Data, Supply(usage, payload)
  PROVE  ReceiptInv'
<1> DEFINE request == pending.request
           permit == ApprovalPermit
           approved == request.kind = "approval" /\ payload = TRUE
           e == IF approved THEN <<Resolved(payload), Issued(permit)>> ELSE <<Resolved(payload)>>
<1>1. /\ UNCHANGED <<saved, status>> /\ status # "completed" /\ IsPendingEffect(pending)
      /\ history' = history \o e
      /\ outstanding' = IF request.kind = "write" THEN outstanding \cup {request.proposal}
                                                  ELSE outstanding
  BY DEF Supply, Approves, CanSupply, Suspended, TypeOK
<1>2. request \in EffectRequest
  BY <1>1, PendingShape
<1>3. Resolved(payload) \in Event /\ Resolved(payload).request = request
  BY <1>2 DEF Resolved, Event
<1>4. approved => Issued(permit) \in Event
  <2>1. authority \in AuthorityLedger /\ start.event_time \in Nat
    BY StartType DEF TypeOK, WellFormed
  <2>2. approved => request.proposal \in Proposal /\ request.identity \in STRING
    BY <1>2 DEF EffectRequest, DataRequest, ProposalRequest
  <2>3. approved => permit \in Permit
    BY <2>1, <2>2, AuthorityTypes DEF ApprovalPermit, Evidence
  <2>4. QED
    BY <2>3, EvidenceTypes
<1>5. Issued(permit).event = "permit_issued"
  BY DEF Issued
<1> HIDE DEF permit
<1>6. e \in Seq(Event) /\ DOMAIN e \subseteq {1, 2} /\ e[1] = Resolved(payload)
      /\ (2 \in DOMAIN e => e[2] = Issued(permit))
  BY <1>3, <1>4
<1> HIDE DEF e
<1>7. \A n \in DOMAIN e : WriteResolved(e, n) => e[n].request.proposal \in outstanding'
  BY <1>1, <1>3, <1>5, <1>6 DEF WriteResolved
<1>8. \A p \in outstanding : p \in outstanding'
  BY <1>1
<1>9. ReceiptsSound(outstanding', history')
  BY <1>1, <1>6, <1>7, <1>8, ReceiptsAppend DEF ReceiptInv, TypeOK
<1>10. QED
  BY <1>1, <1>9 DEF ReceiptInv

LEMMA ReceiptStep == TypeOK /\ ReceiptInv /\ [Next]_vars => ReceiptInv'
<1> SUFFICES ASSUME TypeOK, ReceiptInv, [Next]_vars PROVE ReceiptInv'
  OBVIOUS
<1>1. CASE Infer \/ Observe \/ AuthorizeSuspend \/ Commit
  BY <1>1, SuspendReceipts
<1>2. CASE AuthorizeAllow \/ AuthorizeDeny \/ AuthorizeRefused \/ CommitExhausted
  BY <1>2, DecisionSteps
<1>3. CASE Reconcile
  BY <1>3, ReconcileReceipts
<1>4. CASE \E usage \in UsageReports : \E payload \in Data : Supply(usage, payload)
  BY <1>4, SupplyReceipts
<1>5. CASE \/ \E maximums \in Declarations : ReservePendingUsage(maximums)
           \/ \E usage \in UsageReports :
                SupplyOverdrawn(usage) \/ \E payload \in Data : SupplyMalformed(usage, payload)
  <2>1. UNCHANGED <<outstanding, history, saved, status>>
    BY <1>5 DEF ReservePendingUsage, SupplyOverdrawn, SupplyMalformed
  <2>2. QED
    BY <2>1 DEF ReceiptInv
<1>6. CASE Snapshot
  <2>1. /\ UNCHANGED <<outstanding, history, status>>
        /\ \A s \in saved' : s \in saved \/ (s.outstanding = outstanding /\ s.history = history)
    BY <1>6 DEF Snapshot, continuation, Continuation
  <2>2. QED
    BY <2>1 DEF ReceiptInv
<1>7. CASE Restore
  <2>1. /\ \E s \in saved : outstanding' = s.outstanding /\ history' = s.history
        /\ status' = "running" /\ UNCHANGED saved
    BY <1>7 DEF Restore
  <2>2. QED
    BY <2>1 DEF ReceiptInv
<1>8. QED
  BY <1>1, <1>2, <1>3, <1>4, <1>5, <1>6, <1>7, QuietSteps DEF Next, Step, Resolve

\* A machine completes only when each write it performed was reconciled after
\* it was answered.
THEOREM CompletionIsReconciled == Spec => []CompletionReconciled
<1>1. ReceiptInv => CompletionReconciled
  BY DEF ReceiptInv, ReceiptsSound, MatchedAfter, CompletionReconciled
<1>2. QED
  BY <1>1, TypeInit, TypeStep, ReceiptInit, ReceiptStep, PTL DEF Spec
-----------------------------------------------------------------------------
(* One effect at a time: the evidence alternates between requests and      *)
(* resolutions, and the pending effect is the one request left open.       *)

\* OneEffectAtATime of the live machine or of the snapshot it may be rolled
\* back to.
ExchangesSound(p, h) ==
  LET next == Len(h) + 1
  IN  /\ \A n \in DOMAIN h :
           /\ RequestedAt(h, n) => AllResolved(h, n)
           /\ ResolvedAt(h, n) => Awaits(h, n, h[n].request)
      /\ IF p = NoEffect THEN AllResolved(h, next) ELSE Awaits(h, next, p.request)

ExchangeInv ==
  /\ ExchangesSound(pending, history)
  /\ \A s \in saved : ExchangesSound(s.pending, s.history)
-----------------------------------------------------------------------------
(* What evidence added at the end does to the last exchange *)

\* Before an entry that was there, or the one after it, nothing changes.
LEMMA PastExchanges ==
  ASSUME NEW h \in Seq(Event), NEW e \in Seq(Event), NEW n \in 1..(Len(h) + 1)
  PROVE  /\ LastBefore(h \o e, n) = LastBefore(h, n)
         /\ AllResolved(h \o e, n) <=> AllResolved(h, n)
         /\ \A request : Awaits(h \o e, n, request) <=> Awaits(h, n, request)
<1> DEFINE g == h \o e
<1>1. /\ \A m \in DOMAIN h : m \in DOMAIN g /\ g[m] = h[m]
      /\ \A m \in DOMAIN g : m < n => m \in DOMAIN h
      /\ \A m \in DOMAIN h : m \in Int
  OBVIOUS
<1> HIDE DEF g
<1>2. LastBefore(g, n) = LastBefore(h, n)
  BY <1>1 DEF LastBefore, ExchangedAt, RequestedAt, ResolvedAt
<1>3. \A m \in LastBefore(h, n) : g[m] = h[m]
  BY <1>1 DEF LastBefore
<1>4. AllResolved(g, n) <=> AllResolved(h, n)
  BY <1>2, <1>3 DEF AllResolved, ResolvedAt
<1>5. \A request : Awaits(g, n, request) <=> Awaits(h, n, request)
  BY <1>2, <1>3 DEF Awaits, RequestedAt
<1>6. QED
  BY <1>2, <1>4, <1>5 DEF g

\* Evidence without an exchange leaves the last one the last.
LEMMA LaterExchanges ==
  ASSUME NEW h \in Seq(Event), NEW e \in Seq(Event), NoExchange(e),
         NEW n \in Nat, n > Len(h)
  PROVE  /\ LastBefore(h \o e, n) = LastBefore(h, Len(h) + 1)
         /\ AllResolved(h \o e, n) <=> AllResolved(h, Len(h) + 1)
         /\ \A request : Awaits(h \o e, n, request) <=> Awaits(h, Len(h) + 1, request)
<1> DEFINE g == h \o e
           next == Len(h) + 1
<1>1. /\ \A m \in DOMAIN h : m \in DOMAIN g /\ g[m] = h[m] /\ m < n /\ m < next
      /\ \A m \in DOMAIN h : m \in Int
  OBVIOUS
<1>2. \A m \in DOMAIN g : ExchangedAt(g, m) => m \in DOMAIN h
  <2> SUFFICES ASSUME NEW m \in DOMAIN g, m \notin DOMAIN h PROVE ~ExchangedAt(g, m)
    OBVIOUS
  <2>1. m - Len(h) \in DOMAIN e /\ g[m] = e[m - Len(h)]
    OBVIOUS
  <2>2. QED
    BY <2>1 DEF NoExchange, NoResolution, ExchangedAt, RequestedAt, ResolvedAt
<1>3. \A m \in DOMAIN h : ExchangedAt(g, m) <=> ExchangedAt(h, m)
  BY <1>1 DEF ExchangedAt, RequestedAt, ResolvedAt
<1> HIDE DEF g, next
<1>4. LastBefore(g, n) = LastBefore(h, next)
  BY <1>1, <1>2, <1>3 DEF LastBefore
<1>5. \A m \in LastBefore(h, next) : g[m] = h[m]
  BY <1>1 DEF LastBefore
<1>6. AllResolved(g, n) <=> AllResolved(h, next)
  BY <1>4, <1>5 DEF AllResolved, ResolvedAt
<1>7. \A request : Awaits(g, n, request) <=> Awaits(h, next, request)
  BY <1>4, <1>5 DEF Awaits, RequestedAt
<1>8. QED
  BY <1>4, <1>6, <1>7 DEF g, next

\* An exchange added at the end is the last one.
LEMMA NewExchange ==
  ASSUME NEW h \in Seq(Event), NEW x \in Event,
         x.event \in {"effect_requested", "effect_resolved"}
  PROVE  LET g == Append(h, x) IN LastBefore(g, Len(g) + 1) = {Len(g)} /\ g[Len(g)] = x
<1> DEFINE g == Append(h, x)
<1>1. Len(g) \in DOMAIN g /\ g[Len(g)] = x /\ DOMAIN g = 1..Len(g) /\ Len(g) \in Nat
  OBVIOUS
<1> HIDE DEF g
<1>2. ExchangedAt(g, Len(g))
  BY <1>1 DEF ExchangedAt, RequestedAt, ResolvedAt
<1>3. Len(g) \in LastBefore(g, Len(g) + 1)
  BY <1>1, <1>2 DEF LastBefore
<1>4. ASSUME NEW m \in LastBefore(g, Len(g) + 1) PROVE m = Len(g)
  BY <1>1, <1>2 DEF LastBefore
<1>5. QED
  BY <1>1, <1>3, <1>4 DEF g

\* Evidence without an exchange keeps the alternation.
LEMMA ExchangeQuiet ==
  ASSUME NEW p, NEW h \in Seq(Event), NEW e \in Seq(Event), NoExchange(e), ExchangesSound(p, h)
  PROVE  ExchangesSound(p, h \o e)
<1> DEFINE g == h \o e
<1>1. ASSUME NEW n \in DOMAIN g
      PROVE  /\ RequestedAt(g, n) => AllResolved(g, n)
             /\ ResolvedAt(g, n) => Awaits(g, n, g[n].request)
  <2>1. CASE n \in DOMAIN h
    <3>1. g[n] = h[n] /\ n \in 1..(Len(h) + 1)
      BY <2>1
    <3>2. QED
      BY <2>1, <3>1, PastExchanges DEF ExchangesSound, RequestedAt, ResolvedAt
  <2>2. CASE n \notin DOMAIN h
    <3>1. n - Len(h) \in DOMAIN e /\ g[n] = e[n - Len(h)]
      BY <2>2
    <3>2. QED
      BY <3>1 DEF NoExchange, NoResolution, RequestedAt, ResolvedAt
  <2>3. QED
    BY <2>1, <2>2
<1>2. Len(g) + 1 \in Nat /\ Len(g) + 1 > Len(h)
  OBVIOUS
<1>3. IF p = NoEffect THEN AllResolved(g, Len(g) + 1) ELSE Awaits(g, Len(g) + 1, p.request)
  BY <1>2, LaterExchanges DEF ExchangesSound
<1> HIDE DEF g
<1>4. ExchangesSound(p, g)
  BY <1>1, <1>3 DEF ExchangesSound
<1>5. QED
  BY <1>4 DEF g

\* A request made while no effect is pending is the one that stays open.
LEMMA ExchangeAsk ==
  ASSUME NEW h \in Seq(Event), NEW x \in Event, x.event = "effect_requested",
         ExchangesSound(NoEffect, h), NEW p, p # NoEffect, p.request = x.request
  PROVE  ExchangesSound(p, Append(h, x))
<1> DEFINE g == Append(h, x)
<1>1. g = h \o <<x>> /\ DOMAIN g = 1..(Len(h) + 1) /\ Len(g) = Len(h) + 1
      /\ \A n \in DOMAIN h : g[n] = h[n]
  BY AppendIsConcat
<1>2. <<x>> \in Seq(Event) /\ Len(h) \in Nat /\ DOMAIN h = 1..Len(h)
  OBVIOUS
<1>3. LastBefore(g, Len(g) + 1) = {Len(g)} /\ g[Len(g)] = x
  BY NewExchange
<1> HIDE DEF g
<1>4. \A n \in DOMAIN g : /\ AllResolved(g, n) <=> AllResolved(h, n)
                          /\ \A request : Awaits(g, n, request) <=> Awaits(h, n, request)
  BY <1>1, <1>2, PastExchanges
<1>5. ASSUME NEW n \in DOMAIN g
      PROVE  /\ RequestedAt(g, n) => AllResolved(g, n)
             /\ ResolvedAt(g, n) => Awaits(g, n, g[n].request)
  <2>1. CASE n \in DOMAIN h
    BY <1>1, <1>4, <2>1 DEF ExchangesSound, RequestedAt, ResolvedAt
  <2>2. CASE n = Len(h) + 1
    <3>1. AllResolved(g, n)
      BY <1>4, <2>2 DEF ExchangesSound
    <3>2. ~ResolvedAt(g, n)
      BY <1>1, <1>3, <2>2 DEF ResolvedAt
    <3>3. QED
      BY <3>1, <3>2
  <2>3. QED
    BY <1>1, <1>2, <2>1, <2>2
<1>6. Awaits(g, Len(g) + 1, p.request)
  BY <1>3 DEF Awaits, RequestedAt
<1>7. ExchangesSound(p, g)
  BY <1>5, <1>6 DEF ExchangesSound
<1>8. QED
  BY <1>7 DEF g

\* The answer to the pending request leaves none open.
LEMMA ExchangeAnswer ==
  ASSUME NEW h \in Seq(Event), NEW x \in Event, x.event = "effect_resolved",
         NEW p, p # NoEffect, ExchangesSound(p, h), x.request = p.request
  PROVE  ExchangesSound(NoEffect, Append(h, x))
<1> DEFINE g == Append(h, x)
<1>1. g = h \o <<x>> /\ DOMAIN g = 1..(Len(h) + 1) /\ Len(g) = Len(h) + 1
      /\ \A n \in DOMAIN h : g[n] = h[n]
  BY AppendIsConcat
<1>2. <<x>> \in Seq(Event) /\ Len(h) \in Nat /\ DOMAIN h = 1..Len(h)
  OBVIOUS
<1>3. LastBefore(g, Len(g) + 1) = {Len(g)} /\ g[Len(g)] = x
  BY NewExchange
<1> HIDE DEF g
<1>4. \A n \in DOMAIN g : /\ AllResolved(g, n) <=> AllResolved(h, n)
                          /\ \A request : Awaits(g, n, request) <=> Awaits(h, n, request)
  BY <1>1, <1>2, PastExchanges
<1>5. ASSUME NEW n \in DOMAIN g
      PROVE  /\ RequestedAt(g, n) => AllResolved(g, n)
             /\ ResolvedAt(g, n) => Awaits(g, n, g[n].request)
  <2>1. CASE n \in DOMAIN h
    BY <1>1, <1>4, <2>1 DEF ExchangesSound, RequestedAt, ResolvedAt
  <2>2. CASE n = Len(h) + 1
    <3>1. Awaits(g, n, p.request) /\ g[n] = x
      BY <1>1, <1>3, <1>4, <2>2 DEF ExchangesSound
    <3>2. QED
      BY <3>1 DEF RequestedAt
  <2>3. QED
    BY <1>1, <1>2, <2>1, <2>2
<1>6. AllResolved(g, Len(g) + 1)
  BY <1>3 DEF AllResolved, ResolvedAt
<1>7. ExchangesSound(NoEffect, g)
  BY <1>5, <1>6 DEF ExchangesSound
<1>8. QED
  BY <1>7 DEF g
-----------------------------------------------------------------------------
(* The steps *)

LEMMA ExchangeInit == Init => ExchangeInv
BY DEF Init, ExchangeInv, ExchangesSound, AllResolved, LastBefore

\* Steps that leave the pending effect, and add no request or resolution.
LEMMA ExchangeKept ==
  ASSUME TypeOK, ExchangeInv, UNCHANGED saved,
         pending = NoEffect <=> pending' = NoEffect,
         pending # NoEffect => pending'.request = pending.request,
         NEW e \in Seq(Event), NoExchange(e), history' = history \o e
  PROVE  ExchangeInv'
<1>1. ExchangesSound(pending, history')
  BY ExchangeQuiet DEF ExchangeInv, TypeOK
<1>2. ExchangesSound(pending', history')
  BY <1>1 DEF ExchangesSound
<1>3. QED
  BY <1>2 DEF ExchangeInv

\* A request of a suspending instruction is the only open one.
LEMMA SuspendExchange ==
  ASSUME TypeOK, ExchangeInv, Infer \/ Observe \/ AuthorizeSuspend \/ Commit
  PROVE  ExchangeInv'
<1>1. PICK request \in EffectRequest, expected \in SUBSET Data, permits \in SUBSET Permit,
           evidence \in Seq(Event) :
        /\ pending = NoEffect /\ NoExchange(evidence)
        /\ HasBudget(request.kind)
        /\ Instr.target \in Slots
        /\ Suspend(request, expected, permits, evidence)
  BY Suspensions
<1> DEFINE requested == [event |-> "effect_requested", request |-> request]
<1>2. requested \in Event /\ requested.event = "effect_requested" /\ requested.request = request
  BY DEF Event
<1>3. history' = Append(history \o evidence, requested) /\ UNCHANGED saved
      /\ pending'.request = request
  BY <1>1 DEF Suspend
<1> HIDE DEF requested
<1>4. pending' # NoEffect
  BY <1>1, SuspendedType
<1>5. ExchangesSound(NoEffect, history \o evidence) /\ history \o evidence \in Seq(Event)
  BY <1>1, ExchangeQuiet DEF ExchangeInv, TypeOK
<1>6. ExchangesSound(pending', history')
  BY <1>2, <1>3, <1>4, <1>5, ExchangeAsk
<1>7. QED
  BY <1>3, <1>6 DEF ExchangeInv

\* An answer resolves the pending request and is the last exchange.
LEMMA SupplyExchange ==
  ASSUME TypeOK, ExchangeInv, NEW usage \in UsageReports, NEW payload \in Data,
         Supply(usage, payload)
  PROVE  ExchangeInv'
<1> DEFINE answered == Append(history, Resolved(payload))
           permit == ApprovalPermit
<1>1. /\ UNCHANGED saved /\ pending # NoEffect /\ IsPendingEffect(pending) /\ pending' = NoEffect
      /\ history' = history \o (IF Approves(payload) THEN <<Resolved(payload), Issued(permit)>>
                                                     ELSE <<Resolved(payload)>>)
  BY DEF Supply, CanSupply, Suspended, TypeOK
<1>2. Resolved(payload) \in Event /\ Resolved(payload).event = "effect_resolved"
      /\ Resolved(payload).request = pending.request
  BY <1>1, PendingShape DEF Resolved, Event
<1>3. ExchangesSound(NoEffect, answered) /\ answered \in Seq(Event)
  BY <1>1, <1>2, ExchangeAnswer DEF ExchangeInv, TypeOK
<1>4. Approves(payload) => Issued(permit) \in Event
  <2>1. authority \in AuthorityLedger /\ start.event_time \in Nat
    BY StartType DEF TypeOK, WellFormed
  <2>2. Approves(payload) => pending.request.proposal \in Proposal /\ pending.request.identity \in STRING
    BY <1>1, PendingShape DEF Approves, EffectRequest, DataRequest, ProposalRequest
  <2>3. Approves(payload) => permit \in Permit
    BY <2>1, <2>2, AuthorityTypes DEF ApprovalPermit, Evidence
  <2>4. QED
    BY <2>3, EvidenceTypes
<1>5. Issued(permit).event = "permit_issued"
  BY DEF Issued
<1> HIDE DEF permit
<1>6. CASE Approves(payload)
  <2>1. <<Issued(permit)>> \in Seq(Event) /\ NoExchange(<<Issued(permit)>>)
    BY <1>4, <1>5, <1>6 DEF NoExchange, NoResolution
  <2>2. history' = answered \o <<Issued(permit)>>
    BY <1>1, <1>2, <1>4, <1>6 DEF TypeOK
  <2> HIDE DEF answered
  <2>3. ExchangesSound(NoEffect, history')
    BY <1>3, <2>1, <2>2, ExchangeQuiet
  <2>4. QED
    BY <1>1, <2>3 DEF ExchangeInv
<1>7. CASE ~Approves(payload)
  <2>1. history' = answered
    BY <1>1, <1>2, <1>7, AppendIsConcat DEF TypeOK
  <2>2. QED
    BY <1>1, <1>3, <2>1 DEF ExchangeInv
<1>8. QED
  BY <1>6, <1>7

\* The instructions that neither suspend nor decide leave the evidence.
LEMMA SilentSteps ==
  ASSUME TypeOK, ExchangeInv,
         \/ Evaluate \/ Copy \/ UnwrapResult \/ Branch \/ Jump \/ Match \/ Call \/ ReturnToCaller
         \/ Validate \/ ConstructIntent \/ ConstructProposal \/ Require \/ UpdateState \/ Complete
         \/ Fault \/ StepAgain \/ UNCHANGED vars
  PROVE  ExchangeInv'
<1>1. UNCHANGED Unaccounted
  BY Unaccountable
<1>2. UNCHANGED history
  <2>1. CASE \/ Evaluate \/ Copy \/ UnwrapResult \/ Branch \/ Jump \/ Match \/ Call \/ ReturnToCaller
             \/ Validate \/ ConstructIntent \/ ConstructProposal \/ Require
    BY <2>1 DEF Evaluate, Copy, UnwrapResult, Branch, Jump, Match, Call, ReturnToCaller, Validate,
                ConstructIntent, ConstructProposal, Require, MoveFrames
  <2>2. CASE UpdateState \/ Complete \/ Fault \/ StepAgain \/ UNCHANGED vars
    BY <2>2 DEF UpdateState, Complete, Fault, StepAgain, vars, continuation
  <2>3. QED
    BY <2>1, <2>2
<1>3. QED
  BY <1>1, <1>2 DEF Unaccounted, ExchangeInv

\* A reconciliation adds its decision.
LEMMA ReconcileEvidence ==
  ASSUME TypeOK, Reconcile
  PROVE  \E e \in Seq(Event) : NoExchange(e) /\ history' = history \o e
<1> DEFINE receipt     == Slot(Instr.receipt)
           observation == Slot(Instr.observation)
           valid   == <<receipt.data, observation.data>> \in Program.validators[Instr.validator]
           decided == [event |-> "reconciliation_decision", proposal |-> receipt.proposal,
                       matched |-> valid, receipt_born |-> receipt.born,
                       observation_born |-> observation.born]
<1>1. Instr.receipt \in Slots /\ Instr.observation \in Slots /\ frames \in FrameStack
  BY AtType DEF Reconcile, WellFormedInstr
<1>2. receipt.proposal \in Proposal /\ receipt.born \in Nat /\ observation.born \in Nat
  BY <1>1, SlotShape, ValueShape DEF Reconcile, CanReconcile, HasTag
<1>3. history' = Append(history, decided)
  BY DEF Reconcile
<1>4. decided.event = "reconciliation_decision"
  OBVIOUS
<1>5. decided \in Event
  <2> HIDE DEF receipt, observation
  <2>1. valid \in BOOLEAN
    OBVIOUS
  <2> HIDE DEF valid
  <2>2. QED
    BY <1>2, <2>1 DEF Event
<1> HIDE DEF receipt, observation, valid, decided
<1>6. <<decided>> \in Seq(Event) /\ NoExchange(<<decided>>) /\ history' = history \o <<decided>>
  BY <1>3, <1>4, <1>5 DEF TypeOK, NoExchange, NoResolution
<1>7. QED
  BY <1>6

\* A decision is evidence, and no exchange.
LEMMA DecisionExchange ==
  ASSUME TypeOK, ExchangeInv,
         AuthorizeAllow \/ AuthorizeDeny \/ AuthorizeRefused \/ CommitExhausted \/ Reconcile
  PROVE  ExchangeInv'
<1>1. UNCHANGED <<pending, saved>>
  BY DEF AuthorizeAllow, AuthorizeDeny, AuthorizeRefused, CommitExhausted, Reconcile
<1>2. PICK e \in Seq(Event) : NoExchange(e) /\ history' = history \o e
  <2>1. CASE Reconcile
    BY <2>1, ReconcileEvidence
  <2>2. QED
    BY <2>1, DecisionEvidence
<1>3. QED
  BY <1>1, <1>2, ExchangeKept

LEMMA ExchangeStep == TypeOK /\ ExchangeInv /\ [Next]_vars => ExchangeInv'
<1> SUFFICES ASSUME TypeOK, ExchangeInv, [Next]_vars PROVE ExchangeInv'
  OBVIOUS
<1>1. CASE Infer \/ Observe \/ AuthorizeSuspend \/ Commit
  BY <1>1, SuspendExchange
<1>2. CASE AuthorizeAllow \/ AuthorizeDeny \/ AuthorizeRefused \/ CommitExhausted \/ Reconcile
  BY <1>2, DecisionExchange
<1>3. CASE \E usage \in UsageReports : \E payload \in Data : Supply(usage, payload)
  BY <1>3, SupplyExchange
<1>4. CASE \E maximums \in Declarations : ReservePendingUsage(maximums)
  <2>1. /\ UNCHANGED <<history, saved>> /\ pending # NoEffect /\ IsPendingEffect(pending)
        /\ pending'.request = pending.request
    BY <1>4 DEF ReservePendingUsage, Suspended, TypeOK, IsPendingEffect
  <2>2. pending' # NoEffect
    BY <1>4, ReservePendingTypes
  <2>3. QED
    BY <2>1, <2>2 DEF ExchangeInv, ExchangesSound
<1>5. CASE \E usage \in UsageReports :
             SupplyOverdrawn(usage) \/ \E payload \in Data : SupplyMalformed(usage, payload)
  <2>1. UNCHANGED <<history, saved, pending>>
    BY <1>5 DEF SupplyOverdrawn, SupplyMalformed
  <2>2. QED
    BY <2>1 DEF ExchangeInv
<1>6. CASE Snapshot
  <2>1. /\ UNCHANGED <<pending, history>>
        /\ \A s \in saved' : s \in saved \/ (s.pending = pending /\ s.history = history)
    BY <1>6 DEF Snapshot, continuation, Continuation
  <2>2. QED
    BY <2>1 DEF ExchangeInv
<1>7. CASE Restore
  <2>1. /\ \E s \in saved : pending' = s.pending /\ history' = s.history
        /\ UNCHANGED saved
    BY <1>7 DEF Restore
  <2>2. QED
    BY <2>1 DEF ExchangeInv
<1>8. QED
  BY <1>1, <1>2, <1>3, <1>4, <1>5, <1>6, <1>7, SilentSteps DEF Next, Step, Resolve

\* Requests and resolutions alternate in the evidence of every machine, and
\* the effect it waits for is the one request that was not resolved.
THEOREM EffectsOneAtATime == Spec => []OneEffectAtATime
<1>1. ExchangeInv => OneEffectAtATime
  BY DEF ExchangeInv, ExchangesSound, OneEffectAtATime
<1>2. QED
  BY <1>1, TypeInit, TypeStep, ExchangeInit, ExchangeStep, PTL DEF Spec
-----------------------------------------------------------------------------
(***************************************************************************)
(* Machine implements GovernedEffects: the initial state maps to an initial*)
(* state, and every step maps to a step or a stutter.  The mapping needs   *)
(* the soundness of the permits, because a permit counts as fresh only if  *)
(* its sequence number was never used.                                     *)
(***************************************************************************)

Phase     == IF Suspended THEN "waiting" ELSE status
Wanted    == IF pending = NoEffect THEN NoEffect ELSE pending.request
Usable    == authority.issued \ authority.consumed
Recovery  == {[request |-> s.pending.request,
               usable  |-> s.authority.issued \ s.authority.consumed,
               spent   |-> s.authority.consumed,
               owed    |-> s.outstanding] : s \in saved}

Mapped == <<Phase, Wanted, Usable, authority.consumed, outstanding, Recovery>>

\* The mapping, named.
LEMMA MappedVars == Governed!gvars = Mapped
BY DEF Governed!gvars, Mapped, Phase, Wanted, Usable, Recovery

LEMMA RefinesInit == Init => Governed!GInit
BY DEF Init, Governed!GInit, EmptyLedger, Suspended

\* A step that changes nothing the mapping looks at.
LEMMA Stutters ==
  ASSUME UNCHANGED <<status, authority, outstanding, saved>>, pending' = pending
  PROVE  UNCHANGED Mapped
BY DEF Mapped, Phase, Wanted, Usable, Recovery, Suspended

\* The steps with no counterpart in the abstract specification.
LEMMA RefinesLocal ==
  ASSUME TypeOK,
         \/ Evaluate \/ Copy \/ UnwrapResult \/ Branch \/ Jump \/ Match \/ Call \/ ReturnToCaller
         \/ Validate \/ ConstructIntent \/ ConstructProposal \/ Require \/ UpdateState
         \/ AuthorizeDeny \/ StepAgain \/ UNCHANGED vars
         \/ \E usage \in UsageReports :
              SupplyOverdrawn(usage) \/ \E payload \in Data : SupplyMalformed(usage, payload)
  PROVE  UNCHANGED Mapped
<1>1. CASE \/ Evaluate \/ Copy \/ UnwrapResult \/ Branch \/ Jump \/ Match \/ Call \/ ReturnToCaller
           \/ Validate \/ ConstructIntent \/ ConstructProposal \/ Require
  BY <1>1, Stutters
     DEF Evaluate, Copy, UnwrapResult, Branch, Jump, Match, Call, ReturnToCaller, Validate,
         ConstructIntent, ConstructProposal, Require, MoveFrames
<1>2. CASE UpdateState \/ AuthorizeDeny
  BY <1>2, Stutters DEF UpdateState, AuthorizeDeny
<1>3. CASE StepAgain \/ UNCHANGED vars
  BY <1>3, Stutters DEF StepAgain, vars, continuation
<1>4. CASE \E usage \in UsageReports :
             SupplyOverdrawn(usage) \/ \E payload \in Data : SupplyMalformed(usage, payload)
  BY <1>4, Stutters DEF SupplyOverdrawn, SupplyMalformed
<1>5. QED
  BY <1>1, <1>2, <1>3, <1>4

\* Reserving usage keeps the request of the pending effect.
LEMMA RefinesReserve ==
  ASSUME TypeOK, NEW maximums \in Declarations, ReservePendingUsage(maximums)
  PROVE  UNCHANGED Mapped
<1>1. pending # NoEffect /\ IsPendingEffect(pending) /\ status = "running"
  BY DEF ReservePendingUsage, Suspended, TypeOK
<1>2. pending'.request = pending.request /\ UNCHANGED <<status, authority, outstanding, saved>>
  BY <1>1 DEF ReservePendingUsage, IsPendingEffect
<1>3. pending' # NoEffect
  BY ReservePendingTypes
<1>4. QED
  BY <1>1, <1>2, <1>3 DEF Mapped, Phase, Wanted, Usable, Recovery, Suspended

\* The mapping of a machine that runs, and of one that waits.
LEMMA MappedRunning ==
  ASSUME Ready
  PROVE  Phase = "running" /\ Wanted = NoEffect
BY DEF Ready, Phase, Wanted, Suspended

\* A suspension maps to a wait for its request.
LEMMA MappedSuspension ==
  ASSUME TypeOK, NEW request \in EffectRequest, NEW expected \in SUBSET Data,
         NEW permits \in SUBSET Permit, NEW evidence, Ready,
         Instr.target \in Slots, HasBudget(request.kind),
         Suspend(request, expected, permits, evidence)
  PROVE  /\ Phase = "running" /\ Phase' = "waiting" /\ Wanted' = request
         /\ UNCHANGED <<outstanding, Recovery>>
<1>1. pending' # NoEffect
  BY SuspendedType
<1>2. pending'.request = request /\ status' = status /\ UNCHANGED <<outstanding, saved>>
  BY DEF Suspend
<1>3. QED
  BY <1>1, <1>2, MappedRunning DEF Phase, Wanted, Recovery, Suspended, Ready

\* Consuming a permit spends it.
Consumes(permit) ==
  /\ permit \in Usable
  /\ Usable' = Usable \ {permit}
  /\ authority.consumed' = authority.consumed \cup {permit}

LEMMA ConsumeMaps ==
  ASSUME TypeOK, NEW proposal, NEW permit, NEW now,
         CanConsume(authority, proposal, permit, now), authority' = Consume(authority, permit)
  PROVE  Consumes(permit)
<1>1. /\ authority'.issued = authority.issued
      /\ authority'.consumed = authority.consumed \cup {permit}
  BY DEF TypeOK, AuthorityLedger, Consume
<1>2. QED
  BY <1>1 DEF Consumes, Usable, CanConsume

\* The model, the read and the request for approval are asked for; none of
\* them touches a permit.
LEMMA RefinesAsk ==
  ASSUME TypeOK, Infer \/ Observe \/ AuthorizeSuspend
  PROVE  Governed!Ask(Wanted')
<1>1. PICK request \in EffectRequest, expected \in SUBSET Data, permits \in SUBSET Permit,
           evidence \in Seq(Event) :
        /\ request.kind = "write" => At("commit")
        /\ Instr.target \in Slots /\ HasBudget(request.kind)
        /\ Suspend(request, expected, permits, evidence)
  BY Suspensions
<1>2. Ready /\ ~At("commit") /\ UNCHANGED authority
  BY DEF Infer, Observe, AuthorizeSuspend, At
<1>3. /\ Phase = "running" /\ Phase' = "waiting" /\ Wanted' = request
      /\ UNCHANGED <<outstanding, Recovery>>
  BY <1>1, <1>2, MappedSuspension
<1>4. QED
  BY <1>1, <1>2, <1>3 DEF Governed!Ask, Phase, Wanted, Usable, Recovery

\* A commit spends its permit and offers the write of the permit's proposal.
LEMMA RefinesCommit ==
  ASSUME TypeOK, Commit
  PROVE  \E permit \in Usable : Governed!Offer(permit, Wanted')
<1> DEFINE proposal == Slot(Instr.proposal).proposal
           permit   == Slot(Instr.permit).permit
           request  == [kind |-> "write", identity |-> proposal.action, proposal |-> proposal]
           expected == Typed(Program.tools[proposal.action].result)
<1>1. /\ Ready /\ HasBudget("write") /\ authority' = Consume(authority, permit)
      /\ CanConsume(authority, proposal, permit, start.event_time)
      /\ Suspend(request, expected, {permit}, <<Committed>>)
  BY DEF Commit, CanCommit, At
<1>2. Instr.proposal \in Slots /\ Instr.permit \in Slots /\ Instr.target \in Slots /\ frames \in FrameStack
  BY AtType DEF Commit, WellFormedInstr
<1>3. proposal \in Proposal /\ permit \in Permit
  BY <1>2, HeldTypes DEF Commit, CanCommit
<1>4. request \in EffectRequest /\ expected \in SUBSET Data
  BY <1>3 DEF Proposal, EffectRequest, ProposalRequest, Typed
<1>5. request.kind = "write" /\ request.proposal = proposal /\ {permit} \in SUBSET Permit
  BY <1>3
<1> HIDE DEF request, expected
<1>6. /\ Phase = "running" /\ Phase' = "waiting" /\ Wanted' = request
      /\ UNCHANGED <<outstanding, Recovery>>
  BY <1>1, <1>2, <1>4, <1>5, MappedSuspension
<1>7. Consumes(permit)
  BY <1>1, ConsumeMaps
<1>8. permit.proposal = proposal
  BY <1>1 DEF CanConsume
<1>9. QED
  BY <1>5, <1>6, <1>7, <1>8
     DEF Consumes, Governed!Offer, Governed!Spend, Phase, Wanted, Usable, Recovery

\* A permit with the next sequence number was never issued.
LEMMA NextIsFresh ==
  ASSUME TypeOK, PermitInv, NEW permit, permit.sequence = authority.next_sequence
  PROVE  permit \notin authority.issued /\ permit \notin authority.consumed
BY DEF TypeOK, AuthorityLedger, Permit, PermitInv, PermitsSound

\* An allow rule grants a fresh permit.
LEMMA RefinesGrant ==
  ASSUME TypeOK, PermitInv, AuthorizeAllow
  PROVE  \E permit \in Usable' : Governed!Grant(permit)
<1> DEFINE permit == NextPermit(authority, Slot(Instr.proposal).proposal, Instr.policy,
                                start.event_time, "direct_allow")
<1>1. permit.sequence = authority.next_sequence
  BY DEF NextPermit
<1>2. /\ Ready /\ authority' = Issue(authority, permit)
      /\ UNCHANGED <<outstanding, pending, status, saved>>
  BY DEF AuthorizeAllow, At
<1> HIDE DEF permit
<1>3. permit \notin authority.issued /\ permit \notin authority.consumed
  BY <1>1, NextIsFresh
<1>4. /\ authority'.issued = authority.issued \cup {permit}
      /\ authority'.consumed = authority.consumed
  BY <1>2 DEF TypeOK, AuthorityLedger, Issue
<1>5. Usable' = Usable \cup {permit} /\ permit \in Usable'
  BY <1>3, <1>4 DEF Usable
<1>6. Phase = "running" /\ UNCHANGED <<Phase, Wanted, outstanding, Recovery>>
  BY <1>2, MappedRunning DEF Phase, Wanted, Suspended, Recovery
<1>7. QED
  BY <1>3, <1>4, <1>5, <1>6
     DEF Governed!Grant, Governed!Fresh, Phase, Wanted, Usable, Recovery

\* A machine that fails maps to a run that dies, with or without its permit.
LEMMA RefinesFailure ==
  ASSUME TypeOK, AuthorizeRefused \/ CommitExhausted \/ Fault
  PROVE  Governed!Abort \/ \E permit \in Usable : Governed!Waste(permit)
<1>1. /\ Ready /\ status' = "failed" /\ UNCHANGED <<outstanding, pending, saved>>
  BY DEF AuthorizeRefused, CommitExhausted, Fault, At, continuation
<1>2. /\ Phase = "running" /\ Phase' = "failed" /\ UNCHANGED <<Wanted, outstanding, Recovery>>
  BY <1>1, MappedRunning DEF Phase, Wanted, Suspended, Recovery
<1>3. CASE AuthorizeRefused \/ Fault
  <2>1. UNCHANGED authority
    BY <1>3 DEF AuthorizeRefused, Fault, continuation
  <2>2. QED
    BY <1>2, <2>1 DEF Governed!Abort, Phase, Wanted, Usable, Recovery
<1>4. CASE CommitExhausted
  <2> DEFINE permit == Slot(Instr.permit).permit
  <2>1. /\ authority' = Consume(authority, permit)
        /\ CanConsume(authority, Slot(Instr.proposal).proposal, permit, start.event_time)
    BY <1>4 DEF CommitExhausted, CanCommit
  <2>2. Consumes(permit)
    BY <2>1, ConsumeMaps
  <2>3. QED
    BY <1>2, <2>2
       DEF Consumes, Governed!Waste, Governed!Spend, Phase, Wanted, Usable, Recovery
<1>5. QED
  BY <1>3, <1>4

\* The handler's return finishes a run that owes nothing.
LEMMA RefinesFinish ==
  ASSUME TypeOK, Complete
  PROVE  Governed!Finish
<1>1. /\ Ready /\ status' = "completed" /\ outstanding = {}
      /\ UNCHANGED <<outstanding, pending, saved, authority>>
  BY DEF Complete, CanComplete, At
<1>2. QED
  BY <1>1, MappedRunning DEF Governed!Finish, Phase, Wanted, Suspended, Recovery, Usable

\* A successful reconciliation of an owed proposal is the abstract one; of a
\* proposal already reconciled, or a failed one, a stutter.
LEMMA RefinesReconcile ==
  ASSUME TypeOK, Reconcile
  PROVE  (\E proposal \in outstanding : Governed!Reconciles(proposal)) \/ UNCHANGED Mapped
<1> DEFINE proposal == Slot(Instr.receipt).proposal
<1>1. /\ Ready /\ UNCHANGED <<pending, status, saved, authority>>
      /\ outstanding' = outstanding \ {proposal} \/ outstanding' = outstanding
  BY DEF Reconcile, At
<1>2. Phase = "running" /\ UNCHANGED <<Phase, Wanted, Usable, authority, Recovery>>
  BY <1>1, MappedRunning DEF Phase, Wanted, Suspended, Recovery, Usable
<1>3. CASE proposal \in outstanding /\ outstanding' = outstanding \ {proposal}
  BY <1>2, <1>3 DEF Governed!Reconciles, Phase, Wanted, Usable, Recovery
<1>4. CASE outstanding' = outstanding
  BY <1>2, <1>4 DEF Mapped
<1>5. QED
  BY <1>1, <1>3, <1>4

\* A supplied resolution answers the request; a person's yes grants a fresh
\* permit for the proposal asked about.
LEMMA RefinesSupply ==
  ASSUME TypeOK, PermitInv, NEW usage \in UsageReports, NEW payload \in Data,
         Supply(usage, payload)
  PROVE  Governed!Answer
<1> DEFINE request == pending.request
           permit  == ApprovalPermit
           approved == request.kind = "approval" /\ payload = TRUE
<1>1. /\ pending # NoEffect /\ status = "running" /\ pending' = NoEffect
      /\ UNCHANGED <<status, saved>>
      /\ authority' = IF approved THEN Issue(authority, permit) ELSE authority
      /\ outstanding' = IF request.kind = "write" THEN outstanding \cup {request.proposal}
                                                  ELSE outstanding
  BY DEF Supply, Approves, CanSupply, Suspended
<1>2. /\ Phase = "waiting" /\ Wanted = request
      /\ Phase' = "running" /\ Wanted' = NoEffect /\ UNCHANGED Recovery
  BY <1>1 DEF Phase, Wanted, Suspended, Recovery
<1>3. permit.sequence = authority.next_sequence /\ permit.proposal = request.proposal
  BY DEF ApprovalPermit, NextPermit
<1> HIDE DEF permit, request
<1>4. permit \notin authority.issued /\ permit \notin authority.consumed
  BY <1>3, NextIsFresh
<1>5. CASE approved
  <2>1. /\ authority'.issued = authority.issued \cup {permit}
        /\ authority'.consumed = authority.consumed
    BY <1>1, <1>5 DEF TypeOK, AuthorityLedger, Issue
  <2>2. Usable' = Usable \cup {permit} /\ permit \in Usable'
    BY <1>4, <2>1 DEF Usable
  <2>3. permit \notin Usable \cup authority.consumed
    BY <1>4 DEF Usable
  <2>4. QED
    BY <1>1, <1>2, <1>3, <1>5, <2>1, <2>2, <2>3
       DEF Governed!Answer, Governed!Fresh, Phase, Wanted, Usable, Recovery
<1>6. CASE ~approved
  BY <1>1, <1>2, <1>6 DEF Governed!Answer, Phase, Wanted, Usable, Recovery
<1>7. QED
  BY <1>5, <1>6

LEMMA RefinesSnapshot ==
  ASSUME TypeOK, Snapshot
  PROVE  Governed!Checkpoint
<1>1. /\ pending # NoEffect /\ status = "running" /\ saved' = saved \cup {Continuation}
      /\ UNCHANGED <<status, authority, outstanding, pending>>
  BY DEF Snapshot, Suspended, continuation
<1> DEFINE checkpoint(s) == [request |-> s.pending.request,
                             usable  |-> s.authority.issued \ s.authority.consumed,
                             spent   |-> s.authority.consumed,
                             owed    |-> s.outstanding]
<1>2. Phase = "waiting" /\ Wanted = pending.request
  BY <1>1 DEF Phase, Wanted, Suspended
<1>3. checkpoint(Continuation) = [request |-> Wanted, usable |-> Usable,
                                  spent |-> authority.consumed, owed |-> outstanding]
  BY <1>2 DEF Continuation, Usable
<1>4. Recovery = {checkpoint(s) : s \in saved} /\ Recovery' = {checkpoint(s) : s \in saved'}
  BY DEF Recovery
<1> HIDE DEF checkpoint
<1>5. Recovery' = Recovery \cup {[request |-> Wanted, usable |-> Usable,
                                  spent |-> authority.consumed, owed |-> outstanding]}
  <2>1. {checkpoint(s) : s \in saved \cup {Continuation}}
          = {checkpoint(s) : s \in saved} \cup {checkpoint(Continuation)}
    OBVIOUS
  <2>2. QED
    BY <1>1, <1>3, <1>4, <2>1
<1>6. UNCHANGED <<Phase, Wanted, Usable>>
  BY <1>1 DEF Phase, Wanted, Suspended, Usable
<1>7. QED
  BY <1>1, <1>2, <1>5, <1>6 DEF Governed!Checkpoint, Phase, Wanted, Usable, Recovery

LEMMA RefinesRestore ==
  ASSUME TypeOK, Restore
  PROVE  Governed!Rollback
<1>1. PICK s \in saved : /\ authority' = s.authority /\ outstanding' = s.outstanding
                        /\ pending' = s.pending
  BY DEF Restore
<1>2. status' = "running" /\ saved' = saved
  BY DEF Restore
<1>3. pending' # NoEffect
  BY <1>1, SentinelAssumption DEF TypeOK, IsSnapshot
<1>4. Phase' = "waiting" /\ Wanted' = s.pending.request /\ Usable' = s.authority.issued \ s.authority.consumed
  BY <1>1, <1>2, <1>3 DEF Phase, Wanted, Suspended, Usable
<1>5. Recovery' = Recovery
  BY <1>2 DEF Recovery
<1> DEFINE c == [request |-> s.pending.request,
                 usable  |-> s.authority.issued \ s.authority.consumed,
                 spent   |-> s.authority.consumed,
                 owed    |-> s.outstanding]
<1>6. c \in Recovery
  BY DEF Recovery
<1>7. /\ Wanted' = c.request /\ Usable' = c.usable
      /\ authority'.consumed = c.spent /\ outstanding' = c.owed
  BY <1>1, <1>4
<1> HIDE DEF c
<1>8. QED
  BY <1>4, <1>5, <1>6, <1>7 DEF Governed!Rollback, Phase, Wanted, Usable, Recovery

LEMMA RefinesStep ==
  TypeOK /\ PermitInv /\ [Next]_vars => [Governed!GNext]_(Governed!gvars)
<1> SUFFICES ASSUME TypeOK, PermitInv, [Next]_vars
             PROVE  Governed!GNext \/ UNCHANGED Mapped
  BY MappedVars DEF Mapped, Governed!gvars, Phase, Wanted, Usable, Recovery
<1> USE DEF Governed!GNext
<1>1. CASE \/ Evaluate \/ Copy \/ UnwrapResult \/ Branch \/ Jump \/ Match \/ Call \/ ReturnToCaller
           \/ Validate \/ ConstructIntent \/ ConstructProposal \/ Require \/ UpdateState
           \/ AuthorizeDeny \/ StepAgain \/ UNCHANGED vars
  BY <1>1, RefinesLocal
<1>2. CASE Infer \/ Observe \/ AuthorizeSuspend
  BY <1>2, RefinesAsk DEF Wanted
<1>3. CASE AuthorizeAllow
  BY <1>3, RefinesGrant DEF Usable
<1>4. CASE AuthorizeRefused \/ CommitExhausted \/ Fault
  BY <1>4, RefinesFailure DEF Usable
<1>5. CASE Commit
  BY <1>5, RefinesCommit DEF Usable, Wanted
<1>6. CASE Complete
  BY <1>6, RefinesFinish
<1>7. CASE Reconcile
  BY <1>7, RefinesReconcile
<1>8. CASE Resolve
  <2>1. PICK usage \in UsageReports :
          \/ \E payload \in Data : Supply(usage, payload) \/ SupplyMalformed(usage, payload)
          \/ SupplyOverdrawn(usage)
    BY <1>8 DEF Resolve
  <2>2. CASE \E payload \in Data : Supply(usage, payload)
    BY <2>2, RefinesSupply
  <2>3. CASE SupplyOverdrawn(usage) \/ \E payload \in Data : SupplyMalformed(usage, payload)
    BY <2>3, RefinesLocal
  <2>4. QED
    BY <2>1, <2>2, <2>3
<1>9. CASE \E maximums \in Declarations : ReservePendingUsage(maximums)
  BY <1>9, RefinesReserve
<1>10. CASE Snapshot
  BY <1>10, RefinesSnapshot
<1>11. CASE Restore
  BY <1>11, RefinesRestore
<1>12. QED
  BY <1>1, <1>2, <1>3, <1>4, <1>5, <1>6, <1>7, <1>8, <1>9, <1>10, <1>11 DEF Next, Step

\* The machine implements the authority protocol of GovernedEffects: whatever
\* instructions, partial failures, snapshots and restores a run goes through,
\* a write is offered only by spending a permit granted for its proposal and
\* not spent since the snapshot last restored, nor before that snapshot was
\* taken, and a run finishes owing no reconciliation.
THEOREM MachineRefines == Spec => RefinesGovernedEffects
<1>1. Spec => Governed!GInit /\ [][Governed!GNext]_(Governed!gvars)
  BY TypeInit, TypeStep, PermitInit, PermitStep, RefinesInit, RefinesStep, PTL DEF Spec
<1>2. QED
  BY <1>1 DEF RefinesGovernedEffects, Governed!GSpec
===============================================================================
