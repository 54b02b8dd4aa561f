------------------------------- MODULE Budget -------------------------------
(***************************************************************************)
(* The resource ledger of one agent event (crates/aster-runtime/src/       *)
(* budget.rs): capacity is reserved before an external effect is offered   *)
(* and settled with the actual use once the effect is resolved.            *)
(*                                                                         *)
(* The ledger is a record so that the machine that owns it can keep it in  *)
(* one variable.  u64 arithmetic is modelled on Nat: a reservation never   *)
(* exceeds what remains and a release never exceeds what was reserved, so  *)
(* neither the checked subtraction nor the saturating addition of the code *)
(* can leave the range (MachineSafetyProofs!BudgetIsConserved).           *)
(***************************************************************************)
EXTENDS Naturals

\* Dimensions reserved one unit at a time, by the instruction that yields.
CountDimensions == {"model_calls", "external_reads", "external_writes", "approvals"}

\* Dimensions whose maximum the host or fixture declares per request.
UsageDimensions == {"model_tokens", "money_microunits"}

BudgetDimension == CountDimensions \cup UsageDimensions

Reservation == [id : Nat, dimension : BudgetDimension, maximum : Nat]

BudgetLedger == [remaining    : [BudgetDimension -> Nat],
                 reservations : SUBSET Reservation,
                 next_id      : Nat]

\* Omitted dimensions have zero capacity.
NewBudget(limits) ==
  [remaining    |-> [d \in BudgetDimension |-> IF d \in DOMAIN limits THEN limits[d] ELSE 0],
   reservations |-> {},
   next_id      |-> 0]

\* Faulty variant: capacity is not checked.
CanAlwaysReserve(b, dimension, maximum) == TRUE

CanReserve(b, dimension, maximum) == maximum <= b.remaining[dimension]

\* Position of a usage name in the sorted map that reserve and settle walk.
UsageRank(dimension) == IF dimension = "money_microunits" THEN 1 ELSE 0

\* The reservations that a map of maximums obtains, keyed by dimension;
\* identities are handed out in name order.
ReservationsFor(b, maximums) ==
  [d \in DOMAIN maximums |->
     [id        |-> b.next_id + (IF DOMAIN maximums = UsageDimensions THEN UsageRank(d) ELSE 0),
      dimension |-> d,
      maximum   |-> maximums[d]]]

\* Budget::reserve on each dimension of `maximums' (one for a count
\* dimension, several for the variable usage of a pending effect).
Reserve(b, maximums) ==
  LET held == ReservationsFor(b, maximums)
  IN  [remaining    |-> [d \in BudgetDimension |->
                           IF d \in DOMAIN maximums THEN b.remaining[d] - maximums[d]
                                                    ELSE b.remaining[d]],
       reservations |-> b.reservations \cup {held[d] : d \in DOMAIN held},
       next_id      |-> b.next_id + (IF DOMAIN maximums = UsageDimensions THEN 2 ELSE 1)]

\* Settlement succeeds only for a reservation still on the ledger and for a
\* use within its maximum (equality is accepted).
CanSettle(b, reservation, actual) ==
  /\ actual <= reservation.maximum
  /\ reservation \in b.reservations

\* Faulty variants: the unused part of a reservation is not released; the
\* reservation stays on the ledger.
SettleWithoutRelease(b, held, actual, dims) ==
  [b EXCEPT !.reservations = @ \ {held[d] : d \in dims}]

SettleAndKeep(b, held, actual, dims) ==
  [b EXCEPT !.remaining = [d \in BudgetDimension |->
                             IF d \in dims THEN b.remaining[d] + (held[d].maximum - actual[d])
                                           ELSE b.remaining[d]]]

\* Budget::settle on the reservations held for the dimensions `dims'.
Settle(b, held, actual, dims) ==
  [b EXCEPT !.remaining    = [d \in BudgetDimension |->
                                IF d \in dims THEN b.remaining[d] + (held[d].maximum - actual[d])
                                              ELSE b.remaining[d]],
            !.reservations = @ \ {held[d] : d \in dims}]
=============================================================================
