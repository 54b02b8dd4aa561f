------------------------------ MODULE Authority -----------------------------
(***************************************************************************)
(* Proposals, permits and the ledger that issues and consumes permits      *)
(* (crates/aster-runtime/src/authority.rs).                                *)
(*                                                                         *)
(* A digest is modelled by the content it is computed from: two proposals  *)
(* have the same hash exactly when they have the same content, and two     *)
(* permits the same identity exactly when all the fields of the id         *)
(* material agree.  The grant fingerprint is fixed for a machine's life    *)
(* and is left out of both.  Instants are naturals; the code compares      *)
(* fixed-width UTC strings, whose lexical order is the order of time.      *)
(***************************************************************************)
EXTENDS Naturals

CONSTANT Data    \* the JSON values programs, drivers and approvers exchange

Evidence == {"direct_allow", "human_approval"}

\* The content that Proposal::new seals.
Proposal == [action : STRING, data : Data, intent : Data, expires_at : Nat]

Permit == [sequence  : Nat,    proposal   : Proposal, policy   : STRING,
           issued_at : Nat,    expires_at : Nat,      evidence : Evidence]

AuthorityLedger == [next_sequence : Nat,
                    issued        : SUBSET Permit,
                    consumed      : SUBSET Permit]

EmptyLedger == [next_sequence |-> 0, issued |-> {}, consumed |-> {}]

\* The permit that AuthorityLedger::issue returns ...
NextPermit(ledger, proposal, policy, issued_at, evidence) ==
  [sequence  |-> ledger.next_sequence, proposal   |-> proposal,
   policy    |-> policy,               issued_at  |-> issued_at,
   expires_at |-> proposal.expires_at, evidence   |-> evidence]

\* ... and the ledger it leaves.
Issue(ledger, permit) ==
  [ledger EXCEPT !.next_sequence = @ + 1, !.issued = @ \cup {permit}]

\* Faulty variant: a consumed permit is accepted again.
CanConsumeAgain(ledger, proposal, permit, now) ==
  /\ permit \in ledger.issued
  /\ permit.proposal = proposal
  /\ now <= permit.expires_at
  /\ now <= proposal.expires_at

\* The checks of AuthorityLedger::consume, in its order: issued here, bound
\* to this proposal, neither permit nor intent expired, not yet consumed.
CanConsume(ledger, proposal, permit, now) ==
  /\ permit \in ledger.issued
  /\ permit.proposal = proposal
  /\ now <= permit.expires_at
  /\ now <= proposal.expires_at
  /\ permit \notin ledger.consumed

\* Faulty variant: consumption is not recorded.
ConsumeUnrecorded(ledger, permit) == ledger

Consume(ledger, permit) == [ledger EXCEPT !.consumed = @ \cup {permit}]
=============================================================================
