--------------------------- MODULE GovernedEffects --------------------------
(***************************************************************************)
(* What the machine promises its caller about authority, with no program,  *)
(* no budget and no values.  A run alternates between running and waiting  *)
(* for one answer.  A write is offered only by spending a permit that was  *)
(* granted for exactly that proposal and never spent before; an answered   *)
(* write is owed a reconciliation; and a run finishes owing nothing.  A    *)
(* waiting run may be checkpointed and any checkpoint later rolled back to.*)
(*                                                                         *)
(* Machine implements this specification (Machine!Governed): the           *)
(* operations are those of machine.rs.                                     *)
(***************************************************************************)
CONSTANT Nothing    \* no request

VARIABLES
  phase,       \* running, waiting, completed or failed
  request,     \* what is being waited for
  usable,      \* permits granted and not yet spent
  spent,       \* permits spent
  owed,        \* proposals with a receipt still to reconcile
  checkpoints  \* the waiting states to which a run may be rolled back

gvars == <<phase, request, usable, spent, owed, checkpoints>>

GInit ==
  /\ phase = "running" /\ request = Nothing
  /\ usable = {} /\ spent = {} /\ owed = {}
  /\ checkpoints = {}

\* A policy rule, or a person who answers the request for this proposal,
\* grants a permit that did not exist.
Fresh(permit) == permit \notin usable \cup spent

Grant(permit) ==
  /\ phase = "running"
  /\ Fresh(permit)
  /\ usable' = usable \cup {permit}
  /\ UNCHANGED <<phase, request, spent, owed, checkpoints>>

Ask(wanted) ==
  /\ phase = "running"
  /\ phase' = "waiting" /\ request' = wanted
  /\ wanted.kind # "write"
  /\ UNCHANGED <<usable, spent, owed, checkpoints>>

Spend(permit) ==
  /\ permit \in usable
  /\ usable' = usable \ {permit}
  /\ spent' = spent \cup {permit}

Offer(permit, wanted) ==
  /\ phase = "running"
  /\ Spend(permit)
  /\ phase' = "waiting" /\ request' = wanted
  /\ wanted.kind = "write" /\ wanted.proposal = permit.proposal
  /\ UNCHANGED <<owed, checkpoints>>

\* A run may also die right after spending its permit.
Waste(permit) ==
  /\ phase = "running"
  /\ Spend(permit)
  /\ phase' = "failed"
  /\ UNCHANGED <<request, owed, checkpoints>>

Answer ==
  /\ phase = "waiting"
  /\ phase' = "running" /\ request' = Nothing
  /\ owed' = IF request.kind = "write" THEN owed \cup {request.proposal} ELSE owed
  /\ \/ usable' = usable
     \/ /\ request.kind = "approval"
        /\ \E permit \in usable' : /\ permit.proposal = request.proposal
                                  /\ Fresh(permit)
                                  /\ usable' = usable \cup {permit}
  /\ UNCHANGED <<spent, checkpoints>>

Reconciles(proposal) ==
  /\ phase = "running"
  /\ owed' = owed \ {proposal}
  /\ UNCHANGED <<phase, request, usable, spent, checkpoints>>

Finish ==
  /\ phase = "running" /\ owed = {}
  /\ phase' = "completed"
  /\ UNCHANGED <<request, usable, spent, owed, checkpoints>>

Abort ==
  /\ phase = "running"
  /\ phase' = "failed"
  /\ UNCHANGED <<request, usable, spent, owed, checkpoints>>

Checkpoint ==
  /\ phase = "waiting"
  /\ checkpoints' = checkpoints \cup
                      {[request |-> request, usable |-> usable, spent |-> spent, owed |-> owed]}
  /\ UNCHANGED <<phase, request, usable, spent, owed>>

Rollback ==
  /\ phase' = "waiting"
  /\ \E c \in checkpoints : /\ request' = c.request /\ usable' = c.usable
                          /\ spent' = c.spent /\ owed' = c.owed
  /\ UNCHANGED checkpoints

GNext ==
  \/ \E permit \in usable' : Grant(permit)
  \/ \E permit \in usable : Waste(permit) \/ Offer(permit, request')
  \/ Ask(request') \/ Answer
  \/ \E proposal \in owed : Reconciles(proposal)
  \/ Finish \/ Abort \/ Checkpoint \/ Rollback

GSpec == GInit /\ [][GNext]_gvars
=============================================================================
