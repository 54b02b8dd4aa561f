---------------------------- MODULE MCHostSession ---------------------------
(***************************************************************************)
(* Programs, hosts and declarations for model checking HostSession.        *)
(***************************************************************************)
EXTENDS HostSession

CONSTANTS yes, no, bad   \* answers; `bad' has the type of no effect

Answers == UNION {[1..n -> {yes, no}] : n \in 0..3}

\* Equal reads, whose requests have the same hash: two, or after a no three.
Reads ==
  [answers \in Answers |->
     IF Len(answers) < 2 \/ (Len(answers) = 2 /\ answers[1] = no)
     THEN [step |-> "yield", decoded |-> <<>>, audit |-> <<>>, dimension |-> "external_reads",
           request |-> "read", expected |-> {yes, no}]
     ELSE [step |-> "completed", decoded |-> <<>>, audit |-> <<"reconciliation_decision">>,
           outcome |-> answers[2]]]

\* An approval, and a write whose handler then fails.
ApprovedWrite ==
  [answers \in Answers |->
     CASE Len(answers) = 0 -> [step |-> "yield", decoded |-> <<>>, audit |-> <<"policy_decision">>,
                               dimension |-> "approvals", request |-> "approve", expected |-> {yes, no}]
       [] Len(answers) = 1 /\ answers[1] = yes ->
                              [step |-> "yield", decoded |-> <<"permit_issued">>,
                               audit |-> <<"proposal_committed">>, dimension |-> "external_writes",
                               request |-> "write", expected |-> {yes}]
       [] OTHER -> [step |-> "failed", decoded |-> <<>>, audit |-> <<>>]]

Limits(reads) == [d \in BudgetDimension |-> IF d = "external_reads" THEN reads ELSE 1]

\* With two reads, the third finds the budget empty.
MCRuns == { [program |-> Reads, limits |-> Limits(2)],
            [program |-> Reads, limits |-> Limits(3)],
            [program |-> ApprovedWrite, limits |-> Limits(1)] }
MCRequests == {"read", "approve", "write"}
MCPayloads == {yes, no, bad}
MCMaximums == { [d \in {} |-> 0], [d \in {"model_tokens"} |-> 1] }
MCUsages   == { [d \in {} |-> 0], [d \in {"model_tokens"} |-> 1], [d \in {"model_tokens"} |-> 2] }
=============================================================================
