----------------------------- MODULE MCHostDrive ----------------------------
(***************************************************************************)
(* A program and its answers for model checking HostDrive.                 *)
(***************************************************************************)
EXTENDS HostDrive

CONSTANTS yes, no, bad   \* answers; `bad' has the type of no effect

Answers == UNION {[1..n -> {yes, no}] : n \in 0..2}

\* An approval, and a write that is requested only after a yes.
ApprovedWrite ==
  [answers \in Answers |->
     CASE Len(answers) = 0 -> [step |-> "yield", decoded |-> <<>>, audit |-> <<"policy_decision">>,
                               dimension |-> "approvals", request |-> "approve",
                               expected |-> {yes, no}]
       [] Len(answers) = 1 /\ answers[1] = yes ->
                              [step |-> "yield", decoded |-> <<"permit_issued">>,
                               audit |-> <<"proposal_committed">>, dimension |-> "external_writes",
                               request |-> "write", expected |-> {yes, no}]
       [] Len(answers) = 1 -> [step |-> "failed", decoded |-> <<>>, audit |-> <<>>]
       [] OTHER -> [step |-> "completed", decoded |-> <<>>, audit |-> <<"reconciliation_decision">>,
                    outcome |-> answers[2]]]

Limits == [d \in BudgetDimension |-> IF d = "model_tokens" THEN 2 ELSE 1]

MCRuns     == { [program |-> ApprovedWrite, limits |-> Limits] }
MCRequests == {"approve", "write"}
MCPayloads == {yes, no, bad}
MCMaximums == { [d \in {"model_tokens"} |-> 1] }
MCUsages   == { [d \in {"model_tokens"} |-> used] : used \in 0..1 }
=============================================================================
