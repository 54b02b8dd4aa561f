---------------------------- MODULE MCRunCommand ---------------------------
(***************************************************************************)
(* Programs, fixtures and resolutions for model checking RunCommand, and   *)
(* FixtureRun with it.                                                     *)
(***************************************************************************)
EXTENDS RunCommand

CONSTANTS yes, no, bad   \* answers; `bad' has the type of no effect

Draft   == [kind |-> "model", identity |-> "Draft", payload |-> [topic |-> "note", tone |-> "dry"]]
Approve == [kind |-> "approval", identity |-> "Publish", payload |-> [action |-> "save"]]
Write   == [kind |-> "write", identity |-> "save", payload |-> [path |-> "note"]]

Yield(dimension, request) ==
  [step |-> "yield", decoded |-> <<>>, audit |-> <<>>, dimension |-> dimension,
   request |-> request, expected |-> {yes, no}]
Done(outcome) == [step |-> "completed", decoded |-> <<>>, audit |-> <<>>, outcome |-> outcome]
Fails == [step |-> "failed", decoded |-> <<>>, audit |-> <<>>]

Answers == UNION {[1..n -> {yes, no}] : n \in 0..3}

\* A draft, drafted again when the answer is no.
Redrafts ==
  [answers \in Answers |->
     IF Len(answers) = 0 \/ (Len(answers) < 3 /\ Last(answers) = no)
     THEN Yield("model_calls", Draft) ELSE Done(Last(answers))]

\* A draft, its approval and a write.
Governed ==
  [answers \in Answers |->
     CASE Len(answers) = 0 -> Yield("model_calls", Draft)
       [] Len(answers) = 1 -> Yield("approvals", Approve)
       [] Len(answers) = 2 -> IF answers[2] = yes THEN Yield("external_writes", Write) ELSE Fails
       [] OTHER -> Done(answers[3])]

Limits == [d \in BudgetDimension |-> IF d = "model_calls" THEN 2 ELSE 1]

MCRuns == {[program |-> Redrafts, limits |-> Limits], [program |-> Governed, limits |-> Limits]}
MCRequests == {Draft, Approve, Write}
MCPayloads == {yes, no, bad}

Tokens(n) == [d \in {"model_tokens"} |-> n]
MCMaximums == {NoUsage, Tokens(1)}
MCUsages   == {NoUsage, Tokens(1), Tokens(2)}

Fixture(request, field, response, max_usage, actual_usage) ==
  [kind |-> request.kind, identity |-> request.identity,
   match |-> [f \in {field} |-> request.payload[f]],
   response |-> response, max_usage |-> max_usage, actual_usage |-> actual_usage]

ByTopic(response, used) == Fixture(Draft, "topic", response, Tokens(1), Tokens(used))
ByTone(response)  == Fixture(Draft, "tone", response, NoUsage, NoUsage)
Approved(response) == Fixture(Approve, "action", response, NoUsage, NoUsage)
Written == Fixture(Write, "path", yes, NoUsage, NoUsage)

\* Equal templates, a template that is ambiguous with them, a response of the
\* wrong type, a fixture that reports too much, and a list that runs out.
MCFixtureSets ==
  { <<ByTopic(yes, 1), Approved(yes), Written>>,
    <<ByTopic(no, 0), ByTopic(yes, 1)>>,
    <<ByTopic(no, 0), ByTopic(no, 1), ByTopic(yes, 0)>>,
    <<ByTopic(yes, 0), ByTone(no), Approved(no)>>,
    <<ByTone(yes), Approved(bad)>>,
    <<ByTopic(yes, 2)>>,
    <<ByTone(yes), Approved(yes)>> }
=============================================================================
