------------------------------ MODULE MCMachine -----------------------------
(***************************************************************************)
(* Programs, inputs and grants for model checking Machine.  The programs   *)
(* are what lowering.rs emits for small checked handlers, with `?' as      *)
(* unwrap_result; instruction targets count from one.                      *)
(***************************************************************************)
EXTENDS Machine, TLC

CONSTANTS note, other    \* two documents, as model values

MCData  == {TRUE, FALSE, note, other}
MCSlots == {"in", "x", "y", "p", "q", "permit", "permit2", "receipt", "receipt2", "seen"}
MCFields == {"last"}

Literal(d) == (<<>> :> d)
Project    == [t \in {<<d>> : d \in {note, other}} |-> t[1]]
IsNote     == [t \in {<<d>> : d \in {note, other}} |-> t[1] = note]

EvaluateI(t, apply, operands) ==
  [op |-> "evaluate", target |-> t, apply |-> apply, operands |-> operands]
CopyI(t, s)    == [op |-> "copy", target |-> t, source |-> s]
UnwrapI(s)     == [op |-> "unwrap_result", target |-> s, result |-> s]
InferI(t, s)   == [op |-> "infer", target |-> t, source |-> s, prompt |-> "draft", alias |-> "local"]
ValidateI(t, c) == [op |-> "validate", target |-> t, candidate |-> c, validator |-> "sound"]
ObserveI(t, s) == [op |-> "observe", target |-> t, source |-> s, action |-> "read_note"]
IntentI(t, s)  == [op |-> "construct_intent", target |-> t, source |-> s, expires_at |-> 1]
ProposeI(t, i, s) ==
  [op |-> "construct_proposal", target |-> t, intent |-> i, source |-> s, action |-> "write_note"]
AuthorizeI(t, p, suspend) ==
  [op |-> "authorize", target |-> t, proposal |-> p, policy |-> "publish",
   approval_may_suspend |-> suspend]
CommitI(t, p, m) == [op |-> "commit", target |-> t, proposal |-> p, permit |-> m]
ReconcileI(t, r, o) ==
  [op |-> "reconcile", target |-> t, receipt |-> r, observation |-> o, validator |-> "same"]
UpdateI(s)     == [op |-> "update_state", fields |-> ("last" :> s)]
ReturnI(s)     == [op |-> "return", value |-> s]

\* The policy `publish': notes by rule, everything else by the editor, or not.
Rules(first, second) == <<[when |-> {note}, decision |-> first],
                          [when |-> MCData, decision |-> second]>>

MakeProgram(routines, rules) ==
  [routines   |-> routines,
   tools      |-> ("read_note"  :> [result |-> {note, other}, guarded |-> FALSE])
               @@ ("write_note" :> [result |-> {note, other}, guarded |-> TRUE]),
   prompts    |-> ("draft" :> {note, other}),
   validators |-> ("sound" :> {<<note>>, <<other>>})
               @@ ("same"  :> {<<note, note>>, <<other, other>>}),
   policies   |-> ("publish" :> rules),
   principal  |-> "editor"]

\* on event(e) { draft with the model, validate, propose, authorize, commit,
\* observe, reconcile, store }
GovernedWrite ==
  ("main" :> << InferI("x", "in"), UnwrapI("x"), ValidateI("x", "x"), UnwrapI("x"),
                IntentI("q", "x"), ProposeI("p", "q", "x"), AuthorizeI("permit", "p", TRUE),
                UnwrapI("permit"), CommitI("receipt", "p", "permit"), UnwrapI("receipt"),
                ObserveI("seen", "x"), UnwrapI("seen"), ReconcileI("y", "receipt", "seen"),
                UnwrapI("y"), UpdateI("x"), ReturnI("x") >>)

\* The same without the model: the input itself is written and reconciled.
PlainWrite ==
  ("main" :> << IntentI("q", "in"), ProposeI("p", "q", "in"), AuthorizeI("permit", "p", TRUE),
                UnwrapI("permit"), CommitI("receipt", "p", "permit"), UnwrapI("receipt"),
                ObserveI("seen", "in"), UnwrapI("seen"), ReconcileI("y", "receipt", "seen"),
                UnwrapI("y"), UpdateI("in"), ReturnI("in") >>)

\* Two proposals of the same content, each authorized and committed; the
\* second commit is reached only through a call.
TwoWrites ==
  ("main" :> << IntentI("q", "in"), ProposeI("p", "q", "in"), ProposeI("x", "q", "in"),
                AuthorizeI("permit", "p", FALSE), UnwrapI("permit"),
                AuthorizeI("permit2", "x", FALSE), UnwrapI("permit2"),
                CommitI("receipt", "p", "permit"), UnwrapI("receipt"),
                CommitI("receipt2", "x", "permit2"), UnwrapI("receipt2"),
                [op |-> "call", target |-> "y", routine |-> "check",
                 arguments |-> ("receipt" :> "receipt") @@ ("in" :> "in")],
                UnwrapI("y"), UpdateI("in"), ReturnI("in") >>)
  @@
  ("check" :> << ObserveI("seen", "in"), UnwrapI("seen"),
                 ReconcileI("y", "receipt", "seen"), ReturnI("y") >>)

\* A commit whose permit was issued for another proposal of the same action,
\* on one branch, and a permit already spent, on the other.  The checker
\* refuses the second; the machine does not rely on it.
Misuse ==
  ("main" :> << EvaluateI("y", Literal(other), <<>>),
                IntentI("q", "in"), ProposeI("p", "q", "in"), ProposeI("x", "q", "y"),
                AuthorizeI("permit", "p", TRUE), UnwrapI("permit"),
                EvaluateI("y", IsNote, <<"in">>),
                [op |-> "branch", condition |-> "y", then_target |-> 9, else_target |-> 11],
                CommitI("receipt", "x", "permit"),
                [op |-> "jump", target |-> 13],
                CommitI("receipt", "p", "permit"),
                CommitI("receipt2", "p", "permit"),
                ReturnI("in") >>)

\* A write that is never reconciled.  The checker refuses it; the machine does
\* not rely on it.
Unreconciled ==
  ("main" :> << IntentI("q", "in"), ProposeI("p", "q", "in"), AuthorizeI("permit", "p", TRUE),
                UnwrapI("permit"), CommitI("receipt", "p", "permit"), UnwrapI("receipt"),
                ReturnI("in") >>)

\* Results handled by match instead of `?', a requirement and a merge slot.
Control ==
  ("main" :> << InferI("x", "in"), UnwrapI("x"), ValidateI("y", "x"),
                [op |-> "match", value |-> "y",
                 arms |-> << [pattern |-> "ok", binding |-> "q", target |-> 5],
                             [pattern |-> "err", binding |-> "q", target |-> 8] >>],
                EvaluateI("q", Project, <<"q">>), CopyI("p", "q"),
                [op |-> "jump", target |-> 9],
                CopyI("p", "in"),
                EvaluateI("y", IsNote, <<"p">>),
                [op |-> "require", condition |-> "y"],
                UpdateI("p"),
                [op |-> "match", value |-> "p",
                 arms |-> << [pattern |-> "data", variants |-> {other}, target |-> 13],
                             [pattern |-> "_", target |-> 13] >>],
                ReturnI("p") >>)

\* Both receipts of the two equal proposals are delivered and one of them is
\* reconciled.
OneReconciled ==
  ("main" :> << IntentI("q", "in"), ProposeI("p", "q", "in"), ProposeI("x", "q", "in"),
                AuthorizeI("permit", "p", TRUE), UnwrapI("permit"),
                AuthorizeI("permit2", "x", TRUE), UnwrapI("permit2"),
                CommitI("receipt", "p", "permit"), UnwrapI("receipt"),
                CommitI("receipt2", "x", "permit2"), UnwrapI("receipt2"),
                ObserveI("seen", "in"), UnwrapI("seen"), ReconcileI("y", "receipt", "seen"),
                UnwrapI("y"), ReturnI("in") >>)

\* The observation is made before the commit it is compared with.
EarlyObservation ==
  ("main" :> << ObserveI("seen", "in"), UnwrapI("seen"),
                IntentI("q", "in"), ProposeI("p", "q", "in"), AuthorizeI("permit", "p", TRUE),
                UnwrapI("permit"), CommitI("receipt", "p", "permit"), UnwrapI("receipt"),
                ReconcileI("y", "receipt", "seen"), UnwrapI("y"), ReturnI("in") >>)

Limits(tokens, money, writes, approvals) ==
  ("model_calls" :> 1) @@ ("external_reads" :> 2) @@ ("model_tokens" :> tokens) @@
  ("money_microunits" :> money) @@ ("external_writes" :> writes) @@ ("approvals" :> approvals)

AllGrants == {<<"ModelUse", "local">>, <<"HumanApproval", "editor">>,
              <<"write_note", note>>, <<"write_note", other>>}

Request(routines, rules, payload, time, grants, limits) ==
  [program      |-> MakeProgram(routines, rules),
   handler      |-> "main",
   arguments    |-> [s \in MCSlots |-> IF s = "in" THEN Plain(payload) ELSE Unset],
   result_slot  |-> "in",
   event_time   |-> time,
   state        |-> [f \in MCFields |-> FALSE],
   capabilities |-> grants,
   limits       |-> limits]

\* The governed write at the expiry boundary (event time 1, expiry 1); the
\* plain one at it and after it, without the write grant, with exhausted
\* writes or approvals, and denied.
GovernedRequests ==
  { Request(GovernedWrite, Rules("allow", "approve"), note, 1, AllGrants, Limits(0, 0, 1, 1)),
    Request(PlainWrite, Rules("deny", "approve"), note, 1, AllGrants, Limits(0, 0, 1, 1)) }
  \cup
  { Request(PlainWrite, Rules("approve", "deny"), note, t, g, Limits(0, 0, w, a)) :
      <<t, g, w, a>> \in { <<1, AllGrants, 1, 1>>, <<2, AllGrants, 1, 1>>,
                           <<1, AllGrants \ {<<"write_note", note>>}, 1, 1>>,
                           <<1, AllGrants, 0, 1>>, <<1, AllGrants, 1, 0>> } }

\* Variable usage is declared for a write (tokens and money), for an approval
\* and the write after it (tokens), and for a model's answer.
MeteredRequests ==
  { Request(Unreconciled, Rules("allow", "deny"), note, 1, AllGrants, Limits(1, 1, 1, 1)),
    Request(Unreconciled, Rules("approve", "deny"), note, 1, AllGrants, Limits(1, 0, 1, 1)) }
  \cup { Request(Control, Rules("allow", "deny"), d, 1, AllGrants, Limits(1, 1, 1, 1)) : d \in {note, other} }

OtherRequests ==
  { Request(TwoWrites, Rules("allow", "deny"), d, 1, AllGrants, Limits(0, 0, 2, 1)) : d \in {note, other} }
  \cup { Request(Misuse, Rules("allow", "approve"), d, 1, AllGrants, Limits(0, 0, 2, 1)) : d \in {note, other} }

\* A host declares tokens alone, or tokens and money.
MCDeclarations == { ("model_tokens" :> 1), ("model_tokens" :> 1) @@ ("money_microunits" :> 1) }

DocumentedRequests ==
  { Request(OneReconciled, Rules("allow", "deny"), note, 1, AllGrants, Limits(0, 0, 2, 1)),
    Request(EarlyObservation, Rules("allow", "deny"), note, 1, AllGrants, Limits(0, 0, 1, 1)) }

MCStartRequests == GovernedRequests \cup MeteredRequests \cup OtherRequests
=============================================================================
