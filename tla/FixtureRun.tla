------------------------------ MODULE FixtureRun ----------------------------
(***************************************************************************)
(* record_run_evidenced (crates/aster-runtime/src/run.rs) with the         *)
(* deterministic driver of fixture.rs: a record session whose effects are  *)
(* answered from a list of fixtures, each of them at most once.            *)
(*                                                                         *)
(* A request is a record of its kind, its identity and the fields of its   *)
(* payload; a fixture matches the requests whose payload has the fields of *)
(* its template.  Templates nest in the code; here they are one level.     *)
(***************************************************************************)
EXTENDS RecordSession

CONSTANT FixtureSets   \* lists of fixtures to run with

VARIABLES
  fixtures,   \* the list in use, never changed
  consumed,   \* the positions of the fixtures that have answered
  calls,      \* driver invocations, by kind of effect
  preview     \* the position previewed for the effect awaiting its answer

driverVars  == <<fixtures, consumed, calls, preview>>
fixtureVars == <<recordVars, driverVars>>

EffectKind == {"model", "read", "approval", "write"}

Dimension(kind) == CASE kind = "model"    -> "model_calls"
                     [] kind = "read"     -> "external_reads"
                     [] kind = "approval" -> "approvals"
                     [] kind = "write"    -> "external_writes"

\* FixtureDriver::new refuses a template without fields.
IsFixture(f) ==
  /\ f.kind \in EffectKind
  /\ DOMAIN f.match # {}
  /\ f.response \in Payloads
  /\ f.max_usage \in Maximums

ASSUME FixturesAssumption ==
  \A list \in FixtureSets : IsSequence(list) /\ \A n \in DOMAIN list : IsFixture(list[n])
ASSUME NoPositionAssumption == None \notin Nat

\* The instruction that yields a request reserves one unit for its kind.
ASSUME KindsAssumption ==
  \A r \in Runs : \A answers \in DOMAIN r.program :
    LET reaction == r.program[answers]
    IN  reaction.step = "yield" => /\ reaction.request.kind \in EffectKind
                                   /\ reaction.dimension = Dimension(reaction.request.kind)
-----------------------------------------------------------------------------
FixtureInit ==
  /\ RecordInit
  /\ fixtures \in FixtureSets
  /\ consumed = {} /\ preview = None
  /\ calls = [kind \in EffectKind |-> 0]

IsJsonSubset(payload, template) ==
  \A field \in DOMAIN template : field \in DOMAIN payload /\ payload[field] = template[field]

\* matching_indices: the fixtures left that match a request.
MatchingIndices(request) ==
  {n \in DOMAIN fixtures :
     /\ n \notin consumed
     /\ fixtures[n].kind = request.kind
     /\ fixtures[n].identity = request.identity
     /\ IsJsonSubset(request.payload, fixtures[n].match)}

\* Distinct templates are ambiguous, equal ones are taken in order.
CanPreview(request) ==
  /\ MatchingIndices(request) # {}
  /\ \A m, n \in MatchingIndices(request) : fixtures[m].match = fixtures[n].match

\* Faulty variant: the last of the equal templates is taken.
PreviewLast(request) == CHOOSE n \in MatchingIndices(request) :
                          \A m \in MatchingIndices(request) : m <= n

Preview(request) == CHOOSE n \in MatchingIndices(request) :
                      \A m \in MatchingIndices(request) : n <= m

\* A fixture may report no more than the maximum it declares.
WithinMaximum(f) ==
  \A d \in DOMAIN f.actual_usage :
    f.actual_usage[d] <= (IF d \in DOMAIN f.max_usage THEN f.max_usage[d] ELSE 0)

Request == session.machine.pending.request
-----------------------------------------------------------------------------
FixtureProgress ==
  /\ session.phase = "running"
  /\ Progress
  /\ UNCHANGED driverVars

PreviewEffect ==
  /\ session.phase = "awaiting_admission" /\ CallsOn
  /\ CanPreview(Request)
  /\ preview' = Preview(Request)
  /\ AdmitEffect(Request, fixtures[preview'].max_usage)
  /\ UNCHANGED <<fixtures, consumed, calls>>

\* Faulty variant: the fixture is not marked.
NotConsumed == {}

\* The fixture is used up, and the call counted, even when its answer is not
\* taken.
Consumed == {preview}

CallDriver ==
  /\ session.phase = "awaiting_resolution" /\ CallsOn
  /\ preview \in MatchingIndices(Request)
  /\ consumed' = consumed \cup Consumed
  /\ calls' = [calls EXCEPT ![Request.kind] = @ + 1]
  /\ preview' = None
  /\ IF WithinMaximum(fixtures[preview])
     THEN ResolveEffect(Request, fixtures[preview].response, fixtures[preview].actual_usage)
     ELSE FailSession
  /\ UNCHANGED fixtures

\* Any error closes the session; a request without exactly one template that
\* matches it is one.
GiveUp ==
  /\ \/ session.error
     \/ session.phase = "awaiting_admission" /\ ~CanPreview(Request)
  /\ FailSession
  /\ preview' = None
  /\ UNCHANGED <<fixtures, consumed, calls>>

\* The loop of record_run_evidenced; it ends when the session has.
FixtureStep == FixtureProgress \/ PreviewEffect \/ CallDriver \/ GiveUp
-----------------------------------------------------------------------------
(* Properties *)

\* The driver is called for admitted effects only: of each kind no more often
\* than the ledger has units reserved or spent, and never before the
\* continuation is sealed.
EveryCallWasAdmitted ==
  /\ \A kind \in EffectKind :
       calls[kind] <= NewBudget(run.limits).remaining[Dimension(kind)]
                        - session.machine.budget.remaining[Dimension(kind)]
  /\ calls["model"] + calls["read"] + calls["approval"] + calls["write"]
       <= Count(session.trace, "snapshot_written")

\* No fixture answers twice: the answers on the trace can be assigned to
\* distinct fixtures that match the request, gave that response and reported
\* that usage.
AnswersUseDistinctFixtures ==
  LET resolved == Entries(session.trace, "effect_resolved")
      Answers0(n, k) == /\ fixtures[n].kind = resolved[k].request.kind
                        /\ fixtures[n].identity = resolved[k].request.identity
                        /\ IsJsonSubset(resolved[k].request.payload, fixtures[n].match)
                        /\ fixtures[n].response = resolved[k].payload
                        /\ fixtures[n].actual_usage = resolved[k].usage
  IN  \E assigned \in Injection(DOMAIN resolved, consumed) :
        \A k \in DOMAIN resolved : Answers0(assigned[k], k)

\* docs/spec/aster-0.1.md: identical templates are consumed in source order.
EqualTemplatesInOrder ==
  \A m, n \in DOMAIN fixtures :
    /\ m < n /\ n \in consumed
    /\ fixtures[m].kind = fixtures[n].kind
    /\ fixtures[m].identity = fixtures[n].identity
    /\ fixtures[m].match = fixtures[n].match
    => m \in consumed

=============================================================================
