----------------------------- MODULE CheckedBody ----------------------------
(***************************************************************************)
(* One executable body (a function, flow or handler) read in source order  *)
(* by three readers at once: the checker with its lexical Environment      *)
(* (aster-semantics expression.rs), the lowering with its map from source  *)
(* to runtime names (aster-ir lowering.rs), and one run of the lowered     *)
(* body by the machine (locals in a frame, instructions of the branches    *)
(* not taken skipped).  There are no loops, so that the three meet every   *)
(* expression in the same order, and a body is the sequence of steps that  *)
(* reads it.                                                               *)
(*                                                                         *)
(* Only bodies the checker accepts are continued: a guard that fails is a  *)
(* diagnostic, and a program with diagnostics is neither lowered nor run.  *)
(*                                                                         *)
(* A type is the sequence of its wrappers ending in a base type; every     *)
(* proposal and every permit has an identity, its number in `issued'.      *)
(***************************************************************************)
EXTENDS Integers, SequencesExt

CONSTANTS
  Names,         \* source names of variables
  Variants,      \* those of them that also name a payload-free enum variant
  Bodies,        \* the arguments of a body and what had been issued before
  ReturnType,    \* the declared type of its result
  Forms,         \* the forms of expression that bodies use
  Copying,       \* those that may read an affine part out of a value
  MaxStatements, \* bound on the statements, blocks and matches of a body
  MaxWraps,      \* bound on the wrappers of a type
  NoName         \* an expression whose value is not bound

VARIABLES
  environment,  \* checker: name -> type and whether it was moved
  bindings,     \* lowering: name -> runtime name
  next_binding, \* lowering: number of the next local
  branches,     \* open blocks and arms, innermost last
  status,       \* "open", or "ended" by the final return or by a run that stops
  locals,       \* machine: runtime name -> value
  issued,       \* for each identity, the proposal a permit is for, or 0
  spent,        \* identities a commit consumed
  live,         \* the run executes this point of the body
  untracked,    \* history: identities the checker lost track of
  statements    \* how many statements were read, for MaxStatements

checker == <<environment, branches, status>>
lowered == <<bindings, next_binding>>
run     == <<locals, issued, spent, live, untracked>>
bodyVars == <<checker, lowered, run, statements>>

ReadStatement == statements < MaxStatements /\ statements' = statements + 1

Data     == <<"data">>
Proposal == <<"proposal">>
Permit   == <<"permit">>

\* affine_diagnostic_code: a type is affine if a proposal or permit is in it.
Affine(type) == Last(type) \in {"proposal", "permit"}

BaseTypes == {"data", "proposal", "permit"}
Wrappers  == {"list", "option", "result", "record", "enum"}

IsType(type) ==
  type \in Seq(BaseTypes \cup Wrappers) /\ type # <<>> /\ Last(type) \in BaseTypes

\* Arguments were moved into the body: each owns what it holds.
IsBody(body) ==
  /\ DOMAIN body.arguments \subseteq Names
  /\ body.issued \in Seq(Nat)
  /\ \A n \in DOMAIN body.arguments :
       /\ IsType(body.arguments[n].type)
       /\ IF Affine(body.arguments[n].type) THEN body.arguments[n].id \in 1..Len(body.issued)
          ELSE body.arguments[n].id = 0
  /\ \A m, n \in DOMAIN body.arguments :
       m # n /\ body.arguments[m].id = body.arguments[n].id => body.arguments[m].id = 0

ASSUME BodiesAssumption == \A body \in Bodies : IsBody(body)
ASSUME NoNameAssumption == NoName \notin Names

Override(f, x, value) == [y \in DOMAIN f \cup {x} |-> IF y = x THEN value ELSE f[y]]
-----------------------------------------------------------------------------
(* Expressions *)

Wrapper == [list |-> "list", some |-> "option", ok |-> "result", record |-> "record",
            variant |-> "enum"]

Expressions ==
  [form : {"unit", "propose"} \cap Forms]
  \cup [form : ({"path", "call", "field", "try", "authorize"} \cup DOMAIN Wrapper) \cap Forms, of : Names]
  \cup [form : {"commit"}, of : Names, permit : Names]

\* The last expression of a block or arm; anything else is bound first.
BlockValues == {e \in Expressions : e.form \in {"unit", "path", "commit"}}

\* Environment::get and resolve_path: a variant wins over a variable, and a
\* moved variable is a diagnostic.
Resolves(env, n) == n \in Variants \/ (n \in DOMAIN env /\ ~env[n].moved)
PathType(env, n) == IF n \in Variants THEN Data ELSE env[n].type

\* The forms whose operand mark_expression_moved sees as a whole path: call
\* arguments, list and record elements, built-ins.
Transfers == {"call", "list", "record", "some", "ok"}

\* project_type and check_try_expression: what a field or `?' is read from.
Reads(form, type) ==
  /\ form = "field" => Head(type) = "record"
  /\ form = "try" => Head(type) = "result" /\ Head(ReturnType) = "result"

\* The checker has no diagnostic for e.
Accepts(env, e) ==
  CASE e.form \in {"unit", "propose"} -> TRUE
    [] e.form = "commit" ->
         /\ Resolves(env, e.of) /\ PathType(env, e.of) = Proposal
         /\ Resolves(env, e.permit) /\ PathType(env, e.permit) = Permit
    [] OTHER ->
         /\ Resolves(env, e.of)
         /\ LET type == PathType(env, e.of)
            IN  /\ e.form = "authorize" => type = Proposal
                /\ Reads(e.form, type)
                /\ e.form \in DOMAIN Wrapper => Len(type) <= MaxWraps
                /\ e.form \in {"field", "try", "variant"} /\ Affine(type) => e.form \in Copying

TypeOf(env, e) ==
  CASE e.form = "unit" -> Data
    [] e.form = "propose" -> Proposal
    [] e.form = "authorize" -> <<"result">> \o Permit
    [] e.form = "commit" -> <<"result">> \o Data
    [] e.form \in {"path", "call"} -> PathType(env, e.of)
    [] e.form \in {"field", "try"} -> Tail(PathType(env, e.of))
    [] OTHER -> <<Wrapper[e.form]>> \o PathType(env, e.of)

\* Faulty variant: `let' and the value of a block do not move a whole path.
MovesByCallsOnly(env, e) ==
  CASE e.form = "commit" -> {e.of, e.permit}
    [] e.form \in Transfers /\ Affine(PathType(env, e.of)) -> {e.of}
    [] OTHER -> {}

\* What checking an expression in a binding or value position moves: a commit
\* its operands, a transfer or a whole path its affine operand.
Moves(env, e) ==
  CASE e.form = "commit" -> {e.of, e.permit}
    [] e.form \in Transfers \cup {"path"} /\ Affine(PathType(env, e.of)) -> {e.of}
    [] OTHER -> {}

Checked(env, e) ==
  [n \in DOMAIN env |->
     [type |-> env[n].type, moved |-> env[n].moved \/ n \in Moves(env, e)]]
-----------------------------------------------------------------------------
(* The run of an expression *)

Plain == [type |-> Data, id |-> 0]
Failed == <<"err">>     \* an Err, in place of the rest of its type

\* resolved_path and the machine's resolve_path: a name the lowering renamed
\* is a local, any other the variant if there is one.
Local(names, store, n) ==
  IF n \in DOMAIN names /\ (n \in Variants => names[n] # <<n, 0>>) THEN store[names[n]] ELSE Plain

Outcome(value, ledger, consumed, goes) ==
  [value |-> value, issued |-> ledger, spent |-> consumed, live |-> goes]
Value(value) == Outcome(value, issued, spent, TRUE)
Stops        == Outcome(Plain, issued, spent, FALSE)

\* What evaluating e may do.  A denied authorization is an Err; a commit is
\* refused unless its permit is unused and for this proposal.
Outcomes(e) ==
  IF ~live THEN {Stops}
  ELSE IF e.form = "unit" THEN {Value(Plain)}
  ELSE IF e.form = "propose"
       THEN {Outcome([type |-> Proposal, id |-> Len(issued) + 1], Append(issued, 0), spent, TRUE)}
  ELSE LET operand == Local(bindings, locals, e.of)
       IN  CASE e.form = "authorize" ->
                  IF operand.type # Proposal THEN {Stops}
                  ELSE { Value([type |-> Failed, id |-> 0]),
                         Outcome([type |-> <<"result">> \o Permit, id |-> Len(issued) + 1],
                                 Append(issued, operand.id), spent, TRUE) }
             [] e.form = "commit" ->
                  LET permit == Local(bindings, locals, e.permit)
                  IN  IF /\ operand.type = Proposal /\ permit.type = Permit
                         /\ issued[permit.id] = operand.id /\ permit.id \notin spent
                      THEN {Outcome([type |-> <<"result">> \o Data, id |-> 0], issued,
                                    spent \cup {operand.id, permit.id}, TRUE)}
                      ELSE {Stops}
             [] e.form \in {"path", "call"} -> {Value(operand)}
             [] e.form \in {"field", "try"} ->
                  IF Len(operand.type) < 2 THEN {Stops}
                  ELSE {Value([type |-> Tail(operand.type), id |-> operand.id])}
             [] OTHER ->
                  {Value([type |-> <<Wrapper[e.form]>> \o operand.type, id |-> operand.id])}
-----------------------------------------------------------------------------
(* Blocks *)

Innermost == Last(branches)
InBlock == branches # <<>> => Innermost.kind = "if"

\* Values the checker loses: read out of a name that stays usable, or moved
\* inside a block and then hidden there by a new binding of the same name.
Untracked(e) ==
  IF live /\ e.form \in {"field", "try", "variant"} THEN {Local(bindings, locals, e.of).id} \ {0}
  ELSE {}

Hides(blocks, env, names, n) ==
  /\ blocks # <<>> /\ n \in DOMAIN Last(blocks).entry
  /\ names[n] = Last(blocks).outer[n]
  /\ env[n].moved /\ ~Last(blocks).entry[n].moved

Lost(blocks, env, names, n) ==
  IF Hides(blocks, env, names, n) THEN {Local(names, locals, n).id} \ {0} ELSE {}

\* Faulty variant: the runtime name is the source name.
BindSourceName(n) == <<n, 1>>

\* bind_name and Bind: a new local, numbered so that it shares a name with none.
BindName(n) == <<n, next_binding>>

Bind(n, type, value, env, names, goes) ==
  IF n = NoName
  THEN environment' = env /\ bindings' = names /\ UNCHANGED <<next_binding, locals>>
  ELSE /\ environment' = Override(env, n, [type |-> type, moved |-> FALSE])
       /\ bindings' = Override(names, n, BindName(n))
       /\ next_binding' = next_binding + 1
       /\ locals' = IF goes THEN Override(locals, BindName(n), value) ELSE locals

\* The effect of evaluating an expression; a run that stops ends here, and
\* one that skips the expression goes on.
Evaluate(o) ==
  /\ issued' = o.issued /\ spent' = o.spent
  /\ status' = IF live /\ ~o.live THEN "ended" ELSE status

\* StatementKind::Let and ::Expression.
Statement(n, e) ==
  LET env == Checked(environment, e)
  IN  /\ status = "open" /\ InBlock /\ ReadStatement /\ Accepts(environment, e)
      /\ n = NoName => e.form = "commit"
      /\ \E o \in Outcomes(e) :
           Evaluate(o) /\ Bind(n, TypeOf(environment, e), o.value, env, bindings, o.live)
      /\ untracked' = untracked \cup Untracked(e) \cup (IF live THEN Lost(branches, env, bindings, n) ELSE {})
      /\ UNCHANGED <<branches, live>>

\* StatementKind::Return: the last of the body, or early in a block.
Return(e) ==
  /\ status = "open" /\ InBlock
  /\ Accepts(environment, e) /\ TypeOf(environment, e) = ReturnType
  /\ environment' = Checked(environment, e)
  /\ status' = IF branches = <<>> \/ live THEN "ended" ELSE "open"
  /\ UNCHANGED <<branches, lowered, run, statements>>

Open(kind, n, taken) ==
  /\ status = "open" /\ InBlock /\ ReadStatement
  /\ branches' = Append(branches,
       [kind |-> kind, into |-> n, entry |-> environment, outer |-> bindings,
        reached |-> live, taken |-> taken, ends |-> <<>>, type |-> Data, value |-> Plain])
  /\ live' = taken
  /\ UNCHANGED <<status, issued, spent>>

\* check_if_expression and lower_if: the then block.
OpenIf(n) ==
  /\ \E taken \in {live, FALSE} : Open("if", n, taken)
  /\ UNCHANGED <<environment, lowered, locals, untracked>>

\* check_match_expression and lower_match: the arm that binds the payload,
\* which an Err does not reach.
OpenMatch(n, m, x) ==
  LET type  == PathType(environment, m)
      value == IF live THEN Local(bindings, locals, m) ELSE Plain
      taken == Len(value.type) > 1
  IN  /\ Resolves(environment, m) /\ Head(type) \in {"option", "result", "enum"}
      /\ Affine(type) => "payload" \in Copying
      /\ Open("match", n, taken)
      /\ Bind(x, Tail(type), [type |-> Tail(value.type), id |-> value.id],
              environment, bindings, taken)
      /\ untracked' = untracked \cup (IF taken THEN {value.id} \ {0} ELSE {})

\* Faulty variant: moved in all of the branches.
JoinMovedInAll(env, ends) ==
  [n \in DOMAIN env |->
     [type |-> env[n].type, moved |-> env[n].moved \/ \A i \in DOMAIN ends : ends[i][n].moved]]

\* join_moved: moved in any of the branches.
JoinMoved(env, ends) ==
  [n \in DOMAIN env |->
     [type |-> env[n].type, moved |-> env[n].moved \/ \E i \in DOMAIN ends : ends[i][n].moved]]

\* Faulty variant: the names of the block stay bound.
StillBound(block) == bindings

\* The names outside a block, as they were when it was entered.
Restored(block) == block.outer

\* The last expression of the first block or arm: its value is copied to the
\* result, and the other one is entered as the first was.
NextBranch(e) ==
  LET block == Innermost
  IN  /\ status = "open" /\ branches # <<>> /\ block.ends = <<>>
      /\ Accepts(environment, e)
      /\ \E o \in Outcomes(e) :
           /\ Evaluate(o)
           /\ branches' = Append(Front(branches),
                [block EXCEPT !.ends = <<Checked(environment, e)>>,
                              !.type = TypeOf(environment, e), !.value = o.value])
      /\ environment' = block.entry /\ bindings' = Restored(block)
      /\ live' = (block.reached /\ ~block.taken)
      /\ UNCHANGED <<next_binding, locals, untracked, statements>>

\* The last expression of the other one, which must have the same type: the
\* moves are joined and the result is bound in the block around.
CloseBranches(e) ==
  LET block == Innermost
      env   == JoinMoved(block.entry, Append(block.ends, Checked(environment, e)))
  IN  /\ status = "open" /\ branches # <<>> /\ block.ends # <<>>
      /\ Accepts(environment, e) /\ TypeOf(environment, e) = block.type
      /\ branches' = Front(branches) /\ live' = block.reached
      /\ \E o \in Outcomes(e) :
           /\ Evaluate(o)
           /\ Bind(block.into, block.type, IF o.live THEN o.value ELSE block.value,
                   env, Restored(block), block.reached)
      /\ untracked' = untracked \cup
           (IF block.reached THEN Lost(Front(branches), env, block.outer, block.into) ELSE {})
      /\ UNCHANGED statements
-----------------------------------------------------------------------------
BodyInit ==
  /\ \E body \in Bodies :
       /\ environment = [n \in DOMAIN body.arguments |->
                           [type |-> body.arguments[n].type, moved |-> FALSE]]
       /\ bindings = [n \in DOMAIN body.arguments |-> <<n, 0>>]
       /\ locals = [r \in {<<n, 0>> : n \in DOMAIN body.arguments} |-> body.arguments[r[1]]]
       /\ issued = body.issued
  /\ next_binding = 1 /\ statements = 0 /\ branches = <<>> /\ status = "open"
  /\ spent = {} /\ live = TRUE /\ untracked = {}

BodyNext ==
  \/ \E n \in Names \cup {NoName}, e \in Expressions : Statement(n, e)
  \/ \E n \in Names \cup {NoName} : OpenIf(n)
  \/ \E n \in Names \cup {NoName}, m, x \in Names : OpenMatch(n, m, x)
  \/ \E e \in Expressions : Return(e)
  \/ \E e \in BlockValues : NextBranch(e) \/ CloseBranches(e)

BodySpec == BodyInit /\ [][BodyNext]_bodyVars
-----------------------------------------------------------------------------
(* Properties *)

\* What a value of a type looks like when it runs: some Result in it may be
\* an Err.
Fits(shape, type) ==
  \/ shape = type
  \/ \E i \in DOMAIN type : type[i] = "result" /\ shape = SubSeq(type, 1, i - 1) \o Failed

Running == live /\ status = "open"

\* A name means the same to all three: the variables in scope are those the
\* lowering has names for, and the local the run reads for one has the type
\* the checker gave it, whatever was shadowed, restored or skipped before.
NamesMeanTheSame ==
  /\ DOMAIN bindings = DOMAIN environment
  /\ Running => \A n \in DOMAIN environment :
       /\ bindings[n] \in DOMAIN locals
       /\ Fits(Local(bindings, locals, n).type, PathType(environment, n))

Usable == {n \in DOMAIN environment : ~environment[n].moved}
Identity(n) == locals[bindings[n]].id

\* Two usable variables never hold the same proposal or permit, except for
\* the values the checker is known to lose.
OneOwner ==
  Running => \A m, n \in Usable :
    m # n /\ Identity(m) = Identity(n) => Identity(m) \in {0} \cup untracked

\* A variable the checker lets the body use never holds a proposal or permit
\* that a commit consumed, with the same exceptions.
SpentIsUnavailable == Running => \A n \in Usable : Identity(n) \notin spent \ untracked

\* Without exceptions: what is consumed on a branch is unavailable after it.
ConsumedIsUnavailable == Running => \A n \in Usable : Identity(n) \notin spent
=============================================================================
