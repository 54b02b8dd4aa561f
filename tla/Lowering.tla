------------------------------ MODULE Lowering ------------------------------
(***************************************************************************)
(* The lowering of executable bodies to flat lists of instructions         *)
(* (aster-ir lowering.rs), the search for recursive calls before it        *)
(* (aster-semantics checker.rs), and the run by the effect machine.        *)
(*                                                                         *)
(* Lowering is a function on a builder, as in the code: every operation    *)
(* takes the builder and returns the one it leaves, with the number of the *)
(* slot that will hold the value of what was lowered in `value'.  Slots    *)
(* and instructions are numbered from 0.                                   *)
(*                                                                         *)
(* What the instructions compute is not the subject here (Machine has it), *)
(* but which of them run, in which order, on whose results: an effect is   *)
(* an event with the values it was given, and a value remembers the        *)
(* effects it comes from and whether it is Ok (or true).  The answer of an *)
(* effect is either.                                                       *)
(*                                                                         *)
(* RECURSIVE operators follow the recursion of the code over the tree.     *)
(***************************************************************************)
EXTENDS Integers, SequencesExt

CONSTANTS
  Parameters,   \* the names of the parameters of every routine, in order
  Main,         \* the handler that runs; no routine can call it
  Programs,     \* bodies by the name of their routine: sequences of statements
                \* that end in a return
  NoName        \* a pattern without a binding, and the call of the handler

(* Expressions are records with a form:                                    *)
(*   path     name                                                         *)
(*   pure     operands, any expressions                                    *)
(*   call     name (of a routine), operands (one for each parameter)       *)
(*   infer    name, operands                                               *)
(*   effect   name, operands: any other instruction on operands            *)
(*   try      value                                                        *)
(*   if       condition, then, else (blocks)                               *)
(*   match    value, arms: pattern, binding, value                         *)
(* and statements with a kind: let (name, value), return (value) or        *)
(* expression (value).                                                     *)
-----------------------------------------------------------------------------
(* Recursive calls *)

RECURSIVE ExpressionCalls(_), BlockCalls(_)

OperandCalls(operands) == UNION {ExpressionCalls(operands[i]) : i \in DOMAIN operands}

\* collect_expression_calls
ExpressionCalls(e) ==
  CASE e.form = "path" -> {}
    [] e.form \in {"pure", "infer", "effect"} -> OperandCalls(e.operands)
    [] e.form = "call"  -> {e.name} \cup OperandCalls(e.operands)
    [] e.form = "try"   -> ExpressionCalls(e.value)
    [] e.form = "if"    -> ExpressionCalls(e.condition) \cup BlockCalls(e.then)
                           \cup BlockCalls(e.else)
    [] e.form = "match" -> ExpressionCalls(e.value)
                           \cup OperandCalls([i \in DOMAIN e.arms |-> e.arms[i].value])

BlockCalls(block) == OperandCalls([i \in DOMAIN block |-> block[i].value])

\* The search of one name from another; what was visited on one way is not
\* searched again on the next.
RECURSIVE Reaches(_, _, _, _)
Reaches(current, target, graph, visited) ==
  LET Try(done, name) == IF done.found THEN done ELSE Reaches(name, target, graph, done.visited)
  IN  IF current \in visited THEN [found |-> FALSE, visited |-> visited]
      ELSE FoldLeft(Try, [found |-> target \in graph[current], visited |-> visited \cup {current}],
                    SetToSeq(graph[current]))

CallGraph(program) == [r \in DOMAIN program |-> BlockCalls(program[r])]

\* Faulty variant: only a routine that calls itself.
CallsItself(program) == {r \in DOMAIN program : r \in CallGraph(program)[r]}

\* check_recursion: the routines that are reported.
Recursive(program) ==
  {r \in DOMAIN program : Reaches(r, r, CallGraph(program), {}).found}
-----------------------------------------------------------------------------
(* The builder *)

\* Parameters keep their source name: a runtime name is a name and a number, 0
\* for a parameter.
NewBuilder ==
  [instructions |-> <<>>, next_value |-> 0, next_binding |-> 1, value |-> 0,
   bindings |-> [n \in Range(Parameters) |-> <<n, 0>>]]

\* RoutineBuilder::value
Fresh(b) == [b EXCEPT !.value = b.next_value, !.next_value = b.next_value + 1]

Push(b, kind) == [b EXCEPT !.instructions = Append(b.instructions, kind)]

Position(b) == Len(b.instructions)

\* The placeholder at an index is replaced once its targets are known.
Patch(b, index, kind) == [b EXCEPT !.instructions[index + 1] = kind]

\* Faulty variant: the counter of bindings is not advanced.
BindNameUncounted(b, n) ==
  [b EXCEPT !.bindings = [m \in DOMAIN b.bindings \cup {n} |->
                            IF m = n THEN <<n, b.next_binding>> ELSE b.bindings[m]]]

\* Every let and pattern gets a runtime name of its own.
BindName(b, n) ==
  [b EXCEPT !.bindings = [m \in DOMAIN b.bindings \cup {n} |->
                            IF m = n THEN <<n, b.next_binding>> ELSE b.bindings[m]],
            !.next_binding = b.next_binding + 1]

\* Faulty variant: an arm sees the bindings of the one before.
LeftInScope(b, outer) == b

\* Back to the bindings outside a block or arm.
InScope(b, outer) == [b EXCEPT !.bindings = outer.bindings]

Evaluate(target, operands)     == [kind |-> "evaluate", target |-> target, operands |-> operands]
Load(target, name)             == [kind |-> "load", target |-> target, name |-> name]
Effect(target, name, operands) == [kind |-> "effect", target |-> target, name |-> name,
                                   operands |-> operands]
Call(target, name, operands)   == [kind |-> "call", target |-> target, name |-> name,
                                   operands |-> operands]
Bind(name, value)       == [kind |-> "bind", name |-> name, value |-> value]
Copy(target, source)    == [kind |-> "copy", target |-> target, source |-> source]
Unwrap(target, result)  == [kind |-> "unwrap_result", target |-> target, result |-> result]
Branch(value, yes, no)  == [kind |-> "branch", value |-> value, yes |-> yes, no |-> no]
Match(value, arms)      == [kind |-> "match", value |-> value, arms |-> arms]
Jump(to)                == [kind |-> "jump", to |-> to]
Return(value)           == [kind |-> "return", value |-> value]
-----------------------------------------------------------------------------
(* Lowering *)

RECURSIVE LowerExpression(_, _), LowerBlockValue(_, _)

\* Operands in source order, each in a slot of its own.
LowerOperands(b, operands) ==
  FoldLeft(LAMBDA done, e : LET next == LowerExpression(done.builder, e)
                            IN  [builder |-> next, values |-> Append(done.values, next.value)],
           [builder |-> b, values |-> <<>>], operands)

\* evaluate_pure: the target is numbered before the operands.
EvaluatePure(b, operands) ==
  LET target  == Fresh(b)
      lowered == LowerOperands(target, operands)
  IN  [Push(lowered.builder, Evaluate(target.value, lowered.values)) EXCEPT !.value = target.value]

\* lower_infer, and the call of a routine: the target is numbered first.
LowerInfer(b, e) ==
  LET target  == Fresh(b)
      lowered == LowerOperands(target, e.operands)
      kind    == IF e.form = "call" THEN Call(target.value, e.name, lowered.values)
                 ELSE Effect(target.value, e.name, lowered.values)
  IN  [Push(lowered.builder, kind) EXCEPT !.value = target.value]

\* lower_observe, lower_proposal, lower_commit and the others: it comes last.
LowerEffect(b, name, operands) ==
  LET lowered == LowerOperands(b, operands)
      target  == Fresh(lowered.builder)
  IN  Push(target, Effect(target.value, name, lowered.values))

LowerTry(b, value) ==
  LET result == LowerExpression(b, value)
      target == Fresh(result)
  IN  Push(target, Unwrap(target.value, result.value))

LowerIf(b, e) ==
  LET result    == Fresh(b)
      outer     == LowerExpression(result, e.condition)
      branch    == Push(outer, Branch(outer.value, 0, 0))
      then      == LowerBlockValue(branch, e.then)
      jump      == Push(Push(then, Copy(result.value, then.value)), Jump(0))
      else      == LowerBlockValue(InScope(jump, outer), e.else)
      end       == Push(else, Copy(result.value, else.value))
      branching == Patch(end, Position(outer),
                         Branch(outer.value, Position(branch), Position(jump)))
  IN  [InScope(Patch(branching, Position(jump) - 1, Jump(Position(end))), outer)
         EXCEPT !.value = result.value]

\* One arm of a match: where it starts, and the jump behind it.
LowerArm(done, arm, outer, result) ==
  LET scope == InScope(done.builder, outer)
      bound == IF arm.binding = NoName THEN scope ELSE BindName(scope, arm.binding)
      value == LowerExpression(bound, arm.value)
      jump  == Push(Push(value, Copy(result, value.value)), Jump(0))
      name  == IF arm.binding = NoName THEN NoName ELSE bound.bindings[arm.binding]
  IN  [builder |-> jump, jumps |-> Append(done.jumps, Position(jump) - 1),
       arms |-> Append(done.arms, [pattern |-> arm.pattern, name |-> name,
                                   target |-> Position(bound)])]

LowerMatch(b, e) ==
  LET result  == Fresh(b)
      outer   == LowerExpression(result, e.value)
      lowered == FoldLeft(LAMBDA done, arm : LowerArm(done, arm, outer, result.value),
                          [builder |-> Push(outer, Match(outer.value, <<>>)),
                           jumps |-> <<>>, arms |-> <<>>], e.arms)
      matched == Patch(lowered.builder, Position(outer), Match(outer.value, lowered.arms))
      joined  == FoldLeft(LAMBDA done, jump : Patch(done, jump, Jump(Position(done))),
                          matched, lowered.jumps)
  IN  [InScope(joined, outer) EXCEPT !.value = result.value]

LowerExpression(b, e) ==
  CASE e.form = "path"   -> LET target == Fresh(b)
                            IN  Push(target, Load(target.value, b.bindings[e.name]))
    [] e.form = "pure"   -> EvaluatePure(b, e.operands)
    [] e.form \in {"infer", "call"} -> LowerInfer(b, e)
    [] e.form = "effect" -> LowerEffect(b, e.name, e.operands)
    [] e.form = "try"    -> LowerTry(b, e.value)
    [] e.form = "if"     -> LowerIf(b, e)
    [] e.form = "match"  -> LowerMatch(b, e)

LowerStatement(b, statement) ==
  LET value == LowerExpression(b, statement.value)
  IN  CASE statement.kind = "let" ->
             LET bound == BindName(value, statement.name)
             IN  Push(bound, Bind(bound.bindings[statement.name], value.value))
        [] statement.kind = "return" -> Push(value, Return(value.value))
        [] statement.kind = "expression" -> value

LowerBlock(b, block) == FoldLeft(LowerStatement, b, block)

\* The value of a block is that of a last expression, or unit.
LowerBlockValue(b, block) ==
  IF block # <<>> /\ Last(block).kind = "expression" THEN LowerBlock(b, block)
  ELSE EvaluatePure(LowerBlock(b, block), <<>>)

Lower(body) == LowerBlock(NewBuilder, body)
-----------------------------------------------------------------------------
(* The run of the instructions *)

VARIABLES
  program,
  routines,    \* what its bodies were lowered to, and the number of their slots
  frames,      \* the calls, the innermost last
  events,      \* the effects so far, with their operands and answers
  status       \* "rejected", "running", "returned", or "error" after `?'

vars == <<program, routines, frames, events, status>>

\* Values: the effects they come from, a 0 for each payload taken out, and a
\* truth.
Given      == [i \in DOMAIN Parameters |-> [from |-> <<-i>>, ok |-> TRUE]]
Answer(n, ok) == [from |-> <<n>>, ok |-> ok]
Payload(v) == [from |-> Append(v.from, 0), ok |-> TRUE]
Combined(values) == [from |-> FlattenSeq([i \in DOMAIN values |-> values[i].from]), ok |-> TRUE]

Top         == frames[Len(frames)]
Routine     == routines[Top.routine]
Instruction == Routine.instructions[Top.pointer + 1]
Running(kind) ==
  /\ status = "running" /\ Top.pointer < Len(Routine.instructions) /\ Instruction.kind = kind

With(f, k, v) == [i \in DOMAIN f \cup {k} |-> IF i = k THEN v ELSE f[i]]
WithSlot(frame, target, v) == [frame EXCEPT !.slots = With(frame.slots, target, v)]
WithLocal(frame, name, v)  == [frame EXCEPT !.locals = With(frame.locals, name, v)]
At(frame, target)          == [frame EXCEPT !.pointer = target]
Advanced(frame)            == At(frame, frame.pointer + 1)

\* An instruction that only changes the innermost frame.
Continue(frame) ==
  frames' = [frames EXCEPT ![Len(frames)] = frame] /\ UNCHANGED <<program, routines, status>>

Slot(target) == Top.slots[target]
Values(operands) == [i \in DOMAIN operands |-> Slot(operands[i])]

\* The slots and locals an instruction reads.
Reads(i) ==
  CASE i.kind \in {"evaluate", "effect", "call"} -> Range(i.operands)
    [] i.kind = "copy" -> {i.source}
    [] i.kind = "unwrap_result" -> {i.result}
    [] i.kind \in {"bind", "branch", "match", "return"} -> {i.value}
    [] OTHER -> {}

IsSet(i) ==
  Reads(i) \subseteq DOMAIN Top.slots /\ (i.kind = "load" => i.name \in DOMAIN Top.locals)

ExecuteEvaluate ==
  /\ Running("evaluate") /\ IsSet(Instruction)
  /\ Continue(Advanced(WithSlot(Top, Instruction.target, Combined(Values(Instruction.operands)))))
  /\ UNCHANGED events

ExecuteLoad ==
  /\ Running("load") /\ IsSet(Instruction)
  /\ Continue(Advanced(WithSlot(Top, Instruction.target, Top.locals[Instruction.name])))
  /\ UNCHANGED events

\* An effect is requested with its operands and supplied with an answer.
ExecuteEffect(ok) ==
  /\ Running("effect") /\ IsSet(Instruction)
  /\ events' = Append(events, [name |-> Instruction.name, ok |-> ok,
                               operands |-> Values(Instruction.operands)])
  /\ Continue(Advanced(WithSlot(Top, Instruction.target, Answer(Len(events) + 1, ok))))

ExecuteBind ==
  /\ Running("bind") /\ IsSet(Instruction)
  /\ Continue(Advanced(WithLocal(Top, Instruction.name, Slot(Instruction.value))))
  /\ UNCHANGED events

ExecuteCopy ==
  /\ Running("copy") /\ IsSet(Instruction)
  /\ Continue(Advanced(WithSlot(Top, Instruction.target, Slot(Instruction.source))))
  /\ UNCHANGED events

ExecuteUnwrap ==
  /\ Running("unwrap_result") /\ IsSet(Instruction)
  /\ Slot(Instruction.result).ok
  /\ Continue(Advanced(WithSlot(Top, Instruction.target, Payload(Slot(Instruction.result)))))
  /\ UNCHANGED events

\* The `?' of an Err ends the run, in a routine that was called as well.
Propagate ==
  /\ Running("unwrap_result") /\ IsSet(Instruction)
  /\ ~Slot(Instruction.result).ok
  /\ status' = "error" /\ UNCHANGED <<program, routines, frames, events>>

ExecuteBranch ==
  /\ Running("branch") /\ IsSet(Instruction)
  /\ Continue(At(Top, IF Slot(Instruction.value).ok THEN Instruction.yes ELSE Instruction.no))
  /\ UNCHANGED events

ExecuteJump ==
  /\ Running("jump")
  /\ Continue(At(Top, Instruction.to)) /\ UNCHANGED events

Accepting(v, arms) ==
  {i \in DOMAIN arms : arms[i].pattern = "_" \/ arms[i].pattern = (IF v.ok THEN "Ok" ELSE "Err")}

\* The first arm that accepts the value.
ExecuteMatch ==
  /\ Running("match") /\ IsSet(Instruction)
  /\ LET v == Slot(Instruction.value)
         accepting == Accepting(v, Instruction.arms)
         arm == Instruction.arms[Min(accepting)]
     IN  /\ accepting # {}    \* NonExhaustiveMatch
         /\ Continue(At(IF arm.name = NoName THEN Top ELSE WithLocal(Top, arm.name, Payload(v)),
                        arm.target))
  /\ UNCHANGED events

\* The caller's frame is behind the call while the callee runs.
Frame(routine, locals, target) ==
  [routine |-> routine, pointer |-> 0, slots |-> <<>>, locals |-> locals, return_target |-> target]

\* order_runtime_arguments
Argument(p, values) == values[CHOOSE i \in DOMAIN Parameters : Parameters[i] = p]
ParameterLocals(values) ==
  [n \in {<<p, 0>> : p \in Range(Parameters)} |-> Argument(n[1], values)]

ExecuteCall ==
  /\ Running("call") /\ IsSet(Instruction)
  /\ frames' = Append([frames EXCEPT ![Len(frames)] = Advanced(Top)],
                      Frame(Instruction.name, ParameterLocals(Values(Instruction.operands)),
                            Instruction.target))
  /\ UNCHANGED <<program, routines, events, status>>

\* A value is returned into the slot of the caller, or ends the run.
ExecuteReturn ==
  /\ Running("return") /\ IsSet(Instruction)
  /\ IF Len(frames) > 1
     THEN /\ frames' = [SubSeq(frames, 1, Len(frames) - 1) EXCEPT ![Len(frames) - 1] =
                          WithSlot(frames[Len(frames) - 1], Top.return_target,
                                   Slot(Instruction.value))]
          /\ UNCHANGED status
     ELSE status' = "returned" /\ UNCHANGED frames
  /\ UNCHANGED <<program, routines, events>>

Over == status # "running" /\ UNCHANGED vars

\* A program is checked, lowered and started.
Init ==
  /\ program \in Programs
  /\ routines = [r \in DOMAIN program |->
                   LET b == Lower(program[r])
                   IN  [instructions |-> b.instructions, values |-> b.next_value]]
  /\ frames = <<Frame(Main, ParameterLocals(Given), NoName)>>
  /\ events = <<>>
  /\ status = IF Recursive(program) = {} THEN "running" ELSE "rejected"

Next ==
  \/ ExecuteEvaluate \/ ExecuteLoad \/ (\E ok \in BOOLEAN : ExecuteEffect(ok))
  \/ ExecuteBind \/ ExecuteCopy \/ ExecuteUnwrap \/ Propagate
  \/ ExecuteBranch \/ ExecuteJump \/ ExecuteMatch \/ ExecuteCall \/ ExecuteReturn \/ Over

Spec == Init /\ [][Next]_vars
-----------------------------------------------------------------------------
(* The meaning of a program, by recursion over the trees: operands,        *)
(* statements and branches in source order, lexical scope, and an end at a *)
(* return or at the `?' of an Err.  It is given the answers of the effects,*)
(* and waits at the first effect that has none.                            *)

RECURSIVE Meaning(_, _, _), BlockMeaning(_, _, _)

InOrder(at, scope, operands) ==
  FoldLeft(LAMBDA done, e : LET next == Meaning(done.at, scope, e)
                            IN  [at |-> next, values |-> Append(done.values, next.value)],
           [at |-> at, values |-> <<>>], operands)

Scope(values) == [p \in Range(Parameters) |-> Argument(p, values)]

CallMeaning(at, routine, values) ==
  LET end == BlockMeaning(at, Scope(values), program[routine])
  IN  IF end.status = "returned" THEN [end EXCEPT !.status = "running"] ELSE end

Meaning(at, scope, e) ==
  IF at.status # "running" THEN at
  ELSE CASE e.form = "path" -> [at EXCEPT !.value = scope[e.name]]
    [] e.form = "pure" ->
         LET all == InOrder(at, scope, e.operands)
         IN  [all.at EXCEPT !.value = Combined(all.values)]
    [] e.form = "call" ->
         LET all == InOrder(at, scope, e.operands)
         IN  IF all.at.status # "running" THEN all.at
             ELSE CallMeaning(all.at, e.name, all.values)
    [] e.form \in {"infer", "effect"} ->
         LET all == InOrder(at, scope, e.operands)
             n   == Len(all.at.events) + 1
         IN  IF all.at.status # "running" THEN all.at
             ELSE IF n > Len(at.answers) THEN [all.at EXCEPT !.status = "waiting"]
             ELSE [all.at EXCEPT !.value = Answer(n, at.answers[n]),
                                 !.events = Append(all.at.events,
                                   [name |-> e.name, ok |-> at.answers[n], operands |-> all.values])]
    [] e.form = "try" ->
         LET result == Meaning(at, scope, e.value)
         IN  IF result.status # "running" THEN result
             ELSE IF result.value.ok THEN [result EXCEPT !.value = Payload(result.value)]
             ELSE [result EXCEPT !.status = "error"]
    [] e.form = "if" ->
         LET condition == Meaning(at, scope, e.condition)
         IN  BlockMeaning(condition, scope, IF condition.value.ok THEN e.then ELSE e.else)
    [] e.form = "match" ->
         LET matched == Meaning(at, scope, e.value)
             arm == SelectSeq(e.arms, LAMBDA a : a.pattern \in
                                        {"_", IF matched.value.ok THEN "Ok" ELSE "Err"})[1]
         IN  Meaning(matched,
                     IF arm.binding = NoName THEN scope
                     ELSE With(scope, arm.binding, Payload(matched.value)), arm.value)

BlockMeaning(at, scope, block) ==
  LET Read(done, statement) ==
        LET next == Meaning(done.at, done.scope, statement.value)
        IN  [at    |-> IF next.status = "running" /\ statement.kind = "return"
                       THEN [next EXCEPT !.status = "returned"] ELSE next,
             scope |-> IF statement.kind = "let"
                       THEN With(done.scope, statement.name, next.value) ELSE done.scope]
      end == FoldLeft(Read, [at |-> at, scope |-> scope], block).at
  IN  IF end.status = "running" /\ (block = <<>> \/ Last(block).kind # "expression")
      THEN [end EXCEPT !.value = Combined(<<>>)] ELSE end

MeaningGiven(answers) ==
  BlockMeaning([answers |-> answers, events |-> <<>>, status |-> "running", value |-> Combined(<<>>)],
               Scope(Given), program[Main])
-----------------------------------------------------------------------------
(* Properties *)

\* No path through the lowered code reads a slot or a local that was not set
\* on that path, meets a match without an arm, or runs off the end: a program
\* that was accepted never ends in one of the machine's own errors
\* (UnknownValue, NonExhaustiveMatch, InvalidIp).
NoMachineErrors ==
  status = "running" =>
    /\ Top.pointer < Len(Routine.instructions) /\ IsSet(Instruction)
    /\ Instruction.kind = "match" => Accepting(Slot(Instruction.value), Instruction.arms) # {}

\* The code does what the trees say: the same effects in the same order, with
\* the same values, and the same end, through every join, shadowing and call.
EffectsInSourceOrder ==
  status \in {"returned", "error"} =>
    LET meaning == MeaningGiven([n \in DOMAIN events |-> events[n].ok])
    IN  /\ meaning.events = events /\ meaning.status = status
        /\ status = "returned" => meaning.value = Slot(Instruction.value)

\* The search rejects a program exactly when some routines call each other in
\* a circle; in one it accepts, no run ever holds two calls of a routine, so
\* that the frames are at most as many as the routines.
NoRecursion ==
  /\ status = "rejected" <=>
       \E circle \in SUBSET DOMAIN program \ {{}} :
         \A r \in circle : BlockCalls(program[r]) \cap circle # {}
  /\ IsInjective([k \in DOMAIN frames |-> frames[k].routine])
=============================================================================
