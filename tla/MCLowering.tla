------------------------------ MODULE MCLowering ----------------------------
(***************************************************************************)
(* Programs for model checking Lowering.                                   *)
(***************************************************************************)
EXTENDS Lowering

CONSTANTS x, y, main, helper, other, third    \* names, as model values

MCParameters == <<x, y>>

Path(n)              == [form |-> "path", name |-> n]
Pure(operands)       == [form |-> "pure", operands |-> operands]
Does(name, operands) == [form |-> "effect", name |-> name, operands |-> operands]
Infers(name, operands) == [form |-> "infer", name |-> name, operands |-> operands]
Calls(name, operands) == [form |-> "call", name |-> name, operands |-> operands]
Try(e)               == [form |-> "try", value |-> e]
If(c, then, else)    == [form |-> "if", condition |-> c, then |-> then, else |-> else]
MatchOn(e, arms)     == [form |-> "match", value |-> e, arms |-> arms]
Arm(pattern, n, e)   == [pattern |-> pattern, binding |-> n, value |-> e]

Let(n, e) == [kind |-> "let", name |-> n, value |-> e]
Ends(e)   == [kind |-> "return", value |-> e]
Is(e)     == [kind |-> "expression", value |-> e]

Paths  == {Path(n) : n \in {x, y}}
Atoms  == Paths \cup {Does("a", <<>>)}
Simple == Atoms \cup {Does("b", <<Path(x)>>), Try(Path(y)), Pure(<<Does("a", <<>>), Path(y)>>),
                           Infers("m", <<Does("a", <<>>), Path(y)>>)}

Blocks == {<<Is(e)>> : e \in Simple}
          \cup {<<Ends(Path(x))>>, <<Let(y, Does("a", <<>>)), Is(Path(y))>>, <<Let(x, Path(y))>>}

\* Blocks and arms around another branch.
Inner == If(Path(x), <<Let(y, Does("a", <<>>)), Is(Path(y))>>, <<Is(Try(Path(x)))>>)
Nested == {<<Is(Inner)>>, <<Let(x, Inner), Is(Does("b", <<Path(x)>>))>>,
           <<Let(y, Does("a", <<>>)), Let(x, Inner), Is(Does("b", <<Path(y)>>))>>}

Ifs == {If(Does("a", <<>>), s, t) : s, t \in Blocks}
       \cup {If(Try(Does("a", <<>>)), s, t) : s \in Nested, t \in Nested \cup Blocks}

ArmValues == {Path(x), Path(y), Does("b", <<Path(x)>>), Try(Path(y)), Inner}
Matches ==
  {MatchOn(Does("a", <<>>), <<Arm("Ok", n, e), Arm("Err", x, f)>>) :
     n \in {x, y}, e, f \in ArmValues}
  \cup {MatchOn(Path(x), <<Arm("Err", NoName, e), Arm("_", NoName, f)>>) : e, f \in ArmValues}

\* let n = <anything>; return c(x, y), or the same as an operand.
Bodies ==
  {<<Let(n, e), Ends(Does("c", <<Path(x), Path(y)>>))>> :
     n \in {x, y}, e \in Simple \cup Ifs \cup Matches}
  \cup {<<Ends(Does("c", <<Does("a", <<>>), e, Path(x)>>))>> : e \in Ifs \cup Matches}

\* Bodies that call: under a branch, as an operand, in a block and in an arm.
Calling(r) ==
  {<<Ends(Calls(r, <<Path(y), Does("a", <<>>)>>))>>,
   <<Let(x, If(Does("a", <<>>), <<Let(y, Calls(r, <<Path(x), Path(x)>>)), Is(Path(y))>>,
               <<Is(Path(y))>>)), Ends(Try(Path(x)))>>,
   <<Ends(Pure(<<MatchOn(Path(x), <<Arm("Ok", y, Path(y)),
                                    Arm("_", NoName, Calls(r, <<Path(y), Path(x)>>))>>),
                 Path(x)>>))>>}

Leaves == {<<Ends(Path(y))>>, <<Let(y, Try(Does("b", <<Path(x)>>))), Ends(Path(y))>>}

Mains == Calling(helper) \cup {<<Let(y, Calls(helper, <<Does("a", <<>>), Path(x)>>)),
                            Ends(Does("c", <<Calls(other, <<Path(y), Path(x)>>), Path(y)>>))>>}

\* Every call graph of three routines.
Callables == {helper, other, third}
CallsAll(names) ==
  <<Ends(Pure([i \in 1..Cardinality(names) |-> Calls(SetToSeq(names)[i], <<Path(x), Path(y)>>)]))>>
Graphs == {main :> CallsAll({helper}) @@ [r \in Callables |-> CallsAll(calls[r])] :
             calls \in [Callables -> SUBSET Callables]}

MCPrograms ==
  {main :> body : body \in Bodies}
  \cup Graphs
  \cup {main :> body @@ helper :> first @@ other :> second :
          body \in Mains, first \in Leaves \cup Calling(other), 
          second \in Leaves \cup Calling(helper) \cup Calling(other)}
=============================================================================
