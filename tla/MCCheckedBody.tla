---------------------------- MODULE MCCheckedBody ---------------------------
(***************************************************************************)
(* Bodies and bounds for model checking CheckedBody.                       *)
(***************************************************************************)
EXTENDS CheckedBody

CONSTANTS x, p, y    \* names, as model values

MCNames == {x, p, y}

\* flow body(x: Proposal<A>, p: Permit<A>), where p was issued for x.
Given ==
  [arguments |-> [n \in {x, p} |-> IF n = x THEN [type |-> Proposal, id |-> 1]
                                  ELSE [type |-> Permit, id |-> 2]],
   issued    |-> <<0, 1>>]

MCBodies == {Given}
MCReturnType == <<"result">> \o Permit

\* `list', `some' and `ok' move their operand as `record' does; the data that
\* bodies handle comes from a commit.
MCForms == {"propose", "path", "record", "variant", "field", "try", "authorize"}
AllCopying == {"field", "try", "variant", "payload"}
=============================================================================
