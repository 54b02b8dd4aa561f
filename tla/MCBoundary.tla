----------------------------- MODULE MCBoundary -----------------------------
(* Small instances of Boundary. *)
EXTENDS Boundary

Alias(t)               == [kind |-> "alias", names |-> <<"">>, types |-> <<t>>]
Rec(names, types)      == [kind |-> "record", names |-> names, types |-> types]
Enumeration(names, types) == [kind |-> "enum", names |-> names, types |-> types]

Of(name, t) == Ty(name, <<t>>)
Number     == Basic("Int")
Text    == Basic("Text")
Instant == Basic("Instant")
Secret  == Of("Secret", Text)
Permit  == Basic("Permit")

A == "A"
B == "B"
TheA == Basic(A)
TheB == Basic(B)

\* A and B: aliases, records and enums that hold data, wrappers, each other or themselves.
Inner == {Number, Instant, Basic("Unit"), Of("Untrusted", Text), Of("Incoming", Text), Of("Checked", Number), Of("Candidate", Number), Permit, TheA, TheB,
          Of("Option", TheA), Of("List", TheB)}
Bs == {Alias(t) : t \in Inner} \cup {Rec(<<"x", "y">>, <<Number, t>>) : t \in Inner}
      \cup {Enumeration(<<"one", "two">>, <<NoPayload, t>>) : t \in Inner}
As == {Alias(TheB), Alias(Of("Result", TheB)), Rec(<<"x">>, <<TheB>>), Rec(<<"x", "y">>, <<TheB, TheB>>),
       Enumeration(<<"two", "three">>, <<TheB, Text>>), Enumeration(<<"one">>, <<NoPayload>>)}

Pairs == {(A :> a) @@ (B :> b) : a \in As, b \in Bs}
Holders == {TheA, Of("Option", TheA), Of("Incoming", TheA), Ty("Result", <<TheB, Basic("Error")>>)}

\* Types that need no declarations.
Direct == {Secret, Of("List", Secret), Ty("Result", <<Secret, Permit>>), Ty("Result", <<Secret, Basic("Receipt")>>),
           Ty("Result", <<Secret, Basic("Proposal")>>), Ty("Result", <<Secret, Of("Observation", Number)>>),
           Ty("Result", <<Number, Of("Candidate", Secret)>>),
           Instant, Of("Incoming", Of("Checked", Of("Option", Number))), Of("Incoming", Of("Option", Instant)),
           Of("Untrusted", Of("Untrusted", Basic("Bool"))), Of("Option", Of("Option", Basic("Unit"))),
           Of("List", Of("Observation", Number)), Permit, Basic("Missing"), Ty("Int", <<Number>>)}

Sources1 == {[declarations |-> d, place |-> p, type |-> t] : d \in Pairs, p \in Places, t \in Holders}
Sources2 == {[declarations |-> d, place |-> p, type |-> t] :
                d \in {<<>>, A :> Alias(Secret), A :> Rec(<<"x">>, <<Secret>>)}, p \in Places, t \in Direct}
MCSources == Sources1 \cup Sources2
-----------------------------------------------------------------------------
Num(n)   == Node("number", <<>>, <<n>>, <<>>)
Date(t)  == Node("string", <<>>, t, <<>>)
Null     == Leaf("null")

Dates == {<<2024, 2, 29, 23, 59, 59>>, <<1900, 2, 28, 0, 0, 0>>, <<2000, 2, 29, 12, 0, 0>>, <<1, 1, 1, 0, 0, 0>>,
          <<9999, 12, 31, 23, 59, 59>>, <<1969, 12, 31, 23, 59, 59>>}
NoDates == {<<1900, 2, 29, 0, 0, 0>>, <<2023, 13, 1, 0, 0, 0>>, <<2023, 4, 31, 0, 0, 0>>, <<2023, 1, 1, 24, 0, 0>>,
            <<0, 1, 1, 0, 0, 0>>, <<2023, 1, 0, 0, 0, 0>>}

MCSamples == {Null, Num(0), Num(1), String("a"), Date(<<2024, 2, 29, 23, 59, 59>>), Node("boolean", <<"true">>, <<>>, <<>>)}

Payload == {Num(0), String("a"), Null}
MCDocuments ==
  {Date(t) : t \in Dates \cup NoDates} \cup Payload
  \cup {Tagged("some", j) : j \in Payload} \cup {Tagged("ok", j) : j \in Payload} \cup {Tagged("x", j) : j \in Payload}
  \cup {Object(<<"x", "y">>, <<Num(0), j>>) : j \in Payload}
  \cup {Object(<<"x", "y", "z">>, <<Num(0), Num(1), Null>>), Object(<<"error", "ok">>, <<String("a"), Num(0)>>)}
  \cup {Tagged("variant", String(n)) : n \in {"one", "two", "A.one", "none"}}
  \cup {Object(<<"value", "variant">>, <<j, String(n)>>) : j \in Payload, n \in {"one", "two"}}
  \cup {Node("array", <<>>, <<>>, <<Num(0), j>>) : j \in Payload}

MCArms ==
  LET Patterns == {<<>>, <<"one">>, <<"two">>, <<A, "two">>, <<B, "one">>, <<B, "two">>, <<"three">>, <<"Some">>,
                   <<"Option", "None">>, <<"Ok">>, <<"Result", "Err">>}
  IN  UNION {[1..n -> Patterns] : n \in 1..2}

MCShifts == {-86400, -1, 1, 86400, 2592000, 1000000000, -1000000000}
=============================================================================
