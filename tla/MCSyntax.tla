------------------------------ MODULE MCSyntax ------------------------------
(***************************************************************************)
(* Source texts for model checking Syntax: every form of expression with   *)
(* every form in its places, flat expressions of three operators, every    *)
(* declaration with one token missing, doubled or replaced, metadata and   *)
(* sections in every order, and comments anywhere.                         *)
(***************************************************************************)
EXTENDS Syntax

MCNames == {"a", "b", "_"}

Group(e) == <<"(">> \o e \o <<")">>
A == <<"a">>
B == <<"b">>
Args(e) == <<"(">> \o e \o <<")">>

\* The forms of expression with one operand, with two, and with none.
Forms1(e) ==
  { e \o <<"?">>, e \o <<".", "b">>, e \o <<"(", ")">>, <<"-">> \o e, <<"!">> \o e,
    <<"[", "a", ",">> \o e \o <<"]">>, <<"b", "{", "a", "=">> \o e \o <<"}">>,
    <<"a", "(", "b", "=">> \o e \o <<",", "a", ")">>,
    <<"infer", "b">> \o Args(e) \o <<"using", "@m">>, <<"observe", "b">> \o Args(e),
    <<"validate">> \o e \o <<"with", "b">>, <<"authorize">> \o e \o <<"using", "a", ".", "b">>,
    <<"intent", "b", "{", "a", "=">> \o e \o <<";", "}">>,
    <<"propose", "a", "(", "b", ")", "for">> \o e,
    <<"match">> \o e \o <<"{", "a", "(", "b", ")", "=>", "b", ",", "_", "=>", "1", "}">>,
    <<"match", "a", "{", "a", ".", "b", "=>">> \o e \o <<"}">>,
    <<"if">> \o e \o <<"{", "return", "a", ";", "}", "else", "{", "b", ";", "}">>,
    <<"if", "a", "{">> \o e \o <<";", "}", "else", "{", "let", "b", ":", "a", "=">> \o e \o <<";", "}">> }
Forms2(e, f) ==
  { e \o <<"+">> \o f, e \o <<"==">> \o f, <<"commit">> \o e \o <<"with">> \o f,
    <<"reconcile">> \o e \o <<"against">> \o f \o <<"with", "b">> }
Forms0 == {A, <<"a", ".", "b">>, <<"1">>, <<"true">>, <<"(", ")">>, <<"[", "]">>}

Simple == Forms0 \cup Forms1(A) \cup Forms2(A, B)
Grouped == {Group(e) : e \in Simple}

Trees2 == UNION {Forms1(e) : e \in Grouped} \cup UNION {Forms2(e, B) \cup Forms2(A, e) : e \in Grouped}

\* Three operators between operands with a prefix or a postfix.
Operators == {"||", "&&", "==", "<", "-", "*"}
Flat ==
  { <<"a", x, "b", y, "a", z, "b">> : x, y, z \in Operators }
  \cup { <<"-", "a">> \o e \o <<x, "!", "b", "?", y, "commit", "a", "with", "b", z, "a">> :
           e \in {<<"?">>, <<".", "b", "(", ")">>, <<>>}, x, y, z \in {"&&", "==", "*"} }

M == <<"module", "a", ".", "b", ";">>
Body(e) == <<"fn", "a", "(", ")", "->", "b", "{", "return">> \o e \o <<";", "}">>
Programs == {M \o Body(e) : e \in Trees2 \cup Flat}
-----------------------------------------------------------------------------
Parameters == <<"(", "a", ":", "b", "<", "a", ",", "b", "<", "a", ">", ">", ",", ")">>

Declarations == {
  <<"type", "a", "=", "b", ".", "a", ";">>,
  <<"type", "a", "=", "{", "a", ":", "b", ",", "b", ":", "a", "}", ";">>,
  <<"enum", "a", "{", "a", "(", "b", ")", ",", "b", "}">>,
  <<"capability", "a">> \o Parameters \o <<";">>,
  <<"flow", "a", "(", ")", "->", "b", "uses", "[", "a", "(", "b", ")", "]", "{", "let", "a", "=", "1", ";",
    "require", "a", ";", "update", "state", "{", "a", "=", "1", "}", "commit", "a", "with", "b", ";", "}">>,
  <<"prompt", "a", "(", ")", "->", "b", "{", "instruction", "text", ";", "data", "{", "a", "}", ";", "}">>,
  <<"validator", "a", "(", ")", "{", "require", "a", ";", "require", "b", ";", "}">>,
  <<"tool", "a", ".", "b", "(", ")", "->", "b", "{", "risk", "reversible", ";", "capability", "a", "(", ")",
    ";", "mode", "read", ";", "}">>,
  <<"policy", "a", "(", ")", "{", "allow", "when", "a", ";", "approve", "by", "b", "when", "a", ";", "deny",
    "s", "otherwise", ";", "}">>,
  <<"agent", "a", "(", ")", "requires", "[", "a", "(", ")", "]", "{", "state", "{", "a", ":", "b", "=", "1",
    ";", "}", "budget", "per_event", "{", "a", "<=", "1", ";", "}", "on", "a", "(", "b", ":", "a", ")", "->",
    "b", "{", "return", "b", ";", "}", "}">> }

Good == <<"enum", "b", "{", "b", "}">>

\* One token of d is missing, doubled or another one.
Damaged(d) ==
  {RemoveAt(d, k) : k \in DOMAIN d} \cup {InsertAt(d, k, d[k]) : k \in DOMAIN d}
  \cup {[d EXCEPT ![k] = token] : k \in DOMAIN d, token \in {"}", "a", "capability"}}

Modules ==
  {M \o d \o Good : d \in Declarations \cup UNION {Damaged(e) : e \in Declarations}}
  \cup {RemoveAt(M, k) \o Good : k \in DOMAIN M}
-----------------------------------------------------------------------------
Metadata == {<<"mode", "write", ";">>, <<"capability", "a", "(", "b", ")", ";">>, <<"risk", "reversible", ";">>,
             <<"idempotency", "b", ";">>, <<"sensitivity", "secret", ";">>}
Tools == { M \o <<"tool", "a", "(", ")", "->", "b", "{">> \o x \o y \o z \o <<"}">> \o Good :
             x, y, z \in Metadata }

Sections == {<<"state", "{", "}">>, <<"state", "{", "a", ":", "b", "=", "1", ";", "}">>,
             <<"budget", "per_event", "{", "}">>, <<"budget", "per_event", "{", "b", "<=", "1", ";", "}">>,
             <<"on", "a", "(", ")", "->", "b", "{", "}">>}
Agents == { M \o <<"agent", "a", "(", ")", "requires", "[", "]", "{">> \o x \o y \o z \o <<"}">> :
             x, y, z \in Sections }

Short == M \o <<"type", "a", "=", "b", ";", "fn", "a", "(", ")", "->", "b", "{", "a", ";", "}">>
Commented == { InsertAt(InsertAt(Short, i, "// one"), j, "// two") :
                 i \in 1..(Len(Short) + 1), j \in 1..(Len(Short) + 2) }

\* Functions that return an expression with one of several parts in parentheses in it.
Compound == Forms1(A) \cup Forms2(A, B)
MCNestedExpressions ==
  {M \o Body(e) : e \in UNION {Forms1(Group(f)) \cup Forms2(Group(f), B) : f \in Compound}}

MCTexts == Programs \cup Modules \cup Tools \cup Agents \cup Commented
=============================================================================
