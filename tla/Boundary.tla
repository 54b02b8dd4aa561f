------------------------------ MODULE Boundary ------------------------------
(***************************************************************************)
(* Data at the boundary of a program.  The checker decides which declared  *)
(* types may stand where values enter and leave (aster-semantics model.rs  *)
(* and checker.rs); the runtime decodes JSON by the declared type, encodes *)
(* what leaves, and decodes it again: the state of the next run, and the   *)
(* arguments of a proposal that a policy reads (machine.rs).               *)
(*                                                                         *)
(* A type is its name and its arguments; the action or the purpose of a    *)
(* governance type is left out.  JSON and runtime values are trees.  A     *)
(* `Duration' is decoded as an `Int' and a `ProvenanceRef' as a `Text'.    *)
(***************************************************************************)
EXTENDS Calendar, SequencesExt

CONSTANTS
  Sources,     \* the declarations of a module, a place in it and the type there
  Samples,     \* JSON of basic types, one of which a value may hold
  Documents,   \* JSON that may arrive, besides the encodings of values
  Arms,        \* the arms of a match
  Shifts,      \* what is added to an instant, in seconds
  MaxShifts    \* how often

VARIABLES
  source,      \* one of Sources
  stage,       \* "declared", "accepted" or "rejected" by the checker; then the value is
               \* "refused", "inside", "failed", "outside", "again" or "unreadable"
  document,    \* the JSON outside
  value,       \* the value inside
  shifts       \* what was added to it

vars == <<source, stage, document, value, shifts>>
-----------------------------------------------------------------------------
(* Types *)

Ty(name, arguments) == [name |-> name, arguments |-> arguments]
Basic(name) == Ty(name, <<>>)

\* The payload of a variant without one.
NoPayload == Basic("")

BasicTypes == {"Unit", "Bool", "Int", "Text", "Instant", "Error"}
External   == {"Incoming", "Untrusted"}
Validated  == {"Checked", "Observation"}
Wrappers   == {"Option", "List", "Candidate", "Secret"} \cup External \cup Validated
Governance == {"Intent", "Proposal", "Permit", "Receipt", "Reconciled"}

\* A declaration is an alias, a record or an enum, with the names of its
\* fields or variants and their types.
Declared == source.declarations
Types(name) == Declared[name].types
IsAlias(name) == name \in DOMAIN Declared /\ Declared[name].kind = "alias"

Arity(name) == IF name = "Result" THEN 2 ELSE IF name \in Wrappers THEN 1 ELSE 0

\* resolve_type, of the outermost constructor.
Constructor(t) ==
  IF /\ t.name \in BasicTypes \cup Wrappers \cup Governance \cup {"", "Result"} \cup DOMAIN Declared
     /\ Len(t.arguments) = Arity(t.name)
  THEN t.name ELSE "Unknown"

RECURSIVE WellFormed(_), Normalized(_, _), ContainsType(_, _, _), BoundaryData(_, _, _)
RECURSIVE AliasReaches(_, _, _), ReferenceReaches(_, _, _)

\* check_type_reference finds nothing.
WellFormed(t) == Constructor(t) # "Unknown" /\ \A i \in DOMAIN t.arguments : WellFormed(t.arguments[i])

Normalized(t, seen) ==
  IF ~IsAlias(Constructor(t)) THEN t
  ELSE IF t.name \in seen THEN Basic("Unknown")
  ELSE Normalized(Types(t.name)[1], seen \cup {t.name})

\* contains_secret and contains_candidate.
ContainsType(what, t, seen) ==
  LET constructor == Constructor(t)
      OneOf(parts, visited) == \E i \in DOMAIN parts : ContainsType(what, parts[i], visited)
  IN  \/ constructor = what
      \/ constructor \in Wrappers \cup {"Result"} /\ OneOf(t.arguments, seen)
      \/ constructor \in DOMAIN Declared \ seen /\ OneOf(Types(t.name), seen \cup {t.name})

\* is_boundary_data: plain data and the wrappers of the boundary, not recursive.
BoundaryData(t, seen, admitted) ==
  LET normal == Normalized(t, {})
      constructor == Constructor(normal)
      All(parts, visited) == \A i \in DOMAIN parts : BoundaryData(parts[i], visited, admitted)
  IN  \/ constructor \in BasicTypes \cup {""}
      \/ constructor \in {"Option", "List", "Result"} \cup admitted /\ All(normal.arguments, seen)
      \/ constructor \in DOMAIN Declared \ seen /\ All(Types(normal.name), seen \cup {normal.name})

Serializable(t) == BoundaryData(t, {}, External \cup Validated)

AliasReaches(name, target, visited) ==
  /\ IsAlias(name) /\ name \notin visited
  /\ ReferenceReaches(Types(name)[1], target, visited \cup {name})

ReferenceReaches(t, target, visited) ==
  \/ t.name = target
  \/ \E i \in DOMAIN t.arguments : ReferenceReaches(t.arguments[i], target, visited)
  \/ AliasReaches(t.name, target, visited)
-----------------------------------------------------------------------------
(* Where a type stands *)

\* Where values come from outside, and where they leave.
Inbound == {"capability parameter", "prompt result", "tool result", "agent parameter", "state field",
            "handler parameter"}
ToolParameters == {"tool parameter", "secret tool parameter", "idempotency key"}
Outbound == ToolParameters \cup {"prompt parameter", "state field", "handler result"}
Places == Inbound \cup Outbound \cup {"validator parameter"}

\* Faulty variant: what only prompts may be given is admitted from outside.
AdmittedWidely(place) ==
  IF place \in ToolParameters THEN External \cup Validated \cup {"Secret"}
  ELSE IF place \in {"agent parameter", "handler parameter", "prompt parameter"}
  THEN External \cup Validated ELSE {}

Admitted(place) ==
  CASE place \in {"agent parameter", "handler parameter"} -> External
    [] place = "prompt parameter" -> External \cup Validated
    [] place \in ToolParameters -> External \cup Validated \cup {"Secret"}
    [] OTHER -> {}

SecretsRejected(place) == place \notin {"prompt result", "secret tool parameter"}

\* check_type_well_formedness, and the secrets in declared types.
SoundDeclaration(name) ==
  /\ \A i \in DOMAIN Types(name) : WellFormed(Types(name)[i]) /\ ~ContainsType("Secret", Types(name)[i], {})
  /\ ~AliasReaches(name, name, {})

\* The placement checks; reject_invalid_boundary_type leaves types with a
\* candidate or a secret to the checks before it.
SoundPlacement(place, t) ==
  /\ WellFormed(t) /\ ~ContainsType("Candidate", t, {})
  /\ IF ContainsType("Secret", t, {}) THEN ~SecretsRejected(place) ELSE BoundaryData(t, {}, Admitted(place))
  /\ place = "handler parameter" => Constructor(Normalized(t, {})) = "Incoming"
  /\ place = "idempotency key" => Serializable(t)
-----------------------------------------------------------------------------
(* Values and JSON *)

Node(kind, names, numbers, parts) == [kind |-> kind, names |-> names, numbers |-> numbers, parts |-> parts]
Leaf(kind)             == Node(kind, <<>>, <<>>, <<>>)
Holding(kind, part)    == Node(kind, <<>>, <<>>, <<part>>)
Object(keys, parts)    == Node("object", keys, <<>>, parts)
Tagged(tag, part)      == Object(<<tag>>, <<part>>)
String(name)           == Node("string", <<name>>, <<>>, <<>>)

Nothing == Leaf("nothing")
Refused == Leaf("refused")

RECURSIVE Spelling(_)
Spelling(t) == Node("type", <<t.name>>, <<>>, [i \in DOMAIN t.arguments |-> Spelling(t.arguments[i])])

\* boundary_provenance: a digest of the JSON and of the type as it is written
\* (whose wrapper is the name of the boundary).
BoundaryProvenance(t, json) == Node("digest", <<>>, <<>>, <<Spelling(t), json>>)

\* A value that came through a boundary as a type, with its provenance.
Provenanced(t, v, json) == Node(t.name, <<>>, <<>>, <<v, BoundaryProvenance(t, json)>>)

Keys(json)    == IF json.kind = "object" THEN ToSet(json.names) ELSE {}
Get(json, key) == json.parts[CHOOSE i \in DOMAIN json.names : json.names[i] = key]

\* A value of parts, unless one of them was refused.
Built(kind, names, parts) ==
  IF Refused \in ToSet(parts) THEN Refused ELSE Node(kind, names, <<>>, parts)

\* Faulty variant: fields the record does not have are ignored.
HasSomeFields(json, fields) == ToSet(fields) \subseteq Keys(json)

HasFields(json, fields) == Keys(json) = ToSet(fields)

\* What a basic type is decoded from, and to.
BasicJson(t)  == CASE t = "Unit" -> "null" [] t = "Bool" -> "boolean" [] t = "Int" -> "number" [] OTHER -> "string"
BasicKind(t)  == IF t \in {"Instant", "Error"} THEN "Text" ELSE t

RECURSIVE Decode(_, _), Encode(_), FromJson(_)

\* Faulty variant: an instant is what has the layout of one.
DecodeText(json, t) ==
  IF json.kind = BasicJson(t) /\ (t = "Instant" => json.numbers # <<>>)
  THEN [json EXCEPT !.kind = BasicKind(t)] ELSE Refused

DecodeBasic(json, t) ==
  IF json.kind = BasicJson(t) /\ (t = "Instant" => json.numbers # <<>> /\ ValidInstant(json.numbers))
  THEN [json EXCEPT !.kind = BasicKind(t)] ELSE Refused

DecodeResult(json, t) ==
  CASE Keys(json) = {"ok"} -> Built("Ok", <<>>, <<Decode(Get(json, "ok"), t.arguments[1])>>)
    [] Keys(json) = {"error"} -> Built("Err", <<>>, <<Decode(Get(json, "error"), t.arguments[2])>>)
    [] OTHER -> Refused

DecodeOption(json, t) ==
  CASE json.kind = "null" -> Leaf("None")
    [] Keys(json) = {"some"} -> Built("Some", <<>>, <<Decode(Get(json, "some"), t.arguments[1])>>)
    [] OTHER -> Refused

DecodeRecord(json, name) ==
  LET fields == Declared[name].names
  IN  IF json.kind = "object" /\ HasFields(json, fields)
      THEN Built("Record", fields, [i \in DOMAIN fields |-> Decode(Get(json, fields[i]), Types(name)[i])])
      ELSE Refused

DecodeEnum(json, name) ==
  LET variants == {i \in DOMAIN Types(name) : Get(json, "variant") = String(Declared[name].names[i])}
      variant  == CHOOSE i \in variants : TRUE
      path     == <<name, Declared[name].names[variant]>>
  IN  IF "variant" \notin Keys(json) THEN Refused
      ELSE IF variants = {} THEN Refused
      ELSE IF Types(name)[variant] = NoPayload
           THEN IF Keys(json) = {"variant"} THEN Node("Enum", path, <<>>, <<>>) ELSE Refused
      ELSE IF Keys(json) = {"variant", "value"}
           THEN Built("Enum", path, <<Decode(Get(json, "value"), Types(name)[variant])>>)
      ELSE Refused

\* decode_json.
Decode(json, t) ==
  CASE IsAlias(t.name) -> Decode(json, Types(t.name)[1])
    [] t.name \in External ->
         Built(t.name, <<>>, <<Decode(json, t.arguments[1]), BoundaryProvenance(t, json)>>)
    [] t.name = "Result" -> DecodeResult(json, t)
    [] t.name = "Option" -> DecodeOption(json, t)
    [] t.name = "List" /\ json.kind = "array" ->
         Built("List", <<>>, [i \in DOMAIN json.parts |-> Decode(json.parts[i], t.arguments[1])])
    [] t.name \in BasicTypes -> DecodeBasic(json, t.name)
    [] t.name \in DOMAIN Declared /\ ~IsAlias(t.name) ->
         IF Declared[t.name].kind = "record" THEN DecodeRecord(json, t.name) ELSE DecodeEnum(json, t.name)
    [] OTHER -> Refused

\* runtime_to_json; permits and secrets are refused.  An intent and a proposal
\* are objects of their fields, a receipt is the result of its write.
Encode(v) ==
  LET parts == [i \in DOMAIN v.parts |-> Encode(v.parts[i])]
      Under(tag) == Built("object", <<tag>>, parts)
  IN  CASE v.kind \in {"Unit", "None"} -> Leaf("null")
        [] v.kind = "Bool" -> [v EXCEPT !.kind = "boolean"]
        [] v.kind = "Int" -> [v EXCEPT !.kind = "number"]
        [] v.kind = "Text" -> [v EXCEPT !.kind = "string"]
        [] v.kind = "List" -> Built("array", <<>>, parts)
        [] v.kind \in {"Record", "Intent", "Proposal"} -> Built("object", v.names, parts)
        [] v.kind = "Enum" ->
             IF v.parts = <<>> THEN Tagged("variant", String(Last(v.names)))
             ELSE Built("object", <<"value", "variant">>, <<parts[1], String(Last(v.names))>>)
        [] v.kind = "Some" -> Under("some")
        [] v.kind = "Ok" -> Under("ok")
        [] v.kind = "Err" -> Under("error")
        [] v.kind \in External \cup Validated \cup {"Candidate", "Receipt", "Reconciled"} -> Encode(v.parts[1])
        [] OTHER -> Refused

\* json_to_runtime: what a capability request reads of the arguments of a tool.
FromJson(json) ==
  LET parts == [i \in DOMAIN json.parts |-> FromJson(json.parts[i])]
  IN  CASE json.kind = "null" -> Leaf("None")
        [] json.kind = "array" -> [json EXCEPT !.kind = "List", !.parts = parts]
        [] json.kind = "object" -> [json EXCEPT !.kind = "Record", !.parts = parts]
        [] json.kind = "boolean" -> [json EXCEPT !.kind = "Bool"]
        [] json.kind = "number" -> [json EXCEPT !.kind = "Int"]
        [] json.kind = "string" -> [json EXCEPT !.kind = "Text"]
-----------------------------------------------------------------------------
(* Matching.  A pattern is a path; the wildcard is <<>>. *)

\* match_pattern.  The variants of Option and Result have no path of their own.
VariantPath(v) == IF v.kind = "Enum" THEN v.names ELSE <<v.kind>>

\* Faulty variant: patterns are compared as they are written.
MatchesWhole(v, pattern) == pattern = <<>> \/ pattern = VariantPath(v)

MatchPattern(v, pattern) == pattern = <<>> \/ Last(pattern) = Last(VariantPath(v))

\* The variants of the type that is matched, and the name that qualifies them.
MatchVariants(t) ==
  LET normal == Normalized(t, {}) IN
  CASE normal.name = "Option" -> <<"None", "Some">>
    [] normal.name = "Result" -> <<"Ok", "Err">>
    [] normal.name \in DOMAIN Declared -> IF Declared[normal.name].kind = "enum" THEN Declared[normal.name].names ELSE <<>>
    [] OTHER -> <<>>

\* check_match_expression: patterns of the type, once each, all of them or a
\* wildcard, which comes last.
SoundMatch(arms, t) ==
  LET variants == ToSet(MatchVariants(t))
      Covered  == {Last(arms[i]) : i \in {k \in DOMAIN arms : arms[k] # <<>>}}
  IN  /\ variants # {}
      /\ \A i \in DOMAIN arms :
           IF arms[i] = <<>> THEN i = Len(arms)
           ELSE /\ Last(arms[i]) \in variants
                /\ Len(arms[i]) = 1 \/ Front(arms[i]) = <<Normalized(t, {}).name>>
                /\ \A k \in 1..(i - 1) : Last(arms[k]) # Last(arms[i])
      /\ <<>> \in ToSet(arms) \/ Covered = variants

\* select_arm; 0 is the error that no arm matches.
SelectArm(arms, v) ==
  LET matching == {i \in DOMAIN arms : MatchPattern(v, arms[i])}
  IN  IF matching = {} THEN 0 ELSE CHOOSE i \in matching : \A k \in matching : i <= k
-----------------------------------------------------------------------------
(* Values a program can have at hand; there is none of a secret. *)

RECURSIVE ValuesOf(_)

Fitting(kind, names, types) ==
  LET Parts == UNION {ValuesOf(types[i]) : i \in DOMAIN types}
  IN  {Node(kind, names, <<>>, p) :
         p \in {q \in [DOMAIN types -> Parts] : \A i \in DOMAIN types : q[i] \in ValuesOf(types[i])}}

ValuesOfDeclared(name) ==
  LET declaration == Declared[name]
      Variant(i)  == Fitting("Enum", <<name, declaration.names[i]>>,
                             IF declaration.types[i] = NoPayload THEN <<>> ELSE <<declaration.types[i]>>)
  IN  CASE declaration.kind = "alias" -> ValuesOf(declaration.types[1])
        [] declaration.kind = "record" -> Fitting("Record", declaration.names, declaration.types)
        [] declaration.kind = "enum" -> UNION {Variant(i) : i \in DOMAIN declaration.names}

\* The types a value of t may have come in as: its argument may have been
\* written with an alias or without.
Spellings(t) ==
  {t} \cup IF IsAlias(t.arguments[1].name) THEN {Ty(t.name, Types(t.arguments[1].name))} ELSE {}

ValuesOf(t) ==
  LET name == Constructor(t) IN
  CASE name \in BasicTypes -> {DecodeBasic(json, name) : json \in Samples} \ {Refused}
    [] name = "Option" -> {Leaf("None")} \cup Fitting("Some", <<>>, t.arguments)
    [] name = "List" -> UNION {Fitting("List", <<>>, types) : types \in {<<>>, t.arguments, t.arguments \o t.arguments}}
    [] name = "Result" -> Fitting("Ok", <<>>, <<t.arguments[1]>>) \cup Fitting("Err", <<>>, <<t.arguments[2]>>)
    [] name \in External -> {Provenanced(u, v, Encode(v)) : u \in Spellings(t), v \in ValuesOf(t.arguments[1])}
    [] name \in Validated \cup {"Candidate"} -> Fitting(name, <<>>, t.arguments)
    [] name \in {"Receipt", "Reconciled"} -> Fitting(name, <<>>, <<Basic("Text")>>)
    [] name \in {"Intent", "Proposal"} -> Fitting(name, <<"purpose">>, <<Basic("Text")>>)
    [] name = "Permit" -> {Leaf(name)}
    [] name \in DOMAIN Declared -> ValuesOfDeclared(name)
    [] OTHER -> {}

Encodings(t) == {Encode(v) : v \in ValuesOf(t)} \ {Refused}
-----------------------------------------------------------------------------
(* What happens to the data *)

Init ==
  /\ source \in Sources
  /\ stage = "declared"
  /\ document = Nothing
  /\ value = Nothing
  /\ shifts = <<>>

\* The part of check_module about types and their places.
Check ==
  /\ stage = "declared"
  /\ LET sound == /\ \A name \in DOMAIN Declared : SoundDeclaration(name)
                  /\ SoundPlacement(source.place, source.type)
     IN  stage' = IF sound THEN "accepted" ELSE "rejected"
  /\ UNCHANGED <<source, document, value, shifts>>

\* A resolution, an input of a run or a grant is decoded by its declared type.
Receive ==
  /\ stage = "accepted" /\ source.place \in Inbound
  /\ \E json \in Documents \cup Encodings(source.type) :
       /\ document' = json
       /\ value' = Decode(json, source.type)
       /\ stage' = IF value' = Refused THEN "refused" ELSE "inside"
  /\ UNCHANGED <<source, shifts>>

\* The program computes a value.
Produce ==
  /\ stage = "accepted" /\ source.place \in Outbound
  /\ \E v \in ValuesOf(source.type) : value' = v
  /\ stage' = "inside"
  /\ UNCHANGED <<source, document, shifts>>

\* A call of the built-in add_seconds.
Shift ==
  /\ stage = "inside" /\ Normalized(source.type, {}).name = "Instant" /\ Len(shifts) < MaxShifts
  /\ \E seconds \in Shifts :
       LET sum == AddSeconds(value.numbers, seconds) IN
       /\ stage' = IF sum = <<>> THEN "failed" ELSE "inside"
       /\ value' = IF sum = <<>> THEN value ELSE [value EXCEPT !.numbers = sum]
       /\ shifts' = Append(shifts, seconds)
  /\ UNCHANGED <<source, document>>

\* The payload of a request, the result of a run and its state.
Send ==
  /\ stage = "inside"
  /\ document' = Encode(value)
  /\ stage' = IF document' = Refused THEN "failed" ELSE "outside"
  /\ UNCHANGED <<source, value, shifts>>

\* The next run gets the state; a policy reads the arguments of a proposal.
ReadBack ==
  /\ stage = "outside" /\ source.place \in ToolParameters \cup {"state field"}
  /\ value' = Decode(document, source.type)
  /\ stage' = IF value' = Refused THEN "unreadable" ELSE "again"
  /\ UNCHANGED <<source, document, shifts>>

Next == Check \/ Receive \/ Produce \/ Shift \/ Send \/ ReadBack

Spec == Init /\ [][Next]_vars
-----------------------------------------------------------------------------
(* Properties *)

\* What t leads to through arguments, aliases, fields and payloads, step by step.
Adjacent(t) ==
  ToSet(t.arguments) \cup IF Constructor(t) \in DOMAIN Declared THEN ToSet(Types(t.name)) ELSE {}

RECURSIVE Closure(_)
Closure(types) ==
  LET more == types \cup UNION {Adjacent(t) : t \in types}
  IN  IF more = types THEN types ELSE Closure(more)

Reached(t) == {Constructor(u) : u \in Closure({t})}

\* Declared types that are not aliases and lead back to themselves.
Recursive(t) ==
  \E u \in Closure({t}) : ~IsAlias(u.name) /\ Constructor(u) \in DOMAIN Declared /\ u \in Closure(Adjacent(u))

\* What the specification admits at a place besides plain data.
Allowed(place) ==
  CASE place \in {"agent parameter", "handler parameter"} -> External
    [] place \in {"prompt parameter", "tool parameter", "idempotency key"} -> External \cup Validated
    [] place = "secret tool parameter" -> External \cup Validated \cup {"Secret"}
    [] OTHER -> {}

OnlyPlain(place, t) ==
  /\ Reached(t) \subseteq BasicTypes \cup {"", "Option", "List", "Result"} \cup Allowed(place) \cup DOMAIN Declared
  /\ ~Recursive(t)

Closed(name) ==
  /\ \A t \in ToSet(Types(name)) : Reached(t) \intersect {"Unknown", "Secret"} = {}
  /\ Declared[name].kind = "alias" => Basic(name) \notin Closure(ToSet(Types(name)))

\* Left open: a result of a prompt or a parameter of a secret tool that leads
\* to a secret.  The specification asks for plain data beside the secret
\* (docs/spec/aster-0.1.md:213), the checker asks for less (checker.rs:228 and
\* :394).
LeavesOpen(place, t) ==
  place \in {"prompt result", "secret tool parameter"} /\ "Secret" \in Reached(t)

\* A module is accepted when its declarations are closed and its place holds
\* nothing but what the place admits, however deep it is and whatever names it
\* goes by, and is not recursive; and, but for the places left open, only then.
\* A candidate and an unknown type are accepted nowhere.
OnlyAllowedCrosses ==
  stage # "declared" =>
    LET closed == /\ \A name \in DOMAIN Declared : Closed(name)
                  /\ Reached(source.type) \intersect {"Unknown", "Candidate"} = {}
                  /\ source.place = "handler parameter" => Normalized(source.type, {}).name = "Incoming"
        plain  == OnlyPlain(source.place, source.type)
    IN  /\ closed /\ plain => stage # "rejected"
        /\ stage # "rejected" => closed /\ (plain \/ LeavesOpen(source.place, source.type))

\* An instant is one the days of the calendar count.
OnCalendar(t) ==
  /\ CivilFromDays(DaysFromCivil(t[1], t[2], t[3])) = SubSeq(t, 1, 3)
  /\ t[1] \in 1..9999 /\ t[4] \in 0..23 /\ t[5] \in 0..59 /\ t[6] \in 0..59

RECURSIVE Inhabits(_, _)
Inhabits(v, t) ==
  LET All(types) == Len(v.parts) = Len(types) /\ \A i \in DOMAIN types : Inhabits(v.parts[i], types[i]) IN
  CASE t.name \in BasicTypes -> v.kind = BasicKind(t.name) /\ (t.name = "Instant" => OnCalendar(v.numbers))
    [] t.name = "Option" -> v = Leaf("None") \/ (v.kind = "Some" /\ All(t.arguments))
    [] t.name = "List" -> v.kind = "List" /\ \A i \in DOMAIN v.parts : Inhabits(v.parts[i], t.arguments[1])
    [] t.name = "Result" -> \/ v.kind = "Ok" /\ All(<<t.arguments[1]>>)
                            \/ v.kind = "Err" /\ All(<<t.arguments[2]>>)
    [] t.name \in External \cup Validated -> v.kind = t.name /\ Inhabits(v.parts[1], t.arguments[1])
    [] IsAlias(t.name) -> Inhabits(v, Types(t.name)[1])
    [] t.name \in DOMAIN Declared /\ ~IsAlias(t.name) ->
         \/ v.kind = "Record" /\ v.names = Declared[t.name].names /\ All(Types(t.name))
         \/ v.kind = "Enum" /\ \E i \in DOMAIN Types(t.name) :
              /\ v.names = <<t.name, Declared[t.name].names[i]>>
              /\ All(IF Types(t.name)[i] = NoPayload THEN <<>> ELSE <<Types(t.name)[i]>>)
    [] OTHER -> FALSE

RECURSIVE Holds(_, _), Unspelled(_)
Holds(v, kinds) == v.kind \in kinds \/ \E i \in DOMAIN v.parts : Holds(v.parts[i], kinds)

\* Values of which decode_json has no case.
Unreadable == Validated \cup Governance

\* What was decoded is of the declared type, with dates the calendar has; what
\* was refused is not the JSON of a value of the type, unless decode_json has
\* no case for a part of it.
DecodedHasType ==
  /\ stage = "inside" /\ document # Nothing => Inhabits(value, source.type)
  /\ stage = "refused" => \A v \in ValuesOf(source.type) : Encode(v) = document => Holds(v, Unreadable)

\* A value, whatever the spelling of the types in its provenance.
Unspelled(v) ==
  [v EXCEPT !.parts = IF v.kind = "digest" THEN Tail(v.parts) ELSE [i \in DOMAIN v.parts |-> Unspelled(v.parts[i])]]

\* Nothing is lost or made up on the way: what came in goes out as it was, a
\* capability is compared with the very arguments of the tool, and what is read
\* back is the value that was sent, its provenance recomputed for the type it is
\* read as.  Only a permit is not sent.  Except that a validated value, an intent,
\* a proposal and a receipt are sent and not read back: a policy fails on the
\* arguments of a proposal with one among them.
ValuesKept ==
  [][ /\ stage = "inside" /\ stage' = "outside" =>
           /\ document # Nothing /\ shifts = <<>> => document' = document
           /\ Encode(FromJson(document')) = document'
      /\ stage = "inside" /\ shifts' = shifts => (stage' = "failed" <=> Holds(value, {"Permit"}))
      /\ stage = "outside" =>
           IF Holds(value, Unreadable) THEN stage' = "unreadable"
           ELSE Unspelled(value') = Unspelled(value) ]_vars

\* A match the checker accepts takes the one arm that names the variant of the
\* value, or else its wildcard; it never ends without one.
MatchFindsItsArm ==
  stage = "inside" =>
    \A arms \in {a \in Arms : SoundMatch(a, source.type)} :
      LET variant == Last(VariantPath(value))
          Naming  == {i \in DOMAIN arms :
                        arms[i] \in {<<variant>>, <<Normalized(source.type, {}).name, variant>>}}
      IN  IF Naming # {} THEN Naming = {SelectArm(arms, value)} ELSE arms[SelectArm(arms, value)] = <<>>

\* The days from the first one of the year 1, counted by the lengths of years and months.
DayNumber(t) ==
  LET past == t[1] - 1 IN
  365 * past + past \div 4 - past \div 100 + past \div 400
    + FoldFunction(+, 0, [m \in 1..(t[2] - 1) |-> DaysInMonth(t[1], m)]) + t[3] - 1

LastDayNumber == DayNumber(<<9999, 12, 31>>)

\* An instant that was moved is as far away as the seconds that were added, and
\* adding fails exactly when the result is not in the years 1 to 9999.
InstantsAddUp ==
  shifts # <<>> /\ document # Nothing =>
    LET start == IF stage = "failed" THEN value.numbers ELSE document.numbers
        added == IF stage = "failed" THEN Last(shifts) ELSE FoldFunction(+, 0, shifts)
        total == SecondOfDay(start) + added
        day   == DayNumber(start) + total \div SecondsPerDay
    IN  IF stage = "failed" THEN day \notin 0..LastDayNumber
        ELSE stage = "inside" => /\ OnCalendar(value.numbers)
                                 /\ DayNumber(value.numbers) = day
                                 /\ SecondOfDay(value.numbers) = total % SecondsPerDay
=============================================================================
