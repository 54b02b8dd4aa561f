------------------------------- MODULE Syntax ------------------------------
(***************************************************************************)
(* `aster fmt': a source text is parsed declaration by declaration, with   *)
(* recovery after a malformed one (aster-syntax parser.rs), and a module   *)
(* without diagnostics is printed in its canonical form (formatter.rs),    *)
(* which is then read again.                                               *)
(*                                                                         *)
(* A text is a sequence of tokens, without layout.  The grammar is a table *)
(* of forms: the items of a form are tokens, or symbols in capitals that   *)
(* stand for a token class, a form chosen by the next token, or a          *)
(* repetition.  A node has the form it was read as, its own names or       *)
(* operator, and the nodes of the symbols of the form.  Every result of    *)
(* the parser says where its cursor is, after an error too.                *)
(***************************************************************************)
EXTENDS Integers, SequencesExt

CONSTANTS
  Texts,                                   \* the source texts
  Names, Numbers, Strings, Aliases,        \* the tokens that are not fixed
  BlockStrings, Comments,
  MaxRounds                                \* how often a text is formatted

VARIABLES
  text,          \* the text, with its comments
  cursor,        \* index of the next token of the text without comments
  declarations,  \* what was parsed: its node and the index of its last token
  diagnosed,     \* whether a declaration was malformed
  stage,         \* "header", "declarations", "accepted" or "rejected"
  formatted      \* the texts that were accepted and formatted, and their nodes

vars == <<text, cursor, declarations, diagnosed, stage, formatted>>
-----------------------------------------------------------------------------
(* The grammar *)

DataDeclaration ==
  [type       |-> <<"type", "NAME", "=", "DEFINITION", ";">>,
   enum       |-> <<"enum", "NAME", "{", "VARIANTS", "}">>,
   capability |-> <<"capability", "NAME", "PARAMETERS", ";">>]

CodeDeclaration ==
  [fn         |-> <<"fn", "NAME", "PARAMETERS", "->", "TYPE", "BLOCK">>,
   flow       |-> <<"flow", "NAME", "PARAMETERS", "->", "TYPE", "uses", "[", "USES", "]", "BLOCK">>,
   prompt     |-> <<"prompt", "NAME", "PARAMETERS", "->", "TYPE", "{", "instruction",
                    "BLOCKSTRING", ";", "data", "{", "DATA", "}", ";", "}">>,
   validator  |-> <<"validator", "NAME", "PARAMETERS", "{", "REQUIREMENTS", "}">>]

GovernedDeclaration ==
  [tool       |-> <<"tool", "PATH", "PARAMETERS", "->", "TYPE", "{", "METADATA", "}">>,
   policy     |-> <<"policy", "NAME", "PARAMETERS", "{", "RULES", "}">>,
   agent      |-> <<"agent", "NAME", "PARAMETERS", "requires", "[", "REQUIRED", "]",
                    "{", "SECTIONS", "}">>]

Declaration == DataDeclaration @@ CodeDeclaration @@ GovernedDeclaration

\* Types, parameters and capabilities.
TypePart ==
  [fields      |-> <<"{", "FIELDS", "}">>,
   field       |-> <<"NAME", ":", "TYPE">>,
   reference   |-> <<"PATH", "TYPEARGUMENTS">>,
   generic     |-> <<"<", "TYPES", ">">>,
   variant     |-> <<"NAME", "PAYLOAD">>,
   payload     |-> <<"(", "TYPE", ")">>,
   parameters  |-> <<"(", "PARAMETERLIST", ")">>,
   grant       |-> <<"PATH", "ARGUMENTS">>,
   none        |-> <<>>]

\* The metadata of a tool.
Metadatum ==
  [mode        |-> <<"mode", "MODE", ";">>,
   needs       |-> <<"capability", "CAPABILITY", ";">>,
   sensitivity |-> <<"sensitivity", "SENSITIVITY", ";">>,
   risk        |-> <<"risk", "RISK", ";">>,
   idempotency |-> <<"idempotency", "NAME", ";">>]

\* The rules of a policy.
Rule ==
  [allow       |-> <<"allow", "CONDITION", ";">>,
   approve     |-> <<"approve", "by", "EXPRESSION", "CONDITION", ";">>,
   deny        |-> <<"deny", "EXPRESSION", "CONDITION", ";">>,
   when        |-> <<"when", "EXPRESSION">>,
   otherwise   |-> <<"otherwise">>]

\* The sections of an agent.
AgentPart ==
  [state       |-> <<"state", "{", "STATEFIELDS", "}">>,
   default     |-> <<"NAME", ":", "TYPE", "=", "EXPRESSION", ";">>,
   budget      |-> <<"budget", "SCOPE", "{", "ENTRIES", "}">>,
   entry       |-> <<"NAME", "<=", "INTEGER", ";">>,
   on          |-> <<"on", "NAME", "PARAMETERS", "->", "TYPE", "BLOCK">>]

\* Blocks and statements.
Statement ==
  [block       |-> <<"{", "STATEMENTS", "}">>,
   let         |-> <<"let", "NAME", "ANNOTATION", "=", "EXPRESSION", ";">>,
   annotation  |-> <<":", "TYPE">>,
   update      |-> <<"update", "state", "{", "ASSIGNMENTS", "}">>,
   return      |-> <<"return", "EXPRESSION", ";">>,
   requirement |-> <<"require", "EXPRESSION", ";">>,
   statement   |-> <<"EXPRESSION", ";">>]

Branching ==
  [if        |-> <<"if", "EXPRESSION", "BLOCK", "else", "BLOCK">>,
   match     |-> <<"match", "EXPRESSION", "{", "ARMS", "}">>,
   arm       |-> <<"PATH", "BINDING", "=>", "EXPRESSION">>,
   binding   |-> <<"(", "NAME", ")">>]

EffectForm ==
  [infer     |-> <<"infer", "PATH", "ARGUMENTS", "using", "ALIAS">>,
   validate  |-> <<"validate", "EXPRESSION", "with", "PATH">>,
   observe   |-> <<"observe", "PATH", "ARGUMENTS">>,
   intent    |-> <<"intent", "PATH", "{", "ASSIGNMENTS", "}">>,
   propose   |-> <<"propose", "PATH", "ARGUMENTS", "for", "EXPRESSION">>,
   authorize |-> <<"authorize", "EXPRESSION", "using", "PATH">>,
   commit    |-> <<"commit", "EXPRESSION", "WITH", "EXPRESSION">>,
   reconcile |-> <<"reconcile", "EXPRESSION", "against", "EXPRESSION", "with", "PATH">>]

\* Lists, records and arguments.
Gathering ==
  [list      |-> <<"[", "ELEMENTS", "]">>,
   record    |-> <<"PATH", "{", "INITIALIZERS", "}">>,
   arguments |-> <<"(", "ARGUMENTLIST", ")">>,
   named     |-> <<"NAME", "=", "EXPRESSION">>]

Forms ==
  Declaration @@ TypePart @@ Metadatum @@ Rule @@ AgentPart @@ Statement @@ Branching @@ EffectForm @@ Gathering

\* Symbols that always stand for the same form.
Always ==
  [PARAMETERS |-> "parameters", ARGUMENTS |-> "arguments", BLOCK |-> "block", TYPE |-> "reference",
   FIELD |-> "field", VARIANT |-> "variant", CAPABILITY |-> "grant", REQUIREMENT |-> "requirement",
   DEFAULT |-> "default", ENTRY |-> "entry", ARM |-> "arm", NAMED |-> "named"]

Loop(of, until, by) == [of |-> of, until |-> until, by |-> by]

\* What is repeated, up to which token, and the token that separates it.
Repetition ==
  [FIELDS |-> Loop("FIELD", "}", ","), VARIANTS |-> Loop("VARIANT", "}", ","),
   PARAMETERLIST |-> Loop("FIELD", ")", ","), TYPES |-> Loop("TYPE", "", ","),
   USES |-> Loop("CAPABILITY", "]", ","), REQUIRED |-> Loop("CAPABILITY", "]", ","),
   DATA |-> Loop("NAME", "}", ","), REQUIREMENTS |-> Loop("REQUIREMENT", "}", ""),
   METADATA |-> Loop("METADATUM", "}", ""), RULES |-> Loop("RULE", "}", ""),
   SECTIONS |-> Loop("SECTION", "}", ""), STATEFIELDS |-> Loop("DEFAULT", "}", ""),
   ENTRIES |-> Loop("ENTRY", "}", ""), STATEMENTS |-> Loop("STATEMENT", "}", ""),
   ASSIGNMENTS |-> Loop("NAMED", "}", ";"), INITIALIZERS |-> Loop("NAMED", "}", ","),
   ARGUMENTLIST |-> Loop("ARGUMENT", ")", ","), ELEMENTS |-> Loop("EXPRESSION", "]", ","),
   ARMS |-> Loop("ARM", "}", ",")]

\* Tokens of a class, kept in the node.
TokenClass ==
  [NAME |-> Names, INTEGER |-> Numbers, ALIAS |-> Aliases, BLOCKSTRING |-> BlockStrings,
   SCOPE |-> {"per_event"}, MODE |-> {"read", "write"}, RISK |-> {"reversible", "irreversible"},
   SENSITIVITY |-> {"public", "internal", "private", "secret"}]
-----------------------------------------------------------------------------
(* The parser *)

Current(ts, i) == IF i <= Len(ts) THEN ts[i] ELSE "end of file"
Advance(ts, i) == IF i <= Len(ts) THEN i + 1 ELSE i

Node(form, leaf, parts) == [form |-> form, leaf |-> leaf, parts |-> parts]
Parsed(node, at) == [ok |-> TRUE, node |-> node, at |-> at]
Malformed(at)    == [ok |-> FALSE, at |-> at]

Symbols == DOMAIN Always \cup DOMAIN Repetition \cup DOMAIN TokenClass \cup
  {"DECLARATION", "DEFINITION", "TYPEARGUMENTS", "PAYLOAD", "METADATUM", "RULE", "CONDITION",
   "SECTION", "STATEMENT", "ANNOTATION", "ARGUMENT", "BINDING", "PATH", "EXPRESSION"}

\* `with' of a commit is only looked at, any other token is taken before it is compared.
Token(item) == IF item = "WITH" THEN "with" ELSE item

\* The form a symbol stands for, by the next token; "" is an error.
Chosen(s, ts, i) ==
  LET next == Current(ts, i)
      Optional(token, form) == IF next = token THEN form ELSE "none"
      OneOf(forms) == IF next \in forms THEN next ELSE ""
  IN  CASE s = "DECLARATION" -> OneOf(DOMAIN Declaration)
        [] s = "DEFINITION" -> IF next = "{" THEN "fields" ELSE "TYPE"
        [] s = "METADATUM" -> IF next = "capability" THEN "needs"
                              ELSE OneOf({"mode", "sensitivity", "risk", "idempotency"})
        [] s = "RULE" -> OneOf({"allow", "approve", "deny"})
        [] s = "CONDITION" -> IF next = "when" THEN "when" ELSE "otherwise"
        [] s = "SECTION" -> OneOf({"state", "budget", "on"})
        [] s = "STATEMENT" -> IF next \in {"let", "update", "return"} THEN next
                              ELSE IF next = "require" THEN "requirement" ELSE "statement"
        [] s = "TYPEARGUMENTS" -> Optional("<", "generic")
        [] s = "PAYLOAD" -> Optional("(", "payload")
        [] s = "ANNOTATION" -> Optional(":", "annotation")
        [] s = "BINDING" -> IF ts[i - 1] = "_" /\ ts[i - 2] # "." THEN "none" ELSE Optional("(", "binding")
        [] s = "ARGUMENT" -> IF next \in Names /\ Current(ts, i + 1) = "=" THEN "named" ELSE "EXPRESSION"

OfForm(parts, form) == SelectSeq(parts, LAMBDA part : part.form = form)

EmptySection(name) ==
  IF name = "state" THEN Node("state", <<>>, <<Node("STATEFIELDS", <<>>, <<>>)>>)
  ELSE Node("budget", <<>>, <<Node("token", <<"per_event">>, <<>>), Node("ENTRIES", <<>>, <<>>)>>)

\* The last `state' or `budget' of an agent replaces the earlier ones.
Section(parts, name) ==
  IF OfForm(parts, name) = <<>> THEN EmptySection(name) ELSE Last(OfForm(parts, name))

\* Faulty variant: a risk is read and not kept.
KeptWithoutRisk(s, parts) == IF s = "METADATA" THEN SelectSeq(parts, LAMBDA part : part.form # "risk") ELSE parts

\* Metadata and sections are fields of the tree, whatever their order in the text.
Kept(s, parts) ==
  CASE s = "METADATA" -> OfForm(parts, "mode") \o OfForm(parts, "needs") \o OfForm(parts, "risk")
                           \o OfForm(parts, "idempotency") \o OfForm(parts, "sensitivity")
    [] s = "SECTIONS" -> <<Section(parts, "state"), Section(parts, "budget")>> \o OfForm(parts, "on")
    [] OTHER -> parts

\* duplicate_tool_metadata skips to the end of the declaration.
AfterBrace(ts, i) ==
  LET braces == {k \in i..Len(ts) : ts[k] = "}"}
  IN  IF braces = {} THEN Len(ts) + 1 ELSE 1 + CHOOSE k \in braces : \A m \in braces : k <= m

LeftPower ==
  ("||" :> 1) @@ ("&&" :> 3) @@ ("==" :> 5) @@ ("!=" :> 5) @@ ("<" :> 7) @@ ("<=" :> 7) @@
  (">" :> 7) @@ (">=" :> 7) @@ ("+" :> 9) @@ ("-" :> 9) @@ ("*" :> 11) @@ ("/" :> 11)

\* Faulty variant: operators associate to the right.
SamePower(operator) == LeftPower[operator]

RightPower(operator) == LeftPower[operator] + 1
UnaryPower(operator) == 13

RecordFollows(ts, i) == Current(ts, i) = "{" /\ Current(ts, i + 1) \in Names /\ Current(ts, i + 2) = "="

\* The `?' of the parser's functions: an error is returned at once, otherwise the
\* reading goes on from what was parsed.
AndThen(outcome, Continue(_)) ==
  CHOOSE result \in {IF parsed.ok THEN Continue(parsed) ELSE parsed : parsed \in {outcome}} : TRUE

RECURSIVE ReadPath(_, _, _), Read(_, _, _), Items(_, _, _, _), Repeat(_, _, _, _)
RECURSIVE ReadExpression(_, _, _), Climb(_, _, _, _)

ReadPath(ts, i, segments) ==
  IF Current(ts, i) \notin Names THEN Malformed(Advance(ts, i))
  ELSE IF Current(ts, i + 1) = "." THEN ReadPath(ts, i + 2, Append(segments, ts[i]))
  ELSE Parsed(Node("path", Append(segments, ts[i]), <<>>), i + 1)

Items(ts, items, i, parts) ==
  IF items = <<>> THEN Parsed(parts, i)
  ELSE IF Head(items) \in Symbols
       THEN AndThen(Read(ts, Head(items), i),
                    LAMBDA part : Items(ts, Tail(items), part.at, Append(parts, part.node)))
  ELSE IF Current(ts, i) = Token(Head(items)) THEN Items(ts, Tail(items), i + 1, parts)
  ELSE Malformed(IF Head(items) = "WITH" THEN i ELSE Advance(ts, i))

ReadForm(ts, form, i) ==
  AndThen(Items(ts, Forms[form], i, <<>>), LAMBDA all : Parsed(Node(form, <<>>, all.node), all.at))

Repeat(ts, s, i, parts) ==
  LET loop == Repetition[s]
      Continue(part) ==
        LET all == Append(parts, part.node)
        IN  IF loop.by = "" THEN Repeat(ts, s, part.at, all)
            ELSE IF Current(ts, part.at) = loop.by THEN Repeat(ts, s, part.at + 1, all)
            ELSE Parsed(Node(s, <<>>, all), part.at)
  IN  IF Current(ts, i) = loop.until THEN Parsed(Node(s, <<>>, Kept(s, parts)), i)
      ELSE IF s = "METADATA" /\ OfForm(parts, Chosen(loop.of, ts, i)) # <<>>
           THEN Malformed(AfterBrace(ts, i))
      ELSE AndThen(Read(ts, loop.of, i), Continue)

Read(ts, s, i) ==
  CASE s \in DOMAIN TokenClass ->
         IF Current(ts, i) \in TokenClass[s] THEN Parsed(Node("token", <<ts[i]>>, <<>>), i + 1)
         ELSE Malformed(Advance(ts, i))
    [] s \in DOMAIN Always -> ReadForm(ts, Always[s], i)
    [] s \in DOMAIN Repetition ->
         IF s \in {"FIELDS", "VARIANTS"} /\ Current(ts, i) = "}" THEN Malformed(i)
         ELSE Repeat(ts, s, i, <<>>)
    [] s = "PATH" -> ReadPath(ts, i, <<>>)
    [] s = "EXPRESSION" -> ReadExpression(ts, i, 0)
    [] OTHER -> LET form == Chosen(s, ts, i)
                IN  IF form \in Symbols THEN Read(ts, form, i)
                    ELSE IF form # "" THEN ReadForm(ts, form, i)
                    ELSE Malformed(IF s = "RULE" THEN Advance(ts, i) ELSE i)

ReadParenthesized(ts, i) ==
  IF Current(ts, i + 1) = ")" THEN Parsed(Node("unit", <<>>, <<>>), i + 2)
  ELSE AndThen(ReadExpression(ts, i + 1, 0),
               LAMBDA inner : IF Current(ts, inner.at) = ")" THEN Parsed(inner.node, inner.at + 1)
                              ELSE Malformed(Advance(ts, inner.at)))

ReadUnary(ts, i) ==
  AndThen(ReadExpression(ts, i + 1, UnaryPower(ts[i])),
          LAMBDA operand : Parsed(Node("unary", <<ts[i]>>, <<operand.node>>), operand.at))

ReadPrefix(ts, i) ==
  LET next == Current(ts, i)
  IN  CASE next \in Numbers \cup Strings \cup {"true", "false"} -> Parsed(Node("literal", <<next>>, <<>>), i + 1)
        [] next \in Names ->
             AndThen(ReadPath(ts, i, <<>>),
                     LAMBDA path : IF RecordFollows(ts, path.at) THEN ReadForm(ts, "record", i) ELSE path)
        [] next = "(" -> ReadParenthesized(ts, i)
        [] next = "[" -> ReadForm(ts, "list", i)
        [] next \in {"!", "-"} -> ReadUnary(ts, i)
        [] next \in {"if", "match", "infer", "validate", "observe", "intent", "propose", "authorize",
                     "commit", "reconcile"} -> ReadForm(ts, next, i)
        [] OTHER -> Malformed(Advance(ts, i))

\* Postfix forms bind at any power, a binary operator from the minimum on.
Climb(ts, left, i, minimum) ==
  LET next == Current(ts, i)
  IN  CASE next = "?" -> Climb(ts, Node("try", <<>>, <<left>>), i + 1, minimum)
        [] next = "." ->
             IF Current(ts, i + 1) \in Names
             THEN Climb(ts, Node("access", <<ts[i + 1]>>, <<left>>), i + 2, minimum)
             ELSE Malformed(Advance(ts, i + 1))
        [] next = "(" ->
             AndThen(ReadForm(ts, "arguments", i),
                     LAMBDA list : Climb(ts, Node("call", <<>>, <<left, list.node>>), list.at, minimum))
        [] next \in DOMAIN LeftPower /\ LeftPower[next] >= minimum ->
             AndThen(ReadExpression(ts, i + 1, RightPower(next)),
                     LAMBDA right : Climb(ts, Node("binary", <<next>>, <<left, right.node>>), right.at, minimum))
        [] OTHER -> Parsed(left, i)

ReadExpression(ts, i, minimum) ==
  AndThen(ReadPrefix(ts, i), LAMBDA prefix : Climb(ts, prefix.node, prefix.at, minimum))
-----------------------------------------------------------------------------
(* The formatter *)

\* Faulty variant: operands are printed as they are.
Bare(tokens) == tokens

Parenthesized(tokens) == <<"(">> \o tokens \o <<")">>

\* Repetitions printed with the separator after every part; others have it between the parts.
Terminated == {"FIELDS", "VARIANTS", "DATA", "REQUIRED", "ARMS", "INITIALIZERS", "ASSIGNMENTS"}

Separator(s) == IF Repetition[s].by = "" THEN <<>> ELSE <<Repetition[s].by>>

RECURSIVE Write(_), WriteItems(_, _)

WriteItems(items, parts) ==
  IF items = <<>> THEN <<>>
  ELSE IF Head(items) \in Symbols
       THEN Write(Head(parts)) \o WriteItems(Tail(items), Tail(parts))
       ELSE <<Token(Head(items))>> \o WriteItems(Tail(items), parts)

\* format_expression, format_type and the declarations of Formatter: a form is
\* printed with the tokens it is read with.
Write(node) ==
  LET part(i) == Write(node.parts[i])
      After(i) == IF node.form \in Terminated \/ i < Len(node.parts) THEN Separator(node.form) ELSE <<>>
  IN  CASE node.form \in {"token", "literal"} -> node.leaf
        [] node.form = "path" ->
             FlattenSeq([i \in DOMAIN node.leaf |-> IF i = 1 THEN <<node.leaf[1]>> ELSE <<".", node.leaf[i]>>])
        [] node.form = "unit" -> <<"(", ")">>
        [] node.form = "unary" -> node.leaf \o Parenthesized(part(1))
        [] node.form = "binary" -> Parenthesized(part(1) \o node.leaf \o part(2))
        [] node.form = "try" -> Parenthesized(part(1)) \o <<"?">>
        [] node.form = "access" -> part(1) \o <<".">> \o node.leaf
        [] node.form = "call" -> part(1) \o part(2)
        [] node.form \in DOMAIN Repetition ->
             FlattenSeq([i \in DOMAIN node.parts |-> part(i) \o After(i)])
        [] OTHER -> WriteItems(Forms[node.form], node.parts)
-----------------------------------------------------------------------------
(* Texts with comments *)

\* What the parser reads, and each comment with the index of the token it precedes.
Tokens(t) == SelectSeq(t, LAMBDA token : token \notin Comments)

CommentsOf(t) ==
  LET all == [i \in DOMAIN t |-> [token |-> t[i], before |-> 1 + Len(Tokens(SubSeq(t, 1, i - 1)))]]
  IN  SelectSeq(all, LAMBDA c : c.token \in Comments)

\* comments_before: those that begin after one boundary and before the next.
CommentsBetween(t, from, to) ==
  LET range == SelectSeq(CommentsOf(t), LAMBDA c : from < c.before /\ c.before <= to)
  IN  [i \in DOMAIN range |-> range[i].token]

Header == <<"module", "PATH", ";">>

\* Formatter::format: the comments in a declaration go before it, the header
\* has those before its first token.
FormatModule(t, module) ==
  LET From(k) == IF k = 1 THEN 0 ELSE module[k - 1].to
      Printed(k) == IF k = 1 THEN WriteItems(Header, module[1].node) ELSE Write(module[k].node)
  IN  FlattenSeq([k \in DOMAIN module |-> CommentsBetween(t, From(k), module[k].to) \o Printed(k)])
        \o CommentsBetween(t, Last(module).to, Len(t) + 1)
-----------------------------------------------------------------------------
(* Reading and formatting a module *)

AtDeclaration(ts, i) == Current(ts, i) \in DOMAIN Declaration

\* Faulty variant: an unexpected token is not skipped.
StaysThere(ts, at, start) ==
  IF AtDeclaration(ts, at) \/ at > Len(ts) THEN at ELSE start

\* synchronize_declaration: the next declaration, or the end.
Synchronize(ts, at, start) ==
  LET starts == {k \in (at + 1)..Len(ts) : AtDeclaration(ts, k)}
  IN  IF at > start /\ AtDeclaration(ts, at) THEN at
      ELSE IF starts = {} THEN Len(ts) + 1
      ELSE CHOOSE k \in starts : \A m \in starts : k <= m

Init ==
  /\ text \in Texts
  /\ cursor = 1 /\ declarations = <<>> /\ diagnosed = FALSE /\ stage = "header" /\ formatted = <<>>

\* A module without its header is not read any further.
ReadHeader ==
  LET header == Items(Tokens(text), Header, 1, <<>>)
  IN  /\ stage = "header"
      /\ cursor' = header.at
      /\ declarations' = IF header.ok THEN <<[node |-> header.node, to |-> 1]>> ELSE <<>>
      /\ stage' = IF header.ok THEN "declarations" ELSE "rejected"
      /\ diagnosed' = ~header.ok
      /\ UNCHANGED <<text, formatted>>

\* What the next declaration is read as.
Outcomes == {Read(ts, "DECLARATION", cursor) : ts \in {Tokens(text)}}

ReadDeclaration ==
  /\ stage = "declarations" /\ cursor <= Len(Tokens(text))
  /\ \E result \in Outcomes :
       /\ result.ok
       /\ declarations' = Append(declarations, [node |-> result.node, to |-> result.at - 1])
       /\ cursor' = result.at
  /\ UNCHANGED <<text, diagnosed, stage, formatted>>

Recover ==
  /\ stage = "declarations" /\ cursor <= Len(Tokens(text))
  /\ \E result \in Outcomes :
       /\ ~result.ok
       /\ diagnosed' = TRUE
       /\ cursor' = Synchronize(Tokens(text), result.at, cursor)
  /\ UNCHANGED <<text, declarations, stage, formatted>>

EndOfFile ==
  /\ stage = "declarations" /\ cursor > Len(Tokens(text))
  /\ stage' = IF diagnosed THEN "rejected" ELSE "accepted"
  /\ UNCHANGED <<text, cursor, declarations, diagnosed, formatted>>

\* format_source, and the next reading of what it returned.
Format ==
  /\ stage = "accepted" /\ Len(formatted) < MaxRounds
  /\ formatted' = Append(formatted, [text |-> text, module |-> declarations])
  /\ text' = FormatModule(text, declarations)
  /\ cursor' = 1 /\ declarations' = <<>> /\ stage' = "header"
  /\ UNCHANGED diagnosed

Next == ReadHeader \/ ReadDeclaration \/ Recover \/ EndOfFile \/ Format

Spec == Init /\ [][Next]_vars /\ WF_vars(Next)
-----------------------------------------------------------------------------
(* Properties *)

Operands(node) == {node.parts[i] : i \in DOMAIN node.parts}

RECURSIVE Exposed(_), Binds(_)

\* A node that is printed without parentheses where what follows it is read
\* as a part of it: a target that ends in a path or an open expression, and
\* a left operand that ends in one.
Exposed(node) ==
  \/ node.form = "access" /\ node.parts[1].form \in
       {"path", "unary", "commit", "propose", "validate", "authorize", "reconcile"}
  \/ node.form = "call" /\ node.parts[1].form \in {"unary", "commit", "propose"}
  \/ node.form = "binary" /\ node.parts[1].form \in {"commit", "propose"}
  \/ \E part \in Operands(node) : Exposed(part)

Trees(module) == [k \in 2..Len(module) |-> module[k].node]

\* Formatting keeps the meaning: what `aster fmt' prints is accepted; unless the
\* source has an exposed operand, of which this says nothing, it also has the
\* tree of the source and is printed unchanged the next time.
MeaningKept ==
  formatted # <<>> =>
    LET source == formatted[1].module
        exposed == \E k \in 2..Len(source) : Exposed(source[k].node)
    IN  /\ stage # "rejected"
        /\ stage = "accepted" /\ ~exposed =>
             /\ Trees(declarations) = Trees(source)
             /\ FormatModule(text, declarations) = text

\* "parse-format-parse preserves normalized AST" (ASTER_CODEX_BOOTSTRAP_PROMPT.md:1260),
\* whose normalized_json is the tree without positions: what was printed is read
\* as the tree of the source.  format_expression prints the target of a field or
\* of a call as it stands: `(-a).b' becomes `-(a).b', the negation of a field.
ParseFormatParseKeepsTree ==
  formatted # <<>> /\ stage = "accepted" => Trees(declarations) = Trees(formatted[1].module)

\* Two sections of one kind in one agent.
RepeatsSection(t) ==
  \E i, j \in DOMAIN t :
    /\ i < j /\ t[i] = t[j] /\ t[i] \in {"state", "budget"}
    /\ \A k \in i..j : t[k] # "agent" /\ (k \in {i, j} => t[k - 1] # "update")

\* The formatter groups operands, and ends the last item of some lists.
Punctuation == {"(", ")", ",", ";"}
Words(t) == SelectSeq(t, LAMBDA token : token \notin Punctuation)
Occurrences(t, word) == Cardinality({i \in DOMAIN t : t[i] = word})

\* The formatted text has every word and comment of the source.
HasWordsOf(new, old) == \A word \in ToSet(Words(old)) : Occurrences(old, word) <= Occurrences(new, word)

\* What is accepted is kept: no declaration, section, part of an expression or
\* comment is missing from the formatted text, and nothing but metadata,
\* sections and comments changes its place.  Except in an agent with two
\* sections of one kind, of which only the last is kept.
NothingDiscarded ==
  stage = "accepted" /\ ~RepeatsSection(text) =>
    LET new == FormatModule(text, declarations)
    IN  /\ HasWordsOf(new, text)
        /\ ToSet(text) \cap ({"tool", "agent"} \cup Comments) = {} => Words(new) = Words(text)

\* The groups of an expression without parentheses, as the precedence and the
\* associativity of its operators say.
Binds(node) ==
  /\ node.form = "binary" =>
       LET power(i) == LeftPower[node.parts[i].leaf[1]]
       IN  /\ node.parts[1].form = "binary" => power(1) >= LeftPower[node.leaf[1]]
           /\ node.parts[2].form = "binary" => power(2) > LeftPower[node.leaf[1]]
  /\ node.form = "unary" => node.parts[1].form # "binary"
  /\ node.form \in {"try", "access", "call"} => node.parts[1].form \notin {"unary", "binary"}
  /\ \A part \in Operands(node) : Binds(part)

\* A source that groups nothing by parentheses is read by precedence: postfix
\* forms first, then unary operators, then the binary ones from left to right.
PrecedenceRespected ==
  (\A i \in DOMAIN text : text[i] = "(" => text[i + 1] = ")") =>
    \A k \in 2..Len(declarations) : Binds(declarations[k].node)

\* The parser comes to an end, whatever it reads.
ParserEnds == <>[](stage \in {"accepted", "rejected"})
=============================================================================
