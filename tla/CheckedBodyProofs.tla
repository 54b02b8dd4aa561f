-------------------------- MODULE CheckedBodyProofs --------------------------
(***************************************************************************)
(* Two results about every body the checker accepts, as long as no         *)
(* variable has the name of a variant: the checker, the lowering and the   *)
(* run agree on every name, and no proposal or permit has two variables    *)
(* the body may still use, or one after a commit consumed it, but for the  *)
(* values the checker loses track of.                                      *)
(***************************************************************************)
EXTENDS CheckedBody, SequenceTheorems, TLAPS

\* No variable has the name of a payload-free variant; with such a name the
\* checker and the machine mean different things.
NoVariants == Names \cap Variants = {}

(* Types and the values that fit them *)

Affines == {"proposal", "permit"}

Words == BaseTypes \cup Wrappers \cup {"err"}
Text  == Seq(Words)

LEMMA TextParts ==
  ASSUME NEW t \in Text
  PROVE  /\ DOMAIN t = 1..Len(t) /\ Len(t) \in Nat
         /\ \A i \in 1..Len(t) : t[i] \in Words
         /\ t # <<>> <=> Len(t) >= 1
<1>1. DOMAIN t = 1..Len(t) /\ Len(t) \in Nat /\ \A i \in 1..Len(t) : t[i] \in Words
  BY LenProperties, ElementOfSeq DEF Text
<1>2. t # <<>> <=> Len(t) >= 1
  BY EmptySeq, <1>1 DEF Text
<1>3. QED
  BY <1>1, <1>2

LEMMA SameText ==
  ASSUME NEW s \in Text, NEW t \in Text, Len(s) = Len(t), \A i \in 1..Len(s) : s[i] = t[i]
  PROVE  s = t
BY SeqEqual DEF Text

LEMMA OneWord ==
  ASSUME NEW w \in Words
  PROVE  <<w>> \in Text /\ Len(<<w>>) = 1 /\ <<w>>[1] = w
<1>1. <<w>> \in Seq({w}) /\ Len(<<w>>) = 1 /\ <<w>>[1] = w
  OBVIOUS
<1> DEFINE s == <<w>>
<1> HIDE DEF s
<1>2. s \in Seq(Words)
  <2>1. s \in Seq({w}) /\ {w} \subseteq Words
    BY <1>1 DEF s
  <2>2. QED
    BY <2>1, SeqMonotonic
<1>3. QED
  BY <1>1, <1>2 DEF s, Text

LEMMA FailedParts == Failed \in Text /\ Len(Failed) = 1 /\ Failed[1] = "err"
<1>1. \A w \in Words : <<w>> \in Text /\ Len(<<w>>) = 1 /\ <<w>>[1] = w
  BY OneWord
<1>2. "err" \in Words
  BY DEF Words
<1>3. <<"err">> \in Text /\ Len(<<"err">>) = 1 /\ <<"err">>[1] = "err"
  BY <1>1, <1>2, Zenon
<1>4. QED
  BY <1>3 DEF Failed

LEMMA WrapParts ==
  ASSUME NEW t \in Text, NEW w \in Words
  PROVE  /\ <<w>> \o t \in Text /\ Len(<<w>> \o t) = Len(t) + 1
         /\ (<<w>> \o t)[1] = w
         /\ \A i \in 1..Len(t) : (<<w>> \o t)[i + 1] = t[i]
<1> DEFINE s == <<w>>
           u == s \o t
<1>1. s \in Text /\ Len(s) = 1 /\ s[1] = w
  BY OneWord
<1>2. Len(t) \in Nat
  BY TextParts
<1> HIDE DEF s
<1>3. /\ u \in Text /\ Len(u) = Len(s) + Len(t)
      /\ \A i \in 1..(Len(s) + Len(t)) : u[i] = IF i <= Len(s) THEN s[i] ELSE t[i - Len(s)]
  BY <1>1, ConcatProperties DEF Text
<1> HIDE DEF u
<1>4. /\ u \in Text /\ Len(u) = 1 + Len(t)
      /\ \A i \in 1..(1 + Len(t)) : u[i] = IF i <= 1 THEN s[i] ELSE t[i - 1]
  BY <1>1, <1>3
<1>5. u[1] = w
  <2>1. 1 \in 1..(1 + Len(t)) /\ 1 <= 1
    BY <1>2
  <2>2. u[1] = s[1]
    BY <1>4, <2>1
  <2>3. QED
    BY <1>1, <2>2
<1>6. ASSUME NEW i \in 1..Len(t) PROVE u[i + 1] = t[i]
  <2>1. i + 1 \in 1..(1 + Len(t)) /\ ~(i + 1 <= 1) /\ (i + 1) - 1 = i
    BY <1>2, <1>6
  <2>2. QED
    BY <1>4, <2>1
<1>7. QED
  BY <1>2, <1>4, <1>5, <1>6 DEF u, s

LEMMA TailParts ==
  ASSUME NEW t \in Text, Len(t) >= 1
  PROVE  /\ Tail(t) \in Text /\ Len(Tail(t)) = Len(t) - 1 /\ Head(t) = t[1]
         /\ \A i \in 1..(Len(t) - 1) : Tail(t)[i] = t[i + 1]
<1>1. t # <<>> /\ Head(t) = t[1]
  BY TextParts DEF Head
<1>2. /\ Tail(t) \in Text /\ Len(Tail(t)) = Len(t) - 1
      /\ \A i \in 1..Len(Tail(t)) : Tail(t)[i] = t[i + 1]
  BY <1>1, HeadTailProperties DEF Text
<1>3. QED
  BY <1>1, <1>2

\* A value whose type has an Err at i, in place of the rest.
CutAt(shape, type, i) ==
  /\ type[i] = "result" /\ Len(shape) = i /\ shape[i] = "err"
  /\ \A j \in 1..(i - 1) : shape[j] = type[j]

LEMMA FitsParts ==
  ASSUME NEW shape \in Text, NEW type \in Text
  PROVE  Fits(shape, type) <=> shape = type \/ \E i \in 1..Len(type) : CutAt(shape, type, i)
<1>1. DOMAIN type = 1..Len(type) /\ Len(type) \in Nat /\ \A i \in 1..Len(type) : type[i] \in Words
  BY TextParts
<1>2. ASSUME NEW i \in 1..Len(type)
      PROVE  (type[i] = "result" /\ shape = SubSeq(type, 1, i - 1) \o Failed) <=> CutAt(shape, type, i)
  <2> DEFINE s == SubSeq(type, 1, i - 1)
             u == s \o Failed
  <2>1. i \in Nat /\ i >= 1 /\ i - 1 \in Int /\ \A j \in 1..(i - 1) : type[j] \in Words
    BY <1>1, <1>2
  <2>2. /\ s \in Text /\ Len(s) = i - 1
        /\ \A j \in 1..(i - 1) : s[j] = type[j]
    <3>1. /\ s \in Text /\ Len(s) = IF 1 <= i - 1 THEN (i - 1) - 1 + 1 ELSE 0
          /\ \A j \in 1..((i - 1) - 1 + 1) : s[j] = type[1 + j - 1]
      BY <2>1, SubSeqProperties DEF Text
    <3> HIDE DEF s
    <3>2. (i - 1) - 1 + 1 = i - 1 /\ (IF 1 <= i - 1 THEN (i - 1) - 1 + 1 ELSE 0) = i - 1
      BY <2>1
    <3>3. ASSUME NEW j \in 1..(i - 1) PROVE s[j] = type[j]
      <4>1. 1 + j - 1 = j /\ j \in 1..((i - 1) - 1 + 1)
        BY <2>1, <3>2, <3>3
      <4>2. QED
        BY <3>1, <4>1
    <3>4. QED
      BY <3>1, <3>2, <3>3
  <2>3. Failed \in Text /\ Len(Failed) = 1 /\ Failed[1] = "err"
    BY FailedParts
  <2> HIDE DEF s
  <2>4. /\ u \in Text /\ Len(u) = Len(s) + Len(Failed)
        /\ \A j \in 1..(Len(s) + Len(Failed)) :
             u[j] = IF j <= Len(s) THEN s[j] ELSE Failed[j - Len(s)]
    BY <2>2, <2>3, ConcatProperties DEF Text
  <2> HIDE DEF u
  <2>5. u \in Text /\ Len(u) = i
    BY <2>1, <2>2, <2>3, <2>4
  <2>6. \A j \in 1..i : u[j] = IF j <= i - 1 THEN s[j] ELSE Failed[j - (i - 1)]
    BY <2>1, <2>2, <2>3, <2>4
  <2>7. u[i] = "err"
    <3>1. i \in 1..i /\ ~(i <= i - 1) /\ i - (i - 1) = 1
      BY <2>1
    <3>2. QED
      BY <2>3, <2>6, <3>1
  <2>8. \A j \in 1..(i - 1) : u[j] = type[j]
    BY <2>1, <2>2, <2>6
  <2>9. ASSUME CutAt(shape, type, i) PROVE shape = u
    <3>1. Len(shape) = Len(u) /\ \A j \in 1..Len(shape) : shape[j] = u[j]
      <4>1. \A j \in 1..i : j = i \/ j \in 1..(i - 1)
        BY <2>1
      <4>2. QED
        BY <2>5, <2>7, <2>8, <2>9, <4>1 DEF CutAt
    <3>2. QED
      BY <2>5, <3>1, SameText
  <2>10. QED
    BY <2>5, <2>7, <2>8, <2>9 DEF CutAt, u, s
<1>3. QED
  BY <1>1, <1>2 DEF Fits

LEMMA WholeFits == \A type : Fits(type, type)
BY DEF Fits

LEMMA WrapFits ==
  ASSUME NEW shape \in Text, NEW type \in Text, Fits(shape, type), NEW w \in Words
  PROVE  Fits(<<w>> \o shape, <<w>> \o type)
<1> DEFINE s == <<w>> \o shape
           t == <<w>> \o type
<1>1. /\ s \in Text /\ Len(s) = Len(shape) + 1 /\ s[1] = w
      /\ \A i \in 1..Len(shape) : s[i + 1] = shape[i]
  BY WrapParts
<1>2. /\ t \in Text /\ Len(t) = Len(type) + 1 /\ t[1] = w
      /\ \A i \in 1..Len(type) : t[i + 1] = type[i]
  BY WrapParts
<1>3. Len(shape) \in Nat /\ Len(type) \in Nat
  BY TextParts
<1>4. CASE shape = type
  BY <1>4, WholeFits
<1>5. CASE shape # type
  <2>1. PICK i \in 1..Len(type) : CutAt(shape, type, i)
    BY <1>5, FitsParts
  <2> HIDE DEF s, t
  <2>2. i + 1 \in 1..Len(t) /\ t[i + 1] = "result" /\ Len(s) = i + 1 /\ s[i + 1] = "err"
    <3>1. t[i + 1] = type[i] /\ i \in 1..Len(shape) /\ s[i + 1] = shape[i]
      BY <1>1, <1>2, <1>3, <2>1 DEF CutAt
    <3>2. QED
      BY <1>1, <1>2, <1>3, <2>1, <3>1 DEF CutAt
  <2>3. ASSUME NEW j \in 1..((i + 1) - 1) PROVE s[j] = t[j]
    <3>1. CASE j = 1
      BY <1>1, <1>2, <3>1
    <3>2. CASE j # 1
      <4> DEFINE k == j - 1
      <4>1. k \in 1..(i - 1) /\ k \in 1..Len(shape) /\ k \in 1..Len(type) /\ j = k + 1
        BY <1>3, <2>1, <2>3, <3>2 DEF CutAt
      <4> HIDE DEF k
      <4>2. s[j] = shape[k] /\ t[j] = type[k] /\ shape[k] = type[k]
        BY <1>1, <1>2, <2>1, <4>1 DEF CutAt
      <4>3. QED
        BY <4>2
    <3>3. QED
      BY <3>1, <3>2
  <2>4. CutAt(s, t, i + 1)
    BY <2>2, <2>3 DEF CutAt
  <2>5. Fits(s, t)
    BY <1>1, <1>2, <2>2, <2>4, FitsParts
  <2>6. QED
    BY <2>5 DEF s, t
<1>6. QED
  BY <1>4, <1>5

LEMMA TailFits ==
  ASSUME NEW shape \in Text, NEW type \in Text, Fits(shape, type), Len(shape) >= 2, Len(type) >= 1
  PROVE  Fits(Tail(shape), Tail(type))
<1> DEFINE s == Tail(shape)
           t == Tail(type)
<1>1. Len(shape) \in Nat /\ Len(type) \in Nat
  BY TextParts
<1>2. /\ s \in Text /\ Len(s) = Len(shape) - 1
      /\ \A i \in 1..(Len(shape) - 1) : s[i] = shape[i + 1]
  BY <1>1, TailParts
<1>3. /\ t \in Text /\ Len(t) = Len(type) - 1
      /\ \A i \in 1..(Len(type) - 1) : t[i] = type[i + 1]
  BY <1>1, TailParts
<1>4. CASE shape = type
  BY <1>4, WholeFits
<1>5. CASE shape # type
  <2>1. PICK i \in 1..Len(type) : CutAt(shape, type, i)
    BY <1>5, FitsParts
  <2> HIDE DEF s, t
  <2> DEFINE k == i - 1
  <2>2. k \in 1..Len(t) /\ i = k + 1 /\ Len(shape) = k + 1 /\ k \in Nat /\ k >= 1
    BY <1>1, <1>3, <2>1 DEF CutAt
  <2> HIDE DEF k
  <2>3. t[k] = "result" /\ Len(s) = k /\ s[k] = "err"
    <3>1. t[k] = type[k + 1] /\ s[k] = shape[k + 1]
      BY <1>1, <1>2, <1>3, <2>2
    <3>2. QED
      BY <1>2, <2>1, <2>2, <3>1 DEF CutAt
  <2>4. ASSUME NEW j \in 1..(k - 1) PROVE s[j] = t[j]
    <3>1. s[j] = shape[j + 1] /\ t[j] = type[j + 1] /\ j + 1 \in 1..(i - 1)
      BY <1>1, <1>2, <1>3, <2>2, <2>4
    <3>2. QED
      BY <2>1, <3>1 DEF CutAt
  <2>5. CutAt(s, t, k)
    BY <2>3, <2>4 DEF CutAt
  <2>6. Fits(s, t)
    BY <1>2, <1>3, <2>2, <2>5, FitsParts
  <2>7. QED
    BY <2>6 DEF s, t
<1>6. QED
  BY <1>4, <1>5

LEMMA FailedFits ==
  ASSUME NEW type \in Text, Len(type) >= 1, type[1] = "result"
  PROVE  Fits(Failed, type)
<1>1. Failed \in Text /\ Len(Failed) = 1 /\ Failed[1] = "err"
  BY FailedParts
<1>2. 1 \in 1..Len(type)
  BY TextParts
<1> HIDE DEF Failed
<1>3. CutAt(Failed, type, 1)
  BY <1>1 DEF CutAt
<1>4. QED
  BY <1>1, <1>2, <1>3, FitsParts
-----------------------------------------------------------------------------
(* Well-formed types, values and environments *)

Ending(t) == t[Len(t)]

IsTyped(t) == t \in Text /\ Len(t) >= 1 /\ Ending(t) \in BaseTypes
IsShape(t) == t \in Text /\ Len(t) >= 1

\* A value owns an identity, one of the first `count', exactly if it has a
\* proposal or permit in it.
IsValue(v, count) ==
  /\ IsShape(v.type)
  /\ IF Ending(v.type) \in Affines THEN v.id \in 1..count ELSE v.id = 0

LEMMA WordParts ==
  /\ BaseTypes \subseteq Words /\ Wrappers \subseteq Words /\ Affines \subseteq BaseTypes
  /\ "err" \in Words \ BaseTypes /\ Wrappers \cap BaseTypes = {}
BY DEF Words, BaseTypes, Wrappers, Affines

LEMMA TypeIsTyped ==
  ASSUME NEW t, IsType(t)
  PROVE  IsTyped(t)
<1>1. BaseTypes \cup Wrappers \subseteq Words
  BY WordParts
<1>2. t \in Text
  BY <1>1, SeqMonotonic DEF IsType, Text
<1>3. QED
  BY <1>2, TextParts DEF IsType, IsTyped, Ending, Last

LEMMA AffineEnding == \A t : Affine(t) <=> Ending(t) \in Affines
BY DEF Affine, Affines, Ending, Last

LEMMA WordIsTyped ==
  ASSUME NEW w \in BaseTypes
  PROVE  IsTyped(<<w>>) /\ Ending(<<w>>) = w
<1>1. w \in Words
  BY WordParts
<1>2. <<w>> \in Text /\ Len(<<w>>) = 1 /\ <<w>>[1] = w
  BY <1>1, OneWord
<1> DEFINE s == <<w>>
<1>3. s \in Text /\ Len(s) = 1 /\ s[1] = w
  BY <1>2
<1> HIDE DEF s
<1>4. IsTyped(s) /\ Ending(s) = w
  BY <1>3 DEF IsTyped, Ending
<1>5. QED
  BY <1>4 DEF s

LEMMA BasesAreTyped ==
  /\ IsTyped(Data) /\ Ending(Data) = "data"
  /\ IsTyped(Proposal) /\ Ending(Proposal) = "proposal"
  /\ IsTyped(Permit) /\ Ending(Permit) = "permit"
<1>1. "data" \in BaseTypes /\ "proposal" \in BaseTypes /\ "permit" \in BaseTypes
  BY DEF BaseTypes
<1>2. \A w \in BaseTypes : IsTyped(<<w>>) /\ Ending(<<w>>) = w
  BY WordIsTyped
<1>3. IsTyped(<<"data">>) /\ Ending(<<"data">>) = "data"
  BY <1>1, <1>2, Zenon
<1>4. IsTyped(<<"proposal">>) /\ Ending(<<"proposal">>) = "proposal"
  BY <1>1, <1>2, Zenon
<1>5. IsTyped(<<"permit">>) /\ Ending(<<"permit">>) = "permit"
  BY <1>1, <1>2, Zenon
<1>6. QED
  BY <1>3, <1>4, <1>5 DEF Data, Proposal, Permit

LEMMA TypedIsShape == \A t : IsTyped(t) => IsShape(t)
BY DEF IsTyped, IsShape

LEMMA FailedIsShape == IsShape(Failed) /\ Ending(Failed) = "err"
BY FailedParts DEF IsShape, Ending

\* A wrapper and what is under it end in the same word.
LEMMA WrapShape ==
  ASSUME NEW t, IsShape(t), NEW w \in Words
  PROVE  /\ IsShape(<<w>> \o t) /\ Ending(<<w>> \o t) = Ending(t)
         /\ (<<w>> \o t)[1] = w
<1> DEFINE u == <<w>> \o t
<1>1. /\ u \in Text /\ Len(u) = Len(t) + 1 /\ u[1] = w
      /\ \A i \in 1..Len(t) : u[i + 1] = t[i]
  BY WrapParts DEF IsShape
<1>2. Len(t) \in Nat /\ Len(t) >= 1
  BY TextParts DEF IsShape
<1> HIDE DEF u
<1>3. u[Len(t) + 1] = t[Len(t)]
  BY <1>1, <1>2
<1>4. IsShape(u) /\ Ending(u) = Ending(t) /\ u[1] = w
  BY <1>1, <1>2, <1>3 DEF IsShape, Ending
<1>5. QED
  BY <1>4 DEF u

LEMMA TailShape ==
  ASSUME NEW t, IsShape(t), Len(t) >= 2
  PROVE  IsShape(Tail(t)) /\ Ending(Tail(t)) = Ending(t)
<1> DEFINE u == Tail(t)
<1>1. Len(t) \in Nat /\ t \in Text
  BY TextParts DEF IsShape
<1>2. /\ u \in Text /\ Len(u) = Len(t) - 1
      /\ \A i \in 1..(Len(t) - 1) : u[i] = t[i + 1]
  BY <1>1, TailParts
<1> HIDE DEF u
<1>3. u[Len(t) - 1] = t[Len(t)]
  <2> DEFINE k == Len(t) - 1
  <2>1. k \in 1..(Len(t) - 1) /\ k + 1 = Len(t)
    BY <1>1
  <2> HIDE DEF k
  <2>2. u[k] = t[k + 1]
    BY <1>2, <2>1
  <2>3. QED
    BY <2>1, <2>2 DEF k
<1>4. IsShape(u) /\ Ending(u) = Ending(t)
  BY <1>1, <1>2, <1>3 DEF IsShape, Ending
<1>5. QED
  BY <1>4 DEF u

LEMMA TypedByEnding == \A t : IsTyped(t) <=> IsShape(t) /\ Ending(t) \in BaseTypes
BY DEF IsTyped, IsShape

\* What has a proposal or permit in it has the type the checker says.
LEMMA AffineIsWhole ==
  ASSUME NEW shape, IsShape(shape), NEW type, IsTyped(type), Fits(shape, type),
         Ending(shape) \in Affines
  PROVE  shape = type
<1>1. shape \in Text /\ type \in Text
  BY DEF IsShape, IsTyped
<1>2. shape = type \/ \E i \in 1..Len(type) : CutAt(shape, type, i)
  BY <1>1, FitsParts
<1>3. ~ \E i \in 1..Len(type) : CutAt(shape, type, i)
  BY WordParts DEF CutAt, Ending
<1>4. QED
  BY <1>2, <1>3

LEMMA HeadIsNotLast ==
  ASSUME NEW t, IsTyped(t), Head(t) \in Wrappers
  PROVE  Len(t) >= 2
<1>1. Len(t) \in Nat /\ Len(t) >= 1 /\ Head(t) = t[1] /\ t[Len(t)] \in BaseTypes
  BY TextParts, TailParts DEF IsTyped, Ending
<1>2. Len(t) # 1
  BY <1>1, WordParts
<1> DEFINE k == Len(t)
<1>3. k \in Nat /\ k >= 1 /\ k # 1
  BY <1>1, <1>2
<1> HIDE DEF k
<1>4. k >= 2
  BY <1>3
<1>5. QED
  BY <1>4 DEF k
-----------------------------------------------------------------------------
(* Expressions *)

IsEnv(env) == \A n \in DOMAIN env : n \in Names /\ IsTyped(env[n].type)

AllForms == {"unit", "propose", "path", "call", "field", "try", "authorize", "commit",
             "list", "some", "ok", "record", "variant"}
Closed   == {"unit", "propose"}

LEMMA ExpressionParts ==
  ASSUME NEW e \in Expressions
  PROVE  /\ e.form \in AllForms
         /\ e.form \notin Closed => e.of \in Names
         /\ e.form = "commit" => e.permit \in Names
BY DEF Expressions, AllForms, Closed, Wrapper

LEMMA WrapperParts ==
  /\ DOMAIN Wrapper = {"list", "some", "ok", "record", "variant"}
  /\ \A form \in DOMAIN Wrapper : Wrapper[form] \in Words
BY WordParts DEF Wrapper, Wrappers

LEMMA NameIsVariable ==
  ASSUME NoVariants, NEW env, NEW n \in Names
  PROVE  /\ Resolves(env, n) <=> n \in DOMAIN env /\ ~env[n].moved
         /\ PathType(env, n) = env[n].type
BY DEF NoVariants, Resolves, PathType

\* What the checker knows of the operands of an expression it accepts.
LEMMA AcceptedParts ==
  ASSUME NoVariants, NEW env, NEW e \in Expressions, Accepts(env, e), e.form \notin Closed
  PROVE  /\ e.of \in DOMAIN env /\ ~env[e.of].moved /\ PathType(env, e.of) = env[e.of].type
         /\ e.form = "commit" => /\ env[e.of].type = Proposal
                                 /\ e.permit \in DOMAIN env /\ ~env[e.permit].moved
                                 /\ env[e.permit].type = Permit
         /\ e.form = "authorize" => env[e.of].type = Proposal
         /\ e.form = "field" => Head(env[e.of].type) = "record"
         /\ e.form = "try" => Head(env[e.of].type) = "result"
<1>1. e.of \in Names /\ (e.form = "commit" => e.permit \in Names)
  BY ExpressionParts
<1>2. CASE e.form = "commit"
  <2>1. /\ Resolves(env, e.of) /\ PathType(env, e.of) = Proposal
        /\ Resolves(env, e.permit) /\ PathType(env, e.permit) = Permit
    BY <1>2 DEF Accepts
  <2>2. QED
    BY <1>1, <1>2, <2>1, NameIsVariable
<1>3. CASE e.form # "commit"
  <2>1. /\ Resolves(env, e.of)
        /\ e.form = "authorize" => PathType(env, e.of) = Proposal
        /\ Reads(e.form, PathType(env, e.of))
    BY <1>3 DEF Accepts, Closed
  <2>2. QED
    BY <1>1, <1>3, <2>1, NameIsVariable DEF Reads
<1>4. QED
  BY <1>2, <1>3

LEMMA TypeOfIsTyped ==
  ASSUME NoVariants, NEW env, IsEnv(env), NEW e \in Expressions, Accepts(env, e)
  PROVE  IsTyped(TypeOf(env, e))
<1>1. CASE e.form \in Closed
  BY <1>1, BasesAreTyped DEF TypeOf, Closed
<1>2. CASE e.form \notin Closed
  <2> DEFINE type == PathType(env, e.of)
  <2>1. IsTyped(type) /\ IsShape(type) /\ e.form \in AllForms
    BY <1>2, AcceptedParts, ExpressionParts, TypedIsShape DEF IsEnv
  <2>2. "result" \in Words
    BY WordParts DEF Wrappers
  <2> HIDE DEF type
  <2>3. CASE e.form = "authorize"
    <3>1. TypeOf(env, e) = <<"result">> \o Permit
      BY <2>3 DEF TypeOf
    <3>2. QED
      BY <2>2, <3>1, BasesAreTyped, TypedIsShape, TypedByEnding, WrapShape
  <2>4. CASE e.form = "commit"
    <3>1. TypeOf(env, e) = <<"result">> \o Data
      BY <2>4 DEF TypeOf
    <3>2. QED
      BY <2>2, <3>1, BasesAreTyped, TypedIsShape, TypedByEnding, WrapShape
  <2>5. CASE e.form \in {"path", "call"}
    BY <2>1, <2>5 DEF TypeOf, type
  <2>6. CASE e.form \in {"field", "try"}
    <3>1. Head(type) \in Wrappers
      BY <1>2, <2>6, AcceptedParts DEF Wrappers, type
    <3>2. TypeOf(env, e) = Tail(type)
      BY <2>6 DEF TypeOf, type
    <3>3. QED
      BY <2>1, <3>1, <3>2, HeadIsNotLast, TailShape, TypedByEnding
  <2>7. CASE e.form \in DOMAIN Wrapper
    <3>1. TypeOf(env, e) = <<Wrapper[e.form]>> \o type
      BY <2>7, WrapperParts DEF TypeOf, type
    <3>2. QED
      BY <2>1, <2>7, <3>1, WrapperParts, WrapShape, TypedByEnding
  <2>8. QED
    BY <1>2, <2>1, <2>3, <2>4, <2>5, <2>6, <2>7, WrapperParts DEF AllForms, Closed
<1>3. QED
  BY <1>1, <1>2
-----------------------------------------------------------------------------
(* The run of an expression *)

\* The local of every name holds a value of the name's type.
Means(env, names, store, count) ==
  \A n \in DOMAIN env :
    /\ names[n] \in DOMAIN store
    /\ IsValue(store[names[n]], count)
    /\ Fits(store[names[n]].type, env[n].type)

IsLedger(ledger, consumed) == ledger \in Seq(Nat) /\ consumed \subseteq 1..Len(ledger)

\* Where the run is, the names mean what the checker thinks.
AtHome ==
  /\ IsEnv(environment) /\ DOMAIN bindings = DOMAIN environment
  /\ IsLedger(issued, spent)
  /\ Means(environment, bindings, locals, Len(issued))

OfId(n) == locals[bindings[n]].id

\* The identity in the value of an expression is new or was its operand's,
\* which the checker has moved or is known to lose; a commit consumes those of
\* its operands.
Origin(e, o) ==
  \/ o.spent = spent /\ o.value.id = 0
  \/ o.spent = spent /\ o.value.id = Len(issued) + 1
  \/ /\ o.spent = spent /\ e.form \notin Closed /\ o.value.id = OfId(e.of)
     /\ e.of \in Moves(environment, e) \/ o.value.id \in Untracked(e)
  \/ /\ e.form = "commit" /\ o.value.id = 0
     /\ o.spent = spent \cup {OfId(e.of), OfId(e.permit)}

Produces(e, o) ==
  /\ IsLedger(o.issued, o.spent) /\ Len(issued) <= Len(o.issued)
  /\ IsValue(o.value, Len(o.issued)) /\ Fits(o.value.type, TypeOf(environment, e))
  /\ Origin(e, o)

LEMMA LocalIsRead ==
  ASSUME NoVariants, NEW n \in Names, n \in DOMAIN bindings
  PROVE  Local(bindings, locals, n) = locals[bindings[n]]
BY DEF NoVariants, Local

LEMMA Issues ==
  ASSUME NEW ledger, NEW consumed, IsLedger(ledger, consumed), NEW id \in Nat
  PROVE  /\ IsLedger(Append(ledger, id), consumed)
         /\ Len(Append(ledger, id)) = Len(ledger) + 1 /\ Len(ledger) \in Nat
<1>1. /\ Append(ledger, id) \in Seq(Nat) /\ Len(Append(ledger, id)) = Len(ledger) + 1
      /\ Len(ledger) \in Nat
  BY AppendProperties, LenProperties DEF IsLedger
<1> DEFINE next == Append(ledger, id)
<1> HIDE DEF next
<1>2. IsLedger(next, consumed)
  BY <1>1 DEF IsLedger, next
<1>3. QED
  BY <1>1, <1>2 DEF next

LEMMA PlainIsValue == \A count \in Nat : IsValue(Plain, count) /\ Plain.type = Data /\ Plain.id = 0
<1>1. Plain.type = Data /\ Plain.id = 0
  BY DEF Plain
<1>2. "data" \notin Affines
  BY DEF Affines
<1>3. QED
  BY <1>1, <1>2, BasesAreTyped, TypedIsShape DEF IsValue

LEMMA ClosedProduce ==
  ASSUME AtHome, live, NEW e \in Expressions, e.form \in Closed, NEW o \in Outcomes(e)
  PROVE  o.live /\ Produces(e, o)
<1>1. IsLedger(issued, spent) /\ Len(issued) \in Nat
  BY LenProperties DEF AtHome, IsLedger
<1>2. CASE e.form = "unit"
  <2>1. o = Outcome(Plain, issued, spent, TRUE) /\ TypeOf(environment, e) = Data
    BY <1>2 DEF Outcomes, Value, TypeOf
  <2>2. o.value = Plain /\ o.issued = issued /\ o.spent = spent /\ o.live
    BY <2>1 DEF Outcome
  <2>3. Origin(e, o)
    BY <2>2, PlainIsValue, <1>1 DEF Origin
  <2>4. IsValue(o.value, Len(o.issued)) /\ o.value.type = Data
    BY <1>1, <2>2, PlainIsValue
  <2>5. Fits(o.value.type, TypeOf(environment, e))
    BY <2>1, <2>4, WholeFits
  <2>6. QED
    BY <1>1, <2>2, <2>3, <2>4, <2>5 DEF Produces
<1>3. CASE e.form = "propose"
  <2> DEFINE v == [type |-> Proposal, id |-> Len(issued) + 1]
             next == Append(issued, 0)
  <2>1. o = Outcome(v, next, spent, TRUE) /\ TypeOf(environment, e) = Proposal
    BY <1>3 DEF Outcomes, TypeOf
  <2>2. IsLedger(next, spent) /\ Len(next) = Len(issued) + 1
    BY <1>1, Issues
  <2> HIDE DEF next
  <2>3. o.value = v /\ o.issued = next /\ o.spent = spent /\ o.live
    BY <2>1 DEF Outcome
  <2>4. v.type = Proposal /\ v.id = Len(issued) + 1 /\ v.id \in 1..Len(next)
    BY <1>1, <2>2
  <2> HIDE DEF v
  <2>5. IsValue(v, Len(next))
    BY <2>4, BasesAreTyped, TypedIsShape DEF IsValue, Affines
  <2>6. Origin(e, o)
    BY <2>3, <2>4 DEF Origin
  <2>7. Fits(o.value.type, TypeOf(environment, e))
    BY <2>1, <2>3, <2>4, WholeFits
  <2>8. Len(issued) <= Len(o.issued)
    BY <1>1, <2>2, <2>3
  <2>9. QED
    BY <2>2, <2>3, <2>5, <2>6, <2>7, <2>8 DEF Produces
<1>4. QED
  BY <1>2, <1>3 DEF Closed

\* A value with the identity of an operand of the same ending.
LEMMA Carries ==
  ASSUME NEW v, NEW count, IsValue(v, count), NEW shape, IsShape(shape), Ending(shape) = Ending(v.type)
  PROVE  IsValue([type |-> shape, id |-> v.id], count)
BY DEF IsValue

LEMMA UnownedIsZero ==
  ASSUME NEW v, NEW count, IsValue(v, count), NEW type, IsTyped(type), Fits(v.type, type), ~Affine(type)
  PROVE  v.id = 0
<1>1. Ending(v.type) \notin Affines
  BY AffineIsWhole, AffineEnding DEF IsValue
<1>2. QED
  BY <1>1 DEF IsValue

LEMMA AuthorizeProduces ==
  ASSUME NoVariants, AtHome, live, NEW e \in Expressions, Accepts(environment, e),
         e.form = "authorize", NEW o \in Outcomes(e)
  PROVE  o = Stops \/ (o.live /\ Produces(e, o))
<1> DEFINE operand == Local(bindings, locals, e.of)
           t == <<"result">> \o Permit
           v == [type |-> t, id |-> Len(issued) + 1]
           next == Append(issued, operand.id)
<1>1. IsLedger(issued, spent) /\ Len(issued) \in Nat
  BY LenProperties DEF AtHome, IsLedger
<1>2. e.of \in Names /\ e.of \in DOMAIN environment
  BY AcceptedParts, ExpressionParts DEF Closed
<1>3. operand = locals[bindings[e.of]] /\ IsValue(operand, Len(issued))
  BY <1>2, LocalIsRead DEF AtHome, Means
<1>4. \/ o = Stops
      \/ o = Value([type |-> Failed, id |-> 0])
      \/ operand.type = Proposal /\ o = Outcome(v, next, spent, TRUE)
  BY DEF Outcomes
<1>5. TypeOf(environment, e) = t
  BY DEF TypeOf
<1>6. IsShape(t) /\ Ending(t) = "permit" /\ t[1] = "result" /\ t \in Text /\ Len(t) >= 1
  <2>1. "result" \in Words
    BY WordParts DEF Wrappers
  <2>2. IsShape(t) /\ Ending(t) = "permit" /\ t[1] = "result"
    BY <2>1, BasesAreTyped, TypedIsShape, WrapShape
  <2> HIDE DEF t
  <2>3. QED
    BY <2>2 DEF IsShape
<1>7. CASE o = Value([type |-> Failed, id |-> 0])
  <2> DEFINE w == [type |-> Failed, id |-> 0]
  <2>1. o.value = w /\ o.issued = issued /\ o.spent = spent /\ o.live
    BY <1>7 DEF Value, Outcome
  <2>2. w.type = Failed /\ w.id = 0
    OBVIOUS
  <2> HIDE DEF w, t
  <2>3. IsValue(w, Len(issued))
    BY <2>2, FailedIsShape DEF IsValue, Affines
  <2>4. Fits(w.type, t)
    BY <1>6, <2>2, FailedFits
  <2>5. QED
    BY <1>1, <1>5, <2>1, <2>2, <2>3, <2>4 DEF Produces, Origin
<1>8. CASE operand.type = Proposal /\ o = Outcome(v, next, spent, TRUE)
  <2>1. operand.id \in Nat
    BY <1>1, <1>3 DEF IsValue
  <2>2. IsLedger(next, spent) /\ Len(next) = Len(issued) + 1
    BY <1>1, <2>1, Issues
  <2>3. o.value = v /\ o.issued = next /\ o.spent = spent /\ o.live
    BY <1>8 DEF Outcome
  <2> HIDE DEF next, t
  <2>4. v.type = t /\ v.id = Len(issued) + 1 /\ v.id \in 1..Len(next)
    BY <1>1, <2>2
  <2> HIDE DEF v
  <2>5. IsValue(v, Len(next))
    BY <1>6, <2>4 DEF IsValue, Affines
  <2>6. QED
    BY <1>1, <1>5, <2>2, <2>3, <2>4, <2>5, WholeFits DEF Produces, Origin
<1>9. QED
  BY <1>4, <1>7, <1>8

LEMMA CommitProduces ==
  ASSUME NoVariants, AtHome, live, NEW e \in Expressions, Accepts(environment, e),
         e.form = "commit", NEW o \in Outcomes(e)
  PROVE  o = Stops \/ (o.live /\ Produces(e, o))
<1> DEFINE operand == Local(bindings, locals, e.of)
           permit == Local(bindings, locals, e.permit)
           t == <<"result">> \o Data
           v == [type |-> t, id |-> 0]
           gone == spent \cup {operand.id, permit.id}
<1>1. IsLedger(issued, spent) /\ Len(issued) \in Nat
  BY LenProperties DEF AtHome, IsLedger
<1>2. /\ e.of \in Names /\ e.of \in DOMAIN environment
      /\ e.permit \in Names /\ e.permit \in DOMAIN environment
  BY AcceptedParts, ExpressionParts DEF Closed
<1>3. /\ operand = locals[bindings[e.of]] /\ IsValue(operand, Len(issued))
      /\ permit = locals[bindings[e.permit]] /\ IsValue(permit, Len(issued))
  BY <1>2, LocalIsRead DEF AtHome, Means
<1>4. \/ o = Stops
      \/ operand.type = Proposal /\ permit.type = Permit /\ o = Outcome(v, issued, gone, TRUE)
  BY DEF Outcomes
<1>5. TypeOf(environment, e) = t
  BY DEF TypeOf
<1>6. IsShape(t) /\ Ending(t) = "data"
  <2>1. "result" \in Words
    BY WordParts DEF Wrappers
  <2>2. QED
    BY <2>1, BasesAreTyped, TypedIsShape, WrapShape
<1>7. CASE operand.type = Proposal /\ permit.type = Permit /\ o = Outcome(v, issued, gone, TRUE)
  <2>1. operand.id \in 1..Len(issued) /\ permit.id \in 1..Len(issued)
    BY <1>3, <1>7, BasesAreTyped DEF IsValue, Affines
  <2>2. o.value = v /\ o.issued = issued /\ o.spent = gone /\ o.live
    BY <1>7 DEF Outcome
  <2>3. gone = spent \cup {OfId(e.of), OfId(e.permit)}
    BY <1>3 DEF OfId
  <2>4. IsLedger(issued, gone)
    BY <1>1, <2>1 DEF IsLedger
  <2> HIDE DEF t, gone
  <2>5. v.type = t /\ v.id = 0
    OBVIOUS
  <2> HIDE DEF v
  <2>6. IsValue(v, Len(issued))
    BY <1>6, <2>5 DEF IsValue, Affines
  <2>7. QED
    BY <1>1, <1>5, <2>2, <2>3, <2>4, <2>5, <2>6, WholeFits DEF Produces, Origin
<1>8. QED
  BY <1>4, <1>7

\* What is read of an operand, wrapped or unwrapped.
LEMMA OperandProduces ==
  ASSUME NoVariants, AtHome, live, NEW e \in Expressions, Accepts(environment, e),
         e.form \notin Closed \cup {"authorize", "commit"}, NEW o \in Outcomes(e)
  PROVE  o = Stops \/ (o.live /\ Produces(e, o))
<1> DEFINE operand == Local(bindings, locals, e.of)
           type == environment[e.of].type
<1>1. IsLedger(issued, spent) /\ Len(issued) \in Nat
  BY LenProperties DEF AtHome, IsLedger
<1>2. e.of \in Names /\ e.of \in DOMAIN environment /\ PathType(environment, e.of) = type
  BY AcceptedParts, ExpressionParts
<1>3. /\ operand = locals[bindings[e.of]] /\ IsValue(operand, Len(issued))
      /\ Fits(operand.type, type) /\ IsTyped(type)
  BY <1>2, LocalIsRead DEF AtHome, Means, IsEnv
<1>4. IsShape(operand.type) /\ operand.type \in Text /\ type \in Text
  BY <1>3 DEF IsValue, IsShape, IsTyped
<1>5. e.form \in {"path", "call", "field", "try"} \cup DOMAIN Wrapper
  BY ExpressionParts, WrapperParts DEF AllForms, Closed
<1>6. \/ operand.id = 0
      \/ e.of \in Moves(environment, e)
      \/ operand.id \in Untracked(e)
  <2>1. CASE e.form \in {"field", "try", "variant"}
    BY <2>1 DEF Untracked
  <2>2. CASE e.form \notin {"field", "try", "variant"} /\ ~Affine(type)
    <3> HIDE DEF operand, type
    <3>1. QED
      BY <1>3, <2>2, UnownedIsZero
  <2>3. CASE e.form \notin {"field", "try", "variant"} /\ Affine(type)
    <3>1. e.form \in Transfers \cup {"path"}
      BY <1>5, <2>3, WrapperParts DEF Transfers
    <3>2. Moves(environment, e) = {e.of}
      BY <1>2, <2>3, <3>1 DEF Moves, Transfers
    <3>3. QED
      BY <3>2
  <2>4. QED
    BY <2>1, <2>2, <2>3
<1>7. ASSUME NEW v, v.id = operand.id, IsValue(v, Len(issued)), o = Value(v),
             Fits(v.type, TypeOf(environment, e))
      PROVE  o.live /\ Produces(e, o)
  <2>1. o.value = v /\ o.issued = issued /\ o.spent = spent /\ o.live
    BY <1>7 DEF Value, Outcome
  <2>2. Origin(e, o)
    <3>1. e.form \notin Closed /\ operand.id = OfId(e.of)
      BY <1>3 DEF OfId
    <3>2. QED
      BY <1>6, <1>7, <2>1, <3>1 DEF Origin
  <2>3. QED
    BY <1>1, <1>7, <2>1, <2>2 DEF Produces
<1>8. CASE e.form \in {"path", "call"}
  <2>1. o = Value(operand) /\ TypeOf(environment, e) = type
    BY <1>2, <1>8 DEF Outcomes, TypeOf
  <2>2. QED
    BY <1>3, <1>7, <2>1
<1>9. CASE e.form \in {"field", "try"}
  <2> DEFINE v == [type |-> Tail(operand.type), id |-> operand.id]
  <2>1. TypeOf(environment, e) = Tail(type)
    BY <1>2, <1>9 DEF TypeOf
  <2>2. CASE Len(operand.type) < 2
    BY <1>9, <2>2 DEF Outcomes
  <2>3. CASE ~(Len(operand.type) < 2)
    <3>1. o = Value(v)
      BY <1>9, <2>3 DEF Outcomes
    <3>2. Len(operand.type) >= 2 /\ Len(type) >= 1
      <4>1. Len(operand.type) \in Nat /\ Len(type) >= 1
        BY <1>3, <1>4, TextParts DEF IsTyped
      <4> DEFINE k == Len(operand.type)
      <4>2. k \in Nat /\ ~(k < 2)
        BY <2>3, <4>1
      <4> HIDE DEF k
      <4>3. k >= 2
        BY <4>2
      <4>4. QED
        BY <4>1, <4>3 DEF k
    <3> HIDE DEF operand, type
    <3>3. IsShape(Tail(operand.type)) /\ Ending(Tail(operand.type)) = Ending(operand.type)
      BY <1>4, <3>2, TailShape
    <3>4. IsValue(v, Len(issued))
      BY <1>3, <3>3, Carries
    <3>5. Fits(Tail(operand.type), Tail(type))
      BY <1>3, <1>4, <3>2, TailFits
    <3>6. v.type = Tail(operand.type) /\ v.id = operand.id
      OBVIOUS
    <3> HIDE DEF v
    <3>7. QED
      BY <1>7, <2>1, <3>1, <3>4, <3>5, <3>6
  <2>4. QED
    BY <2>2, <2>3
<1>10. CASE e.form \in DOMAIN Wrapper
  <2> DEFINE w == Wrapper[e.form]
             v == [type |-> <<w>> \o operand.type, id |-> operand.id]
  <2>1. w \in Words
    BY <1>10, WrapperParts
  <2>2. TypeOf(environment, e) = <<w>> \o type
    BY <1>2, <1>10, WrapperParts DEF TypeOf
  <2>3. o = Value(v)
    BY <1>10, WrapperParts DEF Outcomes
  <2> HIDE DEF operand, type, w
  <2>4. IsShape(<<w>> \o operand.type) /\ Ending(<<w>> \o operand.type) = Ending(operand.type)
    BY <1>4, <2>1, WrapShape
  <2>5. IsValue(v, Len(issued))
    BY <1>3, <2>4, Carries
  <2>6. Fits(<<w>> \o operand.type, <<w>> \o type)
    BY <1>3, <1>4, <2>1, WrapFits
  <2>7. v.type = <<w>> \o operand.type /\ v.id = operand.id
    OBVIOUS
  <2> HIDE DEF v
  <2>8. QED
    BY <1>7, <2>2, <2>3, <2>5, <2>6, <2>7
<1>11. QED
  BY <1>5, <1>8, <1>9, <1>10

\* An expression of an accepted body runs to a value of its type, or the run
\* stops in it.
LEMMA OutcomeProduces ==
  ASSUME NoVariants, AtHome, live, NEW e \in Expressions, Accepts(environment, e),
         NEW o \in Outcomes(e)
  PROVE  o = Stops \/ (o.live /\ Produces(e, o))
BY ClosedProduce, AuthorizeProduces, CommitProduces, OperandProduces

LEMMA SkippedStops ==
  ASSUME ~live, NEW e, NEW o \in Outcomes(e)
  PROVE  o = Stops
BY DEF Outcomes

LEMMA StopsParts ==
  /\ Stops.value = Plain /\ Stops.issued = issued /\ Stops.spent = spent /\ Stops.live = FALSE
BY DEF Stops, Outcome
-----------------------------------------------------------------------------
(* Scopes: an environment with the runtime names of its variables          *)

\* The numbers of the names are below the next one.
Scope(env, names, bound) ==
  /\ IsEnv(env) /\ DOMAIN names = DOMAIN env
  /\ \A n \in DOMAIN names :
       names[n] = <<n, names[n][2]>> /\ names[n][2] \in Nat /\ names[n][2] < bound

\* What is bound later has no lower number.
Below(outer, names) ==
  \A n \in DOMAIN outer : n \in DOMAIN names /\ outer[n][2] <= names[n][2]

\* No local of an older name is written.
Extends(store, next, bound) ==
  \A r \in DOMAIN store : r[2] \in Nat /\ r[2] < bound => r \in DOMAIN next /\ next[r] = store[r]

LEMMA OverrideParts ==
  ASSUME NEW f, NEW x, NEW value
  PROVE  /\ \A y : y \in DOMAIN Override(f, x, value) <=> y \in DOMAIN f \/ y = x
         /\ Override(f, x, value)[x] = value
         /\ \A y \in DOMAIN f : y # x => Override(f, x, value)[y] = f[y]
BY DEF Override

LEMMA SameTypes ==
  ASSUME NEW env, NEW other, DOMAIN other = DOMAIN env,
         \A n \in DOMAIN env : other[n].type = env[n].type,
         NEW names, NEW bound, NEW store, NEW count
  PROVE  /\ Scope(env, names, bound) => Scope(other, names, bound)
         /\ Means(env, names, store, count) => Means(other, names, store, count)
BY DEF Scope, IsEnv, Means

LEMMA CheckedTypes ==
  ASSUME NEW env, NEW e
  PROVE  /\ DOMAIN Checked(env, e) = DOMAIN env
         /\ \A n \in DOMAIN env : Checked(env, e)[n].type = env[n].type
BY DEF Checked

LEMMA JoinedTypes ==
  ASSUME NEW env, NEW ends
  PROVE  /\ DOMAIN JoinMoved(env, ends) = DOMAIN env
         /\ \A n \in DOMAIN env : JoinMoved(env, ends)[n].type = env[n].type
BY DEF JoinMoved

LEMMA ScopeGrows ==
  ASSUME NEW env, NEW names, NEW bound \in Nat, Scope(env, names, bound),
         NEW next \in Nat, bound <= next
  PROVE  Scope(env, names, next)
BY DEF Scope

LEMMA BelowSelf ==
  ASSUME NEW env, NEW names, NEW bound, Scope(env, names, bound)
  PROVE  Below(names, names)
BY DEF Scope, Below

LEMMA BelowBelow ==
  ASSUME NEW e1, NEW a, NEW e2, NEW b, NEW e3, NEW c, NEW bound,
         Scope(e1, a, bound), Scope(e2, b, bound), Scope(e3, c, bound), Below(a, b), Below(b, c)
  PROVE  Below(a, c)
<1> SUFFICES ASSUME NEW n \in DOMAIN a PROVE n \in DOMAIN c /\ a[n][2] <= c[n][2]
  BY DEF Below
<1>1. n \in DOMAIN b /\ n \in DOMAIN c /\ a[n][2] <= b[n][2] /\ b[n][2] <= c[n][2]
  BY DEF Below
<1>2. a[n][2] \in Nat /\ b[n][2] \in Nat /\ c[n][2] \in Nat
  BY <1>1 DEF Scope
<1>3. QED
  BY <1>1, <1>2

LEMMA ValueStays ==
  ASSUME NEW v, NEW count \in Nat, IsValue(v, count), NEW more \in Nat, count <= more
  PROVE  IsValue(v, more)
BY DEF IsValue

LEMMA MeansStays ==
  ASSUME NEW env, NEW names, NEW bound, Scope(env, names, bound), NEW store, NEW count \in Nat,
         Means(env, names, store, count), NEW next, Extends(store, next, bound),
         NEW more \in Nat, count <= more
  PROVE  Means(env, names, next, more)
<1> SUFFICES ASSUME NEW n \in DOMAIN env
             PROVE  /\ names[n] \in DOMAIN next /\ IsValue(next[names[n]], more)
                    /\ Fits(next[names[n]].type, env[n].type)
  BY DEF Means
<1>1. /\ names[n] \in DOMAIN store /\ IsValue(store[names[n]], count)
      /\ Fits(store[names[n]].type, env[n].type)
  BY DEF Means
<1>2. names[n] \in DOMAIN next /\ next[names[n]] = store[names[n]]
  BY <1>1 DEF Scope, Extends
<1>3. QED
  BY <1>1, <1>2, ValueStays

\* bind_name: the new local shadows, and overwrites none.
LEMMA BindParts ==
  ASSUME NEW n \in Names \cup {NoName}, NEW type, n # NoName => IsTyped(type),
         NEW value, NEW env, NEW names, NEW goes, next_binding \in Nat,
         Scope(env, names, next_binding), Bind(n, type, value, env, names, goes)
  PROVE  /\ next_binding' \in Nat /\ next_binding <= next_binding'
         /\ Scope(environment', bindings', next_binding')
         /\ Below(names, bindings')
         /\ Extends(locals, locals', next_binding)
<1>1. CASE n = NoName
  <2>1. environment' = env /\ bindings' = names /\ next_binding' = next_binding /\ locals' = locals
    BY <1>1 DEF Bind
  <2>2. QED
    BY <2>1, BelowSelf DEF Extends
<1>2. CASE n # NoName
  <2> DEFINE r == <<n, next_binding>>
             item == [type |-> type, moved |-> FALSE]
  <2>1. /\ environment' = Override(env, n, item)
        /\ bindings' = Override(names, n, r)
        /\ next_binding' = next_binding + 1
        /\ locals' = IF goes THEN Override(locals, r, value) ELSE locals
    BY <1>2 DEF Bind, BindName
  <2>2. r[2] = next_binding /\ r = <<n, r[2]>> /\ item.type = type
    OBVIOUS
  <2> HIDE DEF r, item
  <2>3. /\ \A y : y \in DOMAIN environment' <=> y \in DOMAIN env \/ y = n
        /\ environment'[n] = item
        /\ \A y \in DOMAIN env : y # n => environment'[y] = env[y]
    BY <2>1, OverrideParts
  <2>4. /\ \A y : y \in DOMAIN bindings' <=> y \in DOMAIN names \/ y = n
        /\ bindings'[n] = r
        /\ \A y \in DOMAIN names : y # n => bindings'[y] = names[y]
    BY <2>1, OverrideParts
  <2>5. IsEnv(environment')
    BY <1>2, <2>2, <2>3 DEF Scope, IsEnv
  <2>6. DOMAIN bindings' = DOMAIN environment'
    BY <2>3, <2>4 DEF Scope
  <2>7. \A y \in DOMAIN bindings' :
          /\ bindings'[y] = <<y, bindings'[y][2]>> /\ bindings'[y][2] \in Nat
          /\ bindings'[y][2] < next_binding'
    <3> TAKE y \in DOMAIN bindings'
    <3>1. CASE y = n
      BY <2>1, <2>2, <2>4, <3>1
    <3>2. CASE y # n
      <4>1. y \in DOMAIN names /\ bindings'[y] = names[y]
        BY <2>4, <3>2
      <4>2. names[y] = <<y, names[y][2]>> /\ names[y][2] \in Nat /\ names[y][2] < next_binding
        BY <4>1 DEF Scope
      <4>3. names[y][2] < next_binding'
        BY <2>1, <4>2
      <4>4. QED
        BY <4>1, <4>2, <4>3
    <3>3. QED
      BY <3>1, <3>2
  <2>8. Below(names, bindings')
    <3> SUFFICES ASSUME NEW y \in DOMAIN names
                 PROVE  y \in DOMAIN bindings' /\ names[y][2] <= bindings'[y][2]
      BY DEF Below
    <3>1. names[y][2] \in Nat /\ names[y][2] < next_binding
      BY DEF Scope
    <3>2. CASE y = n
      BY <2>2, <2>4, <3>1, <3>2
    <3>3. CASE y # n
      BY <2>4, <3>1, <3>3
    <3>4. QED
      BY <3>2, <3>3
  <2>9. Extends(locals, locals', next_binding)
    <3> SUFFICES ASSUME NEW s \in DOMAIN locals, s[2] \in Nat, s[2] < next_binding
                 PROVE  s \in DOMAIN locals' /\ locals'[s] = locals[s]
      BY DEF Extends
    <3>1. s # r
      BY <2>2
    <3>2. QED
      BY <2>1, <3>1, OverrideParts
  <2>10. QED
    BY <2>1, <2>5, <2>6, <2>7, <2>8, <2>9 DEF Scope
<1>3. QED
  BY <1>1, <1>2

LEMMA BindMeans ==
  ASSUME NEW n \in Names \cup {NoName}, NEW type, NEW value, NEW env, NEW names,
         next_binding \in Nat, Scope(env, names, next_binding), NEW goes, goes,
         Bind(n, type, value, env, names, goes),
         NEW count, Means(env, names, locals, count),
         n # NoName => IsValue(value, count) /\ Fits(value.type, type)
  PROVE  Means(environment', bindings', locals', count)
<1>1. CASE n = NoName
  BY <1>1 DEF Bind
<1>2. CASE n # NoName
  <2> DEFINE r == <<n, next_binding>>
             item == [type |-> type, moved |-> FALSE]
  <2>1. /\ environment' = Override(env, n, item)
        /\ bindings' = Override(names, n, r)
        /\ locals' = Override(locals, r, value)
    BY <1>2 DEF Bind, BindName
  <2>2. r[2] = next_binding /\ item.type = type
    OBVIOUS
  <2> HIDE DEF r, item
  <2>3. /\ \A y : y \in DOMAIN environment' <=> y \in DOMAIN env \/ y = n
        /\ environment'[n] = item
        /\ \A y \in DOMAIN env : y # n => environment'[y] = env[y]
    BY <2>1, OverrideParts
  <2>4. /\ bindings'[n] = r
        /\ \A y \in DOMAIN names : y # n => bindings'[y] = names[y]
    BY <2>1, OverrideParts
  <2>5. /\ \A s : s \in DOMAIN locals' <=> s \in DOMAIN locals \/ s = r
        /\ locals'[r] = value
        /\ \A s \in DOMAIN locals : s # r => locals'[s] = locals[s]
    BY <2>1, OverrideParts
  <2> SUFFICES ASSUME NEW y \in DOMAIN environment'
               PROVE  /\ bindings'[y] \in DOMAIN locals'
                      /\ IsValue(locals'[bindings'[y]], count)
                      /\ Fits(locals'[bindings'[y]].type, environment'[y].type)
    BY DEF Means
  <2>6. CASE y = n
    BY <1>2, <2>2, <2>3, <2>4, <2>5, <2>6
  <2>7. CASE y # n
    <3>1. y \in DOMAIN env /\ environment'[y] = env[y] /\ y \in DOMAIN names /\ bindings'[y] = names[y]
      BY <2>3, <2>4, <2>7 DEF Scope
    <3>2. /\ names[y] \in DOMAIN locals /\ IsValue(locals[names[y]], count)
          /\ Fits(locals[names[y]].type, env[y].type)
      BY <3>1 DEF Means
    <3>3. names[y] # r
      BY <2>2, <3>1 DEF Scope
    <3>4. names[y] \in DOMAIN locals' /\ locals'[names[y]] = locals[names[y]]
      BY <2>5, <3>2, <3>3
    <3>5. QED
      BY <3>1, <3>2, <3>4
  <2>8. QED
    BY <2>6, <2>7
<1>3. QED
  BY <1>1, <1>2
-----------------------------------------------------------------------------
(* Open blocks *)

IsStack(s) == s \in Seq(Range(s))

LEMMA PushParts ==
  ASSUME NEW s, IsStack(s), NEW b
  PROVE  /\ IsStack(Append(s, b)) /\ Len(s) \in Nat /\ Len(Append(s, b)) = Len(s) + 1
         /\ \A i \in 1..Len(s) : Append(s, b)[i] = s[i]
         /\ Append(s, b)[Len(s) + 1] = b
<1> DEFINE S == Range(s) \cup {b}
<1>1. s \in Seq(S) /\ b \in S
  <2>1. Range(s) \subseteq S /\ b \in S
    OBVIOUS
  <2> HIDE DEF S
  <2>2. QED
    BY <2>1, SeqMonotonic DEF IsStack
<1> HIDE DEF S
<1>2. /\ Append(s, b) \in Seq(S) /\ Len(Append(s, b)) = Len(s) + 1
      /\ \A i \in 1..Len(s) : Append(s, b)[i] = s[i]
      /\ Append(s, b)[Len(s) + 1] = b
  BY <1>1, AppendProperties
<1>3. IsStack(Append(s, b))
  BY <1>2, SeqOfRange DEF IsStack
<1>4. QED
  BY <1>1, <1>2, <1>3, LenProperties

LEMMA PopParts ==
  ASSUME NEW s, IsStack(s), s # <<>>
  PROVE  /\ IsStack(Front(s)) /\ Len(s) \in Nat /\ Len(s) > 0 /\ Len(Front(s)) = Len(s) - 1
         /\ \A i \in 1..(Len(s) - 1) : Front(s)[i] = s[i]
         /\ Last(s) = s[Len(s)]
<1> DEFINE S == Range(s)
<1>1. s \in Seq(S)
  BY DEF IsStack
<1> HIDE DEF S
<1>2. Len(s) \in Nat /\ Len(s) > 0
  BY <1>1, EmptySeq, LenProperties
<1>3. /\ SubSeq(s, 1, Len(s) - 1) \in Seq(S) /\ Len(SubSeq(s, 1, Len(s) - 1)) = Len(s) - 1
      /\ \A i \in 1..(Len(s) - 1) : SubSeq(s, 1, Len(s) - 1)[i] = s[i]
  <2> DEFINE k == Len(s) - 1
             less == SubSeq(s, 1, k)
  <2>1. k \in Int /\ k >= 0 /\ \A i \in 1..k : s[i] \in S
    BY <1>1, <1>2
  <2> HIDE DEF k
  <2>2. /\ less \in Seq(S) /\ Len(less) = IF 1 <= k THEN k - 1 + 1 ELSE 0
        /\ \A i \in 1..(k - 1 + 1) : less[i] = s[1 + i - 1]
    BY <2>1, SubSeqProperties
  <2> HIDE DEF less
  <2>3. less \in Seq(S) /\ Len(less) = k /\ \A i \in 1..k : less[i] = s[i]
    BY <2>1, <2>2
  <2>4. QED
    BY <2>3 DEF less, k
<1>4. IsStack(Front(s))
  BY <1>3, SeqOfRange DEF IsStack, Front
<1>5. QED
  BY <1>2, <1>3, <1>4 DEF Front, Last

\* The run is in the block or arm of b that is being read.
LiveIn(b) == IF b.ends = <<>> THEN b.taken ELSE b.reached /\ ~b.taken
LiveAt(blocks, i) == IF i = 0 THEN TRUE ELSE LiveIn(blocks[i])

\* What a block keeps for its end: the names around it and, from its first
\* part, the type of its value.
IsBlock(b, bound) ==
  /\ Scope(b.entry, b.outer, bound)
  /\ b.into \in Names \cup {NoName}
  /\ b.taken => b.reached
  /\ b.ends # <<>> => IsTyped(b.type)

\* The blocks around a point where `names' are in scope.
Contexts(blocks, names, bound) ==
  /\ IsStack(blocks)
  /\ \A i \in 1..Len(blocks) :
       /\ IsBlock(blocks[i], bound) /\ Below(blocks[i].outer, names)
       /\ blocks[i].reached <=> LiveAt(blocks, i - 1)
  /\ \A i, k \in 1..Len(blocks) : i <= k => Below(blocks[i].outer, blocks[k].outer)

BlockMeans(b, store, count) ==
  b.reached => /\ Means(b.entry, b.outer, store, count)
               /\ b.taken /\ b.ends # <<>> => IsValue(b.value, count) /\ Fits(b.value.type, b.type)

Meanings(blocks, store, count) == \A i \in 1..Len(blocks) : BlockMeans(blocks[i], store, count)

LEMMA ContextsRebind ==
  ASSUME NEW blocks, NEW env, NEW names, NEW bound \in Nat, Scope(env, names, bound),
         Contexts(blocks, names, bound),
         NEW fresh, NEW outer, NEW next \in Nat, bound <= next, Scope(fresh, outer, next),
         Below(names, outer)
  PROVE  Contexts(blocks, outer, next)
<1> SUFFICES ASSUME NEW i \in 1..Len(blocks)
             PROVE  IsBlock(blocks[i], next) /\ Below(blocks[i].outer, outer)
  BY DEF Contexts
<1>1. IsBlock(blocks[i], bound) /\ Below(blocks[i].outer, names)
  BY DEF Contexts
<1>2. Scope(blocks[i].entry, blocks[i].outer, next) /\ Scope(env, names, next)
  BY <1>1, ScopeGrows DEF IsBlock
<1>3. Below(blocks[i].outer, outer)
  BY <1>1, <1>2, BelowBelow
<1>4. QED
  BY <1>1, <1>2, <1>3 DEF IsBlock

LEMMA ContextsPush ==
  ASSUME NEW blocks, NEW env, NEW names, NEW bound, Scope(env, names, bound),
         Contexts(blocks, names, bound), NEW b, IsBlock(b, bound), b.outer = names,
         b.reached <=> LiveAt(blocks, Len(blocks))
  PROVE  Contexts(Append(blocks, b), names, bound)
<1> DEFINE more == Append(blocks, b)
           k == Len(blocks)
<1>1. /\ IsStack(more) /\ k \in Nat /\ Len(more) = k + 1
      /\ \A i \in 1..k : more[i] = blocks[i]
      /\ more[k + 1] = b
  BY PushParts DEF Contexts
<1>2. Below(names, names)
  BY BelowSelf
<1>3. \A i \in 1..k : LiveAt(more, i) <=> LiveAt(blocks, i)
  BY <1>1 DEF LiveAt
<1>4. /\ \A i \in 1..k : /\ IsBlock(blocks[i], bound) /\ Below(blocks[i].outer, names)
                         /\ blocks[i].reached <=> LiveAt(blocks, i - 1)
      /\ \A i, j \in 1..k : i <= j => Below(blocks[i].outer, blocks[j].outer)
      /\ b.reached <=> LiveAt(blocks, k)
  BY DEF Contexts
<1> HIDE DEF more, k
<1>5. \A i \in 0..k : LiveAt(more, i) <=> LiveAt(blocks, i)
  <2> TAKE i \in 0..k
  <2>1. CASE i = 0
    BY <2>1 DEF LiveAt
  <2>2. CASE i # 0
    BY <1>1, <1>3, <2>2
  <2>3. QED
    BY <2>1, <2>2
<1>6. ASSUME NEW i \in 1..(k + 1)
      PROVE  /\ IsBlock(more[i], bound) /\ Below(more[i].outer, names)
             /\ more[i].reached <=> LiveAt(more, i - 1)
  <2>1. CASE i = k + 1
    <3>1. more[i] = b /\ i - 1 = k /\ k \in 0..k
      BY <1>1, <2>1
    <3>2. QED
      BY <1>2, <1>4, <1>5, <3>1
  <2>2. CASE i # k + 1
    <3>1. i \in 1..k /\ i - 1 \in 0..k /\ more[i] = blocks[i]
      BY <1>1, <2>2
    <3>2. QED
      BY <1>4, <1>5, <3>1
  <2>3. QED
    BY <2>1, <2>2
<1>7. ASSUME NEW i \in 1..(k + 1), NEW j \in 1..(k + 1), i <= j
      PROVE  Below(more[i].outer, more[j].outer)
  <2>1. CASE j = k + 1
    BY <1>1, <1>6, <2>1
  <2>2. CASE j # k + 1
    <3>1. i \in 1..k /\ j \in 1..k
      BY <1>1, <1>7, <2>2
    <3>2. QED
      BY <1>1, <1>4, <1>7, <3>1
  <2>3. QED
    BY <2>1, <2>2
<1>8. QED
  BY <1>1, <1>6, <1>7 DEF Contexts, more

LEMMA ContextsPop ==
  ASSUME NEW blocks, NEW names, NEW bound, Contexts(blocks, names, bound), blocks # <<>>
  PROVE  /\ Contexts(Front(blocks), Last(blocks).outer, bound)
         /\ IsBlock(Last(blocks), bound) /\ Below(Last(blocks).outer, names)
         /\ Last(blocks).reached <=> LiveAt(Front(blocks), Len(Front(blocks)))
<1> DEFINE less == Front(blocks)
           k == Len(blocks)
<1>1. /\ IsStack(less) /\ k \in Nat /\ k > 0 /\ Len(less) = k - 1
      /\ \A i \in 1..(k - 1) : less[i] = blocks[i]
      /\ Last(blocks) = blocks[k]
  BY PopParts DEF Contexts
<1>2. /\ \A i \in 1..k : /\ IsBlock(blocks[i], bound) /\ Below(blocks[i].outer, names)
                         /\ blocks[i].reached <=> LiveAt(blocks, i - 1)
      /\ \A i, j \in 1..k : i <= j => Below(blocks[i].outer, blocks[j].outer)
  BY DEF Contexts
<1> HIDE DEF less, k
<1>3. \A i \in 0..(k - 1) : LiveAt(less, i) <=> LiveAt(blocks, i)
  BY <1>1 DEF LiveAt
<1>4. k \in 1..k /\ k - 1 \in 0..(k - 1)
  BY <1>1
<1>5. ASSUME NEW i \in 1..(k - 1)
      PROVE  /\ IsBlock(less[i], bound) /\ Below(less[i].outer, Last(blocks).outer)
             /\ less[i].reached <=> LiveAt(less, i - 1)
  <2>1. i \in 1..k /\ i - 1 \in 0..(k - 1) /\ i <= k /\ less[i] = blocks[i]
    BY <1>1
  <2>2. QED
    BY <1>1, <1>2, <1>3, <1>4, <2>1
<1>6. ASSUME NEW i \in 1..(k - 1), NEW j \in 1..(k - 1), i <= j
      PROVE  Below(less[i].outer, less[j].outer)
  <2>1. i \in 1..k /\ j \in 1..k /\ less[i] = blocks[i] /\ less[j] = blocks[j]
    BY <1>1
  <2>2. QED
    BY <1>2, <1>6, <2>1
<1>7. Contexts(less, Last(blocks).outer, bound)
  BY <1>1, <1>5, <1>6 DEF Contexts
<1>8. /\ IsBlock(Last(blocks), bound) /\ Below(Last(blocks).outer, names)
      /\ Last(blocks).reached <=> LiveAt(less, Len(less))
  BY <1>1, <1>2, <1>3, <1>4
<1>9. QED
  BY <1>7, <1>8 DEF less

LEMMA MeaningsStay ==
  ASSUME NEW blocks, NEW names, NEW bound, Contexts(blocks, names, bound), NEW store,
         NEW count \in Nat, Meanings(blocks, store, count), NEW next, Extends(store, next, bound),
         NEW more \in Nat, count <= more
  PROVE  Meanings(blocks, next, more)
<1> SUFFICES ASSUME NEW i \in 1..Len(blocks), blocks[i].reached
             PROVE  /\ Means(blocks[i].entry, blocks[i].outer, next, more)
                    /\ blocks[i].taken /\ blocks[i].ends # <<>> =>
                         IsValue(blocks[i].value, more) /\ Fits(blocks[i].value.type, blocks[i].type)
  BY DEF Meanings, BlockMeans
<1>1. /\ Means(blocks[i].entry, blocks[i].outer, store, count)
      /\ blocks[i].taken /\ blocks[i].ends # <<>> =>
           IsValue(blocks[i].value, count) /\ Fits(blocks[i].value.type, blocks[i].type)
  BY DEF Meanings, BlockMeans
<1>2. Scope(blocks[i].entry, blocks[i].outer, bound)
  BY DEF Contexts, IsBlock
<1>3. QED
  BY <1>1, <1>2, MeansStays, ValueStays

LEMMA MeaningsPush ==
  ASSUME NEW blocks, IsStack(blocks), NEW b, NEW store, NEW count,
         Meanings(blocks, store, count), BlockMeans(b, store, count)
  PROVE  Meanings(Append(blocks, b), store, count)
<1> DEFINE more == Append(blocks, b)
           k == Len(blocks)
<1>1. /\ k \in Nat /\ Len(more) = k + 1
      /\ \A i \in 1..k : more[i] = blocks[i]
      /\ more[k + 1] = b
  BY PushParts
<1>2. \A i \in 1..k : BlockMeans(blocks[i], store, count)
  BY DEF Meanings
<1> HIDE DEF more, k
<1>3. ASSUME NEW i \in 1..(k + 1) PROVE BlockMeans(more[i], store, count)
  <2>1. CASE i = k + 1
    BY <1>1, <2>1
  <2>2. CASE i # k + 1
    BY <1>1, <1>2, <2>2
  <2>3. QED
    BY <2>1, <2>2
<1>4. QED
  BY <1>1, <1>3 DEF Meanings, more

LEMMA MeaningsPop ==
  ASSUME NEW blocks, IsStack(blocks), blocks # <<>>, NEW store, NEW count,
         Meanings(blocks, store, count)
  PROVE  Meanings(Front(blocks), store, count) /\ BlockMeans(Last(blocks), store, count)
<1> DEFINE less == Front(blocks)
           k == Len(blocks)
<1>1. /\ k \in Nat /\ k > 0 /\ Len(less) = k - 1
      /\ \A i \in 1..(k - 1) : less[i] = blocks[i]
      /\ Last(blocks) = blocks[k]
  BY PopParts
<1>2. \A i \in 1..k : BlockMeans(blocks[i], store, count)
  BY DEF Meanings
<1> HIDE DEF less, k
<1>3. Meanings(less, store, count) /\ BlockMeans(Last(blocks), store, count)
  BY <1>1, <1>2 DEF Meanings
<1>4. QED
  BY <1>3 DEF less
-----------------------------------------------------------------------------
(* The steps of a body                                                     *)

\* What keeps NamesMeanTheSame: every open block keeps the scope around it,
\* whose names mean the same again where the block ends.
BodyInv ==
  /\ next_binding \in Nat /\ Scope(environment, bindings, next_binding)
  /\ IsLedger(issued, spent)
  /\ Contexts(branches, bindings, next_binding)
  /\ live <=> LiveAt(branches, Len(branches))
  /\ status = "open" =>
       /\ live => Means(environment, bindings, locals, Len(issued))
       /\ Meanings(branches, locals, Len(issued))

LEMMA LedgerParts ==
  ASSUME NEW ledger, NEW consumed, IsLedger(ledger, consumed)
  PROVE  Len(ledger) \in Nat
BY LenProperties DEF IsLedger

LEMMA EvaluateParts ==
  ASSUME NoVariants, BodyInv, status = "open", NEW e \in Expressions, Accepts(environment, e),
         NEW o \in Outcomes(e), Evaluate(o)
  PROVE  /\ IsTyped(TypeOf(environment, e))
         /\ IsLedger(issued', spent') /\ Len(issued) \in Nat /\ Len(issued') \in Nat
         /\ Len(issued) <= Len(issued')
         /\ o.live => live
         /\ status' = "open" /\ live => o.live
         /\ o.live => IsValue(o.value, Len(issued')) /\ Fits(o.value.type, TypeOf(environment, e))
<1>1. IsTyped(TypeOf(environment, e))
  BY TypeOfIsTyped DEF BodyInv, Scope
<1>2. issued' = o.issued /\ spent' = o.spent
  BY DEF Evaluate
<1>3. status' = "open" /\ live => o.live
  BY DEF Evaluate
<1>4. IsLedger(issued, spent) /\ Len(issued) \in Nat
  BY LedgerParts DEF BodyInv
<1>5. CASE o = Stops
  <2>1. o.issued = issued /\ o.spent = spent /\ ~o.live
    BY <1>5, StopsParts
  <2>2. QED
    BY <1>1, <1>2, <1>3, <1>4, <2>1
<1>6. CASE o # Stops
  <2>1. live
    BY <1>6, SkippedStops
  <2>2. AtHome
    BY <2>1 DEF AtHome, BodyInv, Scope
  <2>3. o.live /\ Produces(e, o)
    BY <1>6, <2>1, <2>2, OutcomeProduces
  <2>4. /\ IsLedger(o.issued, o.spent) /\ Len(issued) <= Len(o.issued)
        /\ IsValue(o.value, Len(o.issued)) /\ Fits(o.value.type, TypeOf(environment, e))
    BY <2>3 DEF Produces
  <2>5. Len(o.issued) \in Nat
    BY <2>4, LedgerParts
  <2>6. QED
    BY <1>1, <1>2, <1>3, <1>4, <2>1, <2>4, <2>5
<1>7. QED
  BY <1>5, <1>6

LEMMA StatementKeeps ==
  ASSUME NoVariants, BodyInv, NEW n \in Names \cup {NoName}, NEW e \in Expressions, Statement(n, e)
  PROVE  BodyInv'
<1> DEFINE env == Checked(environment, e)
           type == TypeOf(environment, e)
<1>1. /\ status = "open" /\ Accepts(environment, e) /\ branches' = branches /\ live' = live
  BY DEF Statement
<1>2. PICK o \in Outcomes(e) : Evaluate(o) /\ Bind(n, type, o.value, env, bindings, o.live)
  BY DEF Statement
<1>3. /\ IsTyped(type)
      /\ IsLedger(issued', spent') /\ Len(issued) \in Nat /\ Len(issued') \in Nat
      /\ Len(issued) <= Len(issued')
      /\ o.live => live
      /\ status' = "open" /\ live => o.live
      /\ o.live => IsValue(o.value, Len(issued')) /\ Fits(o.value.type, type)
  BY <1>1, <1>2, EvaluateParts
<1>4. /\ DOMAIN env = DOMAIN environment
      /\ \A y \in DOMAIN environment : env[y].type = environment[y].type
  BY CheckedTypes
<1>5. /\ next_binding \in Nat /\ Scope(environment, bindings, next_binding)
      /\ Contexts(branches, bindings, next_binding)
      /\ live <=> LiveAt(branches, Len(branches))
      /\ live => Means(environment, bindings, locals, Len(issued))
      /\ Meanings(branches, locals, Len(issued))
  BY <1>1 DEF BodyInv
<1> HIDE DEF env, type
<1>6. Scope(env, bindings, next_binding)
  BY <1>4, <1>5, SameTypes
<1>7. /\ next_binding' \in Nat /\ next_binding <= next_binding'
      /\ Scope(environment', bindings', next_binding')
      /\ Below(bindings, bindings')
      /\ Extends(locals, locals', next_binding)
  BY <1>2, <1>3, <1>5, <1>6, BindParts
<1>8. Contexts(branches, bindings', next_binding')
  BY <1>5, <1>7, ContextsRebind
<1>9. Meanings(branches, locals', Len(issued'))
  BY <1>3, <1>5, <1>7, MeaningsStay
<1>10. ASSUME status' = "open", live PROVE Means(environment', bindings', locals', Len(issued'))
  <2>1. o.live
    BY <1>3, <1>10
  <2>2. Means(env, bindings, locals, Len(issued))
    BY <1>4, <1>5, <1>10, SameTypes
  <2>3. Extends(locals, locals, next_binding)
    BY DEF Extends
  <2>4. Means(env, bindings, locals, Len(issued'))
    BY <1>3, <1>6, <2>2, <2>3, MeansStays
  <2>5. QED
    BY <1>2, <1>3, <1>5, <1>6, <2>1, <2>4, BindMeans
<1>11. QED
  BY <1>1, <1>3, <1>5, <1>7, <1>8, <1>9, <1>10 DEF BodyInv

LEMMA OpenParts ==
  ASSUME BodyInv, NEW kind, NEW n \in Names \cup {NoName}, NEW taken, Open(kind, n, taken),
         taken => live
  PROVE  /\ status = "open" /\ status' = "open" /\ issued' = issued /\ spent' = spent
         /\ Contexts(branches', bindings, next_binding)
         /\ live' <=> LiveAt(branches', Len(branches'))
         /\ live' <=> taken
         /\ Meanings(branches', locals, Len(issued))
<1> DEFINE b == [kind |-> kind, into |-> n, entry |-> environment, outer |-> bindings,
                 reached |-> live, taken |-> taken, ends |-> <<>>, type |-> Data, value |-> Plain]
<1>1. /\ status = "open" /\ branches' = Append(branches, b) /\ live' = taken
      /\ status' = status /\ issued' = issued /\ spent' = spent
  BY DEF Open
<1>2. /\ b.into = n /\ b.entry = environment /\ b.outer = bindings /\ b.reached = live
      /\ b.taken = taken /\ b.ends = <<>>
  OBVIOUS
<1>3. /\ next_binding \in Nat /\ Scope(environment, bindings, next_binding)
      /\ Contexts(branches, bindings, next_binding)
      /\ live <=> LiveAt(branches, Len(branches))
      /\ live => Means(environment, bindings, locals, Len(issued))
      /\ Meanings(branches, locals, Len(issued))
  BY <1>1 DEF BodyInv
<1> HIDE DEF b
<1>4. IsBlock(b, next_binding)
  BY <1>2, <1>3 DEF IsBlock
<1>5. b.reached <=> LiveAt(branches, Len(branches))
  BY <1>2, <1>3
<1>6. Contexts(branches', bindings, next_binding)
  BY <1>1, <1>2, <1>3, <1>4, <1>5, ContextsPush
<1>7. IsStack(branches)
  BY <1>3 DEF Contexts
<1>8. LiveAt(branches', Len(branches')) <=> taken
  <2>1. Len(branches) \in Nat /\ Len(branches') = Len(branches) + 1 /\ branches'[Len(branches) + 1] = b
    BY <1>1, <1>7, PushParts
  <2>2. Len(branches') # 0 /\ branches'[Len(branches')] = b
    BY <2>1
  <2>3. QED
    BY <1>2, <2>2 DEF LiveAt, LiveIn
<1>9. BlockMeans(b, locals, Len(issued))
  BY <1>2, <1>3 DEF BlockMeans
<1>10. Meanings(branches', locals, Len(issued))
  BY <1>1, <1>3, <1>7, <1>9, MeaningsPush
<1>11. QED
  BY <1>1, <1>6, <1>8, <1>10

LEMMA OpenIfKeeps ==
  ASSUME BodyInv, NEW n \in Names \cup {NoName}, OpenIf(n)
  PROVE  BodyInv'
<1>1. PICK taken \in {live, FALSE} : Open("if", n, taken)
  BY DEF OpenIf
<1>2. /\ environment' = environment /\ bindings' = bindings /\ next_binding' = next_binding
      /\ locals' = locals
  BY DEF OpenIf, lowered
<1>3. taken => live
  OBVIOUS
<1>4. /\ status = "open" /\ status' = "open" /\ issued' = issued /\ spent' = spent
      /\ Contexts(branches', bindings, next_binding)
      /\ live' <=> LiveAt(branches', Len(branches'))
      /\ live' <=> taken
      /\ Meanings(branches', locals, Len(issued))
  BY <1>1, <1>3, OpenParts
<1>5. QED
  BY <1>2, <1>3, <1>4 DEF BodyInv

\* The payload of a matched value, whose wrapper the checker knows.
LEMMA PayloadParts ==
  ASSUME NEW type, IsTyped(type), Head(type) \in {"option", "result", "enum"},
         NEW v, NEW count, IsValue(v, count), Fits(v.type, type), Len(v.type) > 1
  PROVE  /\ IsValue([type |-> Tail(v.type), id |-> v.id], count)
         /\ Fits(Tail(v.type), Tail(type))
<1>1. IsShape(v.type) /\ IsShape(type) /\ Len(v.type) \in Nat /\ Len(type) >= 1
  BY TypedIsShape, TextParts DEF IsValue, IsShape
<1> DEFINE k == Len(v.type)
<1>2. k \in Nat /\ k > 1
  BY <1>1
<1> HIDE DEF k
<1>3. k >= 2
  BY <1>2
<1>4. IsShape(Tail(v.type)) /\ Ending(Tail(v.type)) = Ending(v.type)
  BY <1>1, <1>3, TailShape DEF k
<1>5. IsValue([type |-> Tail(v.type), id |-> v.id], count)
  BY <1>4, Carries
<1>6. Fits(Tail(v.type), Tail(type))
  <2>1. v.type \in Text /\ type \in Text /\ Len(v.type) >= 2
    BY <1>1, <1>3 DEF IsShape, k
  <2>2. QED
    BY <1>1, <2>1, TailFits
<1>7. QED
  BY <1>5, <1>6

LEMMA OpenMatchKeeps ==
  ASSUME NoVariants, BodyInv, NEW n \in Names \cup {NoName}, NEW m \in Names, NEW x \in Names,
         OpenMatch(n, m, x)
  PROVE  BodyInv'
<1> DEFINE type  == PathType(environment, m)
           value == IF live THEN Local(bindings, locals, m) ELSE Plain
           taken == Len(value.type) > 1
           v     == [type |-> Tail(value.type), id |-> value.id]
<1>1. /\ Resolves(environment, m) /\ Head(type) \in {"option", "result", "enum"}
      /\ Open("match", n, taken)
      /\ Bind(x, Tail(type), v, environment, bindings, taken)
  BY DEF OpenMatch
<1>2. status = "open"
  BY <1>1 DEF Open
<1>3. /\ next_binding \in Nat /\ Scope(environment, bindings, next_binding)
      /\ IsLedger(issued, spent) /\ Len(issued) \in Nat
      /\ live => Means(environment, bindings, locals, Len(issued))
  BY <1>2, LedgerParts DEF BodyInv
<1>4. m \in DOMAIN environment /\ type = environment[m].type
  BY <1>1, NameIsVariable
<1>5. IsTyped(type) /\ IsTyped(Tail(type))
  <2>1. IsTyped(type)
    BY <1>3, <1>4 DEF Scope, IsEnv
  <2>2. Head(type) \in Wrappers
    BY <1>1 DEF Wrappers
  <2> HIDE DEF type
  <2>3. QED
    BY <2>1, <2>2, HeadIsNotLast, TailShape, TypedByEnding, TypedIsShape
<1>6. taken => live
  <2>1. CASE live
    BY <2>1
  <2>2. CASE ~live
    <3>1. value.type = <<"data">>
      BY <2>2 DEF Plain, Data
    <3> DEFINE k == Len(value.type)
    <3>2. k = 1
      BY <3>1
    <3> HIDE DEF k
    <3>3. ~(k > 1)
      BY <3>2
    <3>4. QED
      BY <3>3 DEF k
  <2>3. QED
    BY <2>1, <2>2
<1>7. ASSUME taken
      PROVE  IsValue(v, Len(issued)) /\ Fits(v.type, Tail(type))
  <2>1. value = locals[bindings[m]] /\ live
    <3>1. m \in DOMAIN bindings /\ live
      BY <1>3, <1>4, <1>6, <1>7 DEF Scope
    <3>2. QED
      BY <3>1, LocalIsRead
  <2>2. IsValue(value, Len(issued)) /\ Fits(value.type, type)
    BY <1>3, <1>4, <2>1 DEF Means
  <2>3. v.type = Tail(value.type)
    OBVIOUS
  <2> HIDE DEF value, type
  <2>4. QED
    BY <1>1, <1>5, <1>7, <2>2, <2>3, PayloadParts
<1> HIDE DEF type, value, taken, v
<1>8. /\ status' = "open" /\ issued' = issued /\ spent' = spent
      /\ Contexts(branches', bindings, next_binding)
      /\ live' <=> LiveAt(branches', Len(branches'))
      /\ live' <=> taken
      /\ Meanings(branches', locals, Len(issued))
  BY <1>1, <1>6, OpenParts
<1>9. /\ next_binding' \in Nat /\ next_binding <= next_binding'
      /\ Scope(environment', bindings', next_binding')
      /\ Below(bindings, bindings')
      /\ Extends(locals, locals', next_binding)
  BY <1>1, <1>3, <1>5, BindParts
<1>10. Contexts(branches', bindings', next_binding')
  BY <1>3, <1>8, <1>9, ContextsRebind
<1>11. Meanings(branches', locals', Len(issued))
  BY <1>3, <1>8, <1>9, MeaningsStay
<1>12. ASSUME taken PROVE Means(environment', bindings', locals', Len(issued))
  BY <1>1, <1>3, <1>6, <1>7, <1>12, BindMeans
<1>13. QED
  BY <1>3, <1>8, <1>9, <1>10, <1>11, <1>12 DEF BodyInv

LEMMA ReturnKeeps ==
  ASSUME BodyInv, NEW e \in Expressions, Return(e)
  PROVE  BodyInv'
<1> DEFINE env == Checked(environment, e)
<1>1. /\ environment' = env /\ bindings' = bindings /\ next_binding' = next_binding
      /\ branches' = branches /\ locals' = locals /\ issued' = issued /\ spent' = spent
      /\ live' = live /\ status = "open"
  BY DEF Return, lowered, run
<1>2. /\ DOMAIN env = DOMAIN environment
      /\ \A y \in DOMAIN environment : env[y].type = environment[y].type
  BY CheckedTypes
<1>3. Scope(env, bindings, next_binding)
  <2> HIDE DEF env
  <2>1. QED
    BY <1>2, SameTypes DEF BodyInv
<1>4. live => Means(env, bindings, locals, Len(issued))
  <2> HIDE DEF env
  <2>1. QED
    BY <1>1, <1>2, SameTypes DEF BodyInv
<1> HIDE DEF env
<1>5. QED
  BY <1>1, <1>3, <1>4 DEF BodyInv

LEMMA NextBranchKeeps ==
  ASSUME NoVariants, BodyInv, NEW e \in BlockValues, NextBranch(e)
  PROVE  BodyInv'
<1> DEFINE block == Last(branches)
           env   == Checked(environment, e)
           type  == TypeOf(environment, e)
           less  == Front(branches)
           n     == next_binding
<1>1. /\ status = "open" /\ branches # <<>> /\ block.ends = <<>> /\ Accepts(environment, e)
      /\ environment' = block.entry /\ bindings' = block.outer
      /\ live' = (block.reached /\ ~block.taken)
      /\ next_binding' = next_binding /\ locals' = locals
      /\ e \in Expressions
  BY DEF NextBranch, Restored, Innermost, BlockValues
<1>2. PICK o \in Outcomes(e) :
        /\ Evaluate(o)
        /\ branches' = Append(less, [block EXCEPT !.ends = <<env>>, !.type = type, !.value = o.value])
  BY DEF NextBranch, Innermost
<1>3. /\ IsTyped(type)
      /\ IsLedger(issued', spent') /\ Len(issued) \in Nat /\ Len(issued') \in Nat
      /\ Len(issued) <= Len(issued')
      /\ status' = "open" /\ live => o.live
      /\ o.live => IsValue(o.value, Len(issued')) /\ Fits(o.value.type, type)
  BY <1>1, <1>2, EvaluateParts
<1>4. /\ n \in Nat /\ Contexts(branches, bindings, n)
      /\ live <=> LiveAt(branches, Len(branches))
      /\ Meanings(branches, locals, Len(issued))
  BY <1>1 DEF BodyInv
<1> DEFINE b == [block EXCEPT !.ends = <<env>>, !.type = type, !.value = o.value]
<1>5. /\ b.entry = block.entry /\ b.outer = block.outer /\ b.into = block.into
      /\ b.reached = block.reached /\ b.taken = block.taken
      /\ b.ends = <<env>> /\ b.type = type /\ b.value = o.value
  OBVIOUS
<1>6. <<env>> # <<>>
  OBVIOUS
<1> HIDE DEF env, type, b, less, n
<1>7. /\ Contexts(less, block.outer, n)
      /\ IsBlock(block, n)
      /\ block.reached <=> LiveAt(less, Len(less))
  BY <1>1, <1>4, ContextsPop DEF less
<1>8. live <=> block.taken
  <2>1. LiveAt(branches, Len(branches)) <=> LiveIn(block)
    BY <1>1, <1>4, PopParts DEF LiveAt, Contexts
  <2>2. QED
    BY <1>1, <1>4, <2>1 DEF LiveIn
<1> HIDE DEF block
<1>9. IsBlock(b, n)
  BY <1>3, <1>5, <1>7 DEF IsBlock
<1>10. b.reached <=> LiveAt(less, Len(less))
  BY <1>5, <1>7
<1>11. branches' = Append(less, b)
  BY <1>2 DEF b, block
<1>12. Contexts(branches', block.outer, n)
  <2>1. Scope(block.entry, block.outer, n)
    BY <1>7 DEF IsBlock
  <2>2. QED
    BY <1>5, <1>7, <1>9, <1>10, <1>11, <2>1, ContextsPush
<1>13. IsStack(less) /\ IsStack(branches)
  BY <1>4, <1>7 DEF Contexts
<1>14. LiveAt(branches', Len(branches')) <=> live'
  <2>1. Len(less) \in Nat /\ Len(branches') = Len(less) + 1 /\ branches'[Len(less) + 1] = b
    BY <1>11, <1>13, PushParts
  <2>2. Len(branches') # 0 /\ branches'[Len(branches')] = b
    BY <2>1
  <2>3. LiveIn(b) <=> block.reached /\ ~block.taken
    BY <1>5, <1>6 DEF LiveIn
  <2>4. QED
    BY <1>1, <2>2, <2>3 DEF LiveAt
<1>15. ASSUME status' = "open"
       PROVE  /\ live' => Means(block.entry, block.outer, locals, Len(issued'))
              /\ Meanings(branches', locals, Len(issued'))
  <2>1. Extends(locals, locals, n)
    BY DEF Extends
  <2>2. Meanings(branches, locals, Len(issued'))
    BY <1>3, <1>4, <2>1, MeaningsStay
  <2>3. Meanings(less, locals, Len(issued')) /\ BlockMeans(block, locals, Len(issued'))
    BY <1>1, <1>13, <2>2, MeaningsPop DEF less, block
  <2>4. BlockMeans(b, locals, Len(issued'))
    BY <1>3, <1>5, <1>8, <1>15, <2>3 DEF BlockMeans
  <2>5. Meanings(branches', locals, Len(issued'))
    BY <1>11, <1>13, <2>3, <2>4, MeaningsPush
  <2>6. QED
    BY <1>1, <2>3, <2>5 DEF BlockMeans
<1>16. Scope(block.entry, block.outer, n)
  BY <1>7 DEF IsBlock
<1>17. QED
  BY <1>1, <1>3, <1>4, <1>12, <1>14, <1>15, <1>16 DEF BodyInv, n

LEMMA CloseBranchesKeeps ==
  ASSUME NoVariants, BodyInv, NEW e \in BlockValues, CloseBranches(e)
  PROVE  BodyInv'
<1> DEFINE block == Last(branches)
           env   == JoinMoved(block.entry, Append(block.ends, Checked(environment, e)))
           less  == Front(branches)
           type  == block.type
           n     == next_binding
<1>1. /\ status = "open" /\ branches # <<>> /\ block.ends # <<>> /\ Accepts(environment, e)
      /\ TypeOf(environment, e) = type
      /\ branches' = less /\ live' = block.reached /\ e \in Expressions
  BY DEF CloseBranches, Innermost, BlockValues
<1>2. PICK o \in Outcomes(e) :
        /\ Evaluate(o)
        /\ Bind(block.into, type, IF o.live THEN o.value ELSE block.value, env, block.outer,
                block.reached)
  BY DEF CloseBranches, Innermost, Restored
<1> DEFINE v == IF o.live THEN o.value ELSE block.value
<1>3. /\ IsLedger(issued', spent') /\ Len(issued) \in Nat /\ Len(issued') \in Nat
      /\ Len(issued) <= Len(issued')
      /\ o.live => live
      /\ status' = "open" /\ live => o.live
      /\ o.live => IsValue(o.value, Len(issued')) /\ Fits(o.value.type, type)
  BY <1>1, <1>2, EvaluateParts
<1>4. /\ n \in Nat /\ Contexts(branches, bindings, n)
      /\ live <=> LiveAt(branches, Len(branches))
      /\ Meanings(branches, locals, Len(issued))
  BY <1>1 DEF BodyInv
<1>5. /\ DOMAIN env = DOMAIN block.entry
      /\ \A y \in DOMAIN block.entry : env[y].type = block.entry[y].type
  <2> DEFINE ends == Append(block.ends, Checked(environment, e))
  <2> HIDE DEF ends
  <2>1. QED
    BY JoinedTypes
<1> HIDE DEF env, less, n, v
<1>6. /\ Contexts(less, block.outer, n)
      /\ IsBlock(block, n)
      /\ block.reached <=> LiveAt(less, Len(less))
  BY <1>1, <1>4, ContextsPop DEF less
<1>7. live <=> block.reached /\ ~block.taken
  <2>1. LiveAt(branches, Len(branches)) <=> LiveIn(block)
    BY <1>1, <1>4, PopParts DEF LiveAt, Contexts
  <2>2. QED
    BY <1>1, <1>4, <2>1 DEF LiveIn
<1>8. IsStack(less) /\ IsStack(branches)
  BY <1>4, <1>6 DEF Contexts
<1>9. /\ Scope(block.entry, block.outer, n) /\ block.into \in Names \cup {NoName} /\ IsTyped(type)
  BY <1>1, <1>6 DEF IsBlock
<1>10. ASSUME status' = "open"
       PROVE  /\ Meanings(less, locals, Len(issued'))
              /\ block.reached =>
                   /\ Means(env, block.outer, locals, Len(issued'))
                   /\ IsValue(v, Len(issued')) /\ Fits(v.type, type)
  <2>1. Extends(locals, locals, n)
    BY DEF Extends
  <2>2. Meanings(branches, locals, Len(issued'))
    BY <1>3, <1>4, <2>1, MeaningsStay
  <2>3. Meanings(less, locals, Len(issued')) /\ BlockMeans(block, locals, Len(issued'))
    BY <1>1, <1>8, <2>2, MeaningsPop DEF less
  <2> HIDE DEF block
  <2>4. ASSUME block.reached
        PROVE  IsValue(v, Len(issued')) /\ Fits(v.type, block.type)
    <3>1. CASE o.live
      BY <1>3, <3>1 DEF v
    <3>2. CASE ~o.live
      BY <1>1, <1>3, <1>7, <1>10, <2>3, <2>4, <3>2 DEF v, BlockMeans
    <3>3. QED
      BY <3>1, <3>2
  <2>5. ASSUME block.reached PROVE Means(env, block.outer, locals, Len(issued'))
    <3>1. Means(block.entry, block.outer, locals, Len(issued'))
      BY <2>3, <2>5 DEF BlockMeans
    <3>2. QED
      BY <1>5, <3>1, SameTypes
  <2>6. QED
    BY <2>3, <2>4, <2>5
<1>11. Bind(block.into, type, v, env, block.outer, block.reached)
  BY <1>2 DEF v
<1> HIDE DEF block, type
<1>12. Scope(env, block.outer, n)
  BY <1>5, <1>9, SameTypes
<1>13. /\ next_binding' \in Nat /\ n <= next_binding'
       /\ Scope(environment', bindings', next_binding')
       /\ Below(block.outer, bindings')
       /\ Extends(locals, locals', n)
  BY <1>4, <1>9, <1>11, <1>12, BindParts DEF n
<1>14. Contexts(less, bindings', next_binding')
  BY <1>4, <1>6, <1>9, <1>13, ContextsRebind
<1>15. ASSUME status' = "open" PROVE Meanings(less, locals', Len(issued'))
  BY <1>3, <1>6, <1>10, <1>13, <1>15, MeaningsStay
<1>16. ASSUME status' = "open", block.reached
       PROVE  Means(environment', bindings', locals', Len(issued'))
  BY <1>4, <1>9, <1>10, <1>11, <1>12, <1>16, BindMeans DEF n
<1>17. QED
  BY <1>1, <1>3, <1>6, <1>13, <1>14, <1>15, <1>16 DEF BodyInv
-----------------------------------------------------------------------------
LEMMA InitialBody ==
  ASSUME BodyInit
  PROVE  BodyInv
<1>1. PICK body \in Bodies :
        /\ environment = [n \in DOMAIN body.arguments |->
                           [type |-> body.arguments[n].type, moved |-> FALSE]]
        /\ bindings = [n \in DOMAIN body.arguments |-> <<n, 0>>]
        /\ locals = [r \in {<<n, 0>> : n \in DOMAIN body.arguments} |-> body.arguments[r[1]]]
        /\ issued = body.issued
  BY DEF BodyInit
<1> DEFINE args == body.arguments
<1>2. /\ DOMAIN args \subseteq Names /\ issued \in Seq(Nat)
      /\ \A n \in DOMAIN args :
           /\ IsType(args[n].type)
           /\ IF Affine(args[n].type) THEN args[n].id \in 1..Len(issued) ELSE args[n].id = 0
  BY <1>1, BodiesAssumption DEF IsBody
<1>3. /\ next_binding = 1 /\ branches = <<>> /\ spent = {} /\ live = TRUE
  BY DEF BodyInit
<1>4. /\ DOMAIN environment = DOMAIN args /\ DOMAIN bindings = DOMAIN args
      /\ \A n \in DOMAIN args :
           /\ environment[n].type = args[n].type
           /\ bindings[n] = <<n, 0>>
           /\ <<n, 0>> \in DOMAIN locals /\ locals[<<n, 0>>] = args[n]
  BY <1>1
<1> HIDE DEF args
<1>5. \A n \in DOMAIN args : IsTyped(args[n].type)
  BY <1>2, TypeIsTyped
<1>6. Scope(environment, bindings, next_binding)
  <2>1. \A n \in DOMAIN bindings :
          bindings[n] = <<n, bindings[n][2]>> /\ bindings[n][2] = 0
    <3>1. \A n : <<n, 0>>[2] = 0
      OBVIOUS
    <3> TAKE n \in DOMAIN bindings
    <3>2. bindings[n] = <<n, 0>>
      BY <1>4
    <3>3. bindings[n][2] = 0
      BY <3>1, <3>2
    <3>4. QED
      BY <3>2, <3>3
  <2>2. IsEnv(environment)
    BY <1>2, <1>4, <1>5 DEF IsEnv
  <2>3. QED
    BY <1>3, <1>4, <2>1, <2>2 DEF Scope
<1>7. IsLedger(issued, spent)
  BY <1>2, <1>3 DEF IsLedger
<1>8. Means(environment, bindings, locals, Len(issued))
  <2> SUFFICES ASSUME NEW n \in DOMAIN args
               PROVE  IsValue(args[n], Len(issued)) /\ Fits(args[n].type, args[n].type)
    BY <1>4 DEF Means
  <2>1. IsTyped(args[n].type)
    BY <1>5
  <2>2. IF Ending(args[n].type) \in Affines THEN args[n].id \in 1..Len(issued) ELSE args[n].id = 0
    BY <1>2, AffineEnding
  <2>3. QED
    BY <2>1, <2>2, TypedIsShape, WholeFits DEF IsValue
<1>9. Len(branches) = 0 /\ IsStack(branches)
  BY <1>3 DEF IsStack
<1>10. Contexts(branches, bindings, next_binding) /\ Meanings(branches, locals, Len(issued))
  BY <1>9 DEF Contexts, Meanings
<1>11. QED
  BY <1>3, <1>6, <1>7, <1>8, <1>9, <1>10 DEF BodyInv, LiveAt

LEMMA BodyInvKept ==
  ASSUME NoVariants, BodyInv, [BodyNext]_bodyVars
  PROVE  BodyInv'
<1>1. CASE BodyNext
  <2>1. ASSUME NEW n \in Names \cup {NoName}, NEW e \in Expressions, Statement(n, e)
        PROVE  BodyInv'
    BY <2>1, StatementKeeps
  <2>2. ASSUME NEW n \in Names \cup {NoName}, OpenIf(n)
        PROVE  BodyInv'
    BY <2>2, OpenIfKeeps
  <2>3. ASSUME NEW n \in Names \cup {NoName}, NEW m \in Names, NEW x \in Names, OpenMatch(n, m, x)
        PROVE  BodyInv'
    BY <2>3, OpenMatchKeeps
  <2>4. ASSUME NEW e \in Expressions, Return(e)
        PROVE  BodyInv'
    BY <2>4, ReturnKeeps
  <2>5. ASSUME NEW e \in BlockValues, NextBranch(e)
        PROVE  BodyInv'
    BY <2>5, NextBranchKeeps
  <2>6. ASSUME NEW e \in BlockValues, CloseBranches(e)
        PROVE  BodyInv'
    BY <2>6, CloseBranchesKeeps
  <2>7. QED
    BY <1>1, <2>1, <2>2, <2>3, <2>4, <2>5, <2>6 DEF BodyNext
<1>2. CASE UNCHANGED bodyVars
  BY <1>2 DEF BodyInv, bodyVars, checker, lowered, run
<1>3. QED
  BY <1>1, <1>2

LEMMA SameNames ==
  ASSUME NoVariants, BodyInv
  PROVE  NamesMeanTheSame
<1>1. DOMAIN bindings = DOMAIN environment /\ IsEnv(environment)
  BY DEF BodyInv, Scope
<1>2. ASSUME Running, NEW n \in DOMAIN environment
      PROVE  /\ bindings[n] \in DOMAIN locals
             /\ Fits(Local(bindings, locals, n).type, PathType(environment, n))
  <2>1. n \in Names /\ n \in DOMAIN bindings
    BY <1>1 DEF IsEnv
  <2>2. /\ bindings[n] \in DOMAIN locals
        /\ Fits(locals[bindings[n]].type, environment[n].type)
    BY <1>2 DEF BodyInv, Means, Running
  <2>3. QED
    BY <2>1, <2>2, LocalIsRead, NameIsVariable
<1>3. QED
  BY <1>1, <1>2 DEF NamesMeanTheSame

\* Whatever a body shadows, restores or skips, a variable in scope is one the
\* lowering has a name for, and the run reads a local of the type the checker
\* gave it: for all bodies, forms of expression, names and bounds.
THEOREM CheckedNamesMeanTheSame == NoVariants => (BodySpec => []NamesMeanTheSame)
<1> SUFFICES ASSUME NoVariants PROVE BodySpec => []NamesMeanTheSame
  OBVIOUS
<1>1. BodyInit => BodyInv
  BY InitialBody
<1>2. BodyInv /\ [BodyNext]_bodyVars => BodyInv'
  BY BodyInvKept
<1>3. BodyInv => NamesMeanTheSame
  BY SameNames
<1>4. QED
  BY <1>1, <1>2, <1>3, PTL DEF BodySpec
-----------------------------------------------------------------------------
(* Owners                                                                  *)

Free(env) == {n \in DOMAIN env : ~env[n].moved}

\* What the branches read so far leave of the names around a block.
Resting(b) == JoinMoved(b.entry, b.ends)

\* The names in scope inside the i-th of d blocks.
Inner(blocks, d, names, i) == IF i = d THEN names ELSE blocks[i + 1].outer

\* The locals that a block hides behind a new binding and gives back usable.
HiddenIn(b, inner) == {b.outer[n] : n \in {m \in Free(Resting(b)) : inner[m] # b.outer[m]}}

\* The locals whose proposal or permit the body may still use, inside d blocks.
Owned(blocks, d, env, names) ==
  {names[n] : n \in Free(env)} \cup
  UNION {HiddenIn(blocks[i], Inner(blocks, d, names, i)) : i \in 1..d}

LEMMA OwnedParts ==
  ASSUME NEW blocks, NEW d, NEW env, NEW names, NEW r
  PROVE  r \in Owned(blocks, d, env, names) <=>
           \/ \E n \in Free(env) : r = names[n]
           \/ \E i \in 1..d : \E n \in Free(Resting(blocks[i])) :
                Inner(blocks, d, names, i)[n] # blocks[i].outer[n] /\ r = blocks[i].outer[n]
BY DEF Owned, HiddenIn

\* Only the blocks around a point matter there.
LEMMA OwnedPrefix ==
  ASSUME NEW blocks, NEW other, NEW d \in Nat, \A i \in 1..d : other[i] = blocks[i],
         NEW env, NEW fewer, Free(fewer) \subseteq Free(env), NEW names
  PROVE  Owned(other, d, fewer, names) \subseteq Owned(blocks, d, env, names)
<1> SUFFICES ASSUME NEW r \in Owned(other, d, fewer, names)
             PROVE  r \in Owned(blocks, d, env, names)
  OBVIOUS
<1>1. CASE \E n \in Free(fewer) : r = names[n]
  BY <1>1, OwnedParts
<1>2. ASSUME NEW i \in 1..d, NEW n \in Free(Resting(other[i])),
             Inner(other, d, names, i)[n] # other[i].outer[n], r = other[i].outer[n]
      PROVE  r \in Owned(blocks, d, env, names)
  <2>1. Inner(other, d, names, i) = Inner(blocks, d, names, i)
    BY DEF Inner
  <2>2. other[i] = blocks[i]
    OBVIOUS
  <2>3. QED
    BY <1>2, <2>1, <2>2, OwnedParts
<1>3. QED
  BY <1>1, <1>2, OwnedParts

\* A block that is entered hides nothing yet.
LEMMA OwnedAtOpen ==
  ASSUME NEW blocks, IsStack(blocks), NEW b, NEW names, b.outer = names,
         NEW env, NEW fewer, Free(fewer) \subseteq Free(env)
  PROVE  Owned(Append(blocks, b), Len(blocks) + 1, fewer, names)
           \subseteq Owned(blocks, Len(blocks), env, names)
<1> DEFINE more == Append(blocks, b)
           d == Len(blocks)
<1>1. d \in Nat /\ (\A i \in 1..d : more[i] = blocks[i]) /\ more[d + 1] = b
  BY PushParts
<1> HIDE DEF more, d
<1> SUFFICES ASSUME NEW r \in Owned(more, d + 1, fewer, names)
             PROVE  r \in Owned(blocks, d, env, names)
  BY DEF more, d
<1>2. CASE \E n \in Free(fewer) : r = names[n]
  BY <1>2, OwnedParts
<1>3. ASSUME NEW i \in 1..(d + 1), NEW n \in Free(Resting(more[i])),
             Inner(more, d + 1, names, i)[n] # more[i].outer[n], r = more[i].outer[n]
      PROVE  r \in Owned(blocks, d, env, names)
  <2>1. i # d + 1
    BY <1>1, <1>3 DEF Inner
  <2>2. i \in 1..d /\ more[i] = blocks[i]
    BY <1>1, <2>1
  <2>3. Inner(more, d + 1, names, i) = Inner(blocks, d, names, i)
    <3>1. CASE i = d
      BY <1>1, <2>1, <3>1 DEF Inner
    <3>2. CASE i # d
      <4>1. i + 1 \in 1..d /\ more[i + 1] = blocks[i + 1]
        BY <1>1, <2>2, <3>2
      <4>2. QED
        BY <2>1, <3>2, <4>1 DEF Inner
    <3>3. QED
      BY <3>1, <3>2
  <2>4. QED
    BY <1>3, <2>2, <2>3, OwnedParts
<1>4. QED
  BY <1>2, <1>3, OwnedParts

\* What is usable after a block was usable at its end, or hidden there.
LEMMA OwnedAtClose ==
  ASSUME NEW blocks, IsStack(blocks), blocks # <<>>, NEW env, NEW names, NEW after,
         \A n \in Free(after) : n \in Free(Resting(Last(blocks))) /\ n \in Free(env)
  PROVE  Owned(Front(blocks), Len(Front(blocks)), after, Last(blocks).outer)
           \subseteq Owned(blocks, Len(blocks), env, names)
<1> DEFINE less == Front(blocks)
           d == Len(blocks)
           b == Last(blocks)
<1>1. /\ d \in Nat /\ d > 0 /\ Len(less) = d - 1 /\ b = blocks[d]
      /\ \A i \in 1..(d - 1) : less[i] = blocks[i]
  BY PopParts
<1> HIDE DEF less, d, b
<1> SUFFICES ASSUME NEW r \in Owned(less, d - 1, after, b.outer)
             PROVE  r \in Owned(blocks, d, env, names)
  BY <1>1 DEF less, d, b
<1>2. ASSUME NEW n \in Free(after), r = b.outer[n]
      PROVE  r \in Owned(blocks, d, env, names)
  <2>1. n \in Free(Resting(blocks[d])) /\ n \in Free(env) /\ d \in 1..d
    BY <1>1 DEF b
  <2>2. CASE names[n] = b.outer[n]
    BY <1>2, <2>1, <2>2, OwnedParts
  <2>3. CASE names[n] # b.outer[n]
    <3>1. Inner(blocks, d, names, d) = names
      BY DEF Inner
    <3>2. QED
      BY <1>1, <1>2, <2>1, <2>3, <3>1, OwnedParts
  <2>4. QED
    BY <2>2, <2>3
<1>3. ASSUME NEW i \in 1..(d - 1), NEW n \in Free(Resting(less[i])),
             Inner(less, d - 1, b.outer, i)[n] # less[i].outer[n], r = less[i].outer[n]
      PROVE  r \in Owned(blocks, d, env, names)
  <2>1. i \in 1..d /\ i # d /\ less[i] = blocks[i]
    BY <1>1
  <2>2. Inner(less, d - 1, b.outer, i) = Inner(blocks, d, names, i)
    <3>1. CASE i = d - 1
      BY <1>1, <2>1, <3>1 DEF Inner
    <3>2. CASE i # d - 1
      <4>1. i + 1 \in 1..(d - 1) /\ less[i + 1] = blocks[i + 1]
        BY <1>1, <2>1, <3>2
      <4>2. QED
        BY <2>1, <3>2, <4>1 DEF Inner
    <3>3. QED
      BY <3>1, <3>2
  <2>3. QED
    BY <1>3, <2>1, <2>2, OwnedParts
<1>4. QED
  BY <1>2, <1>3, OwnedParts

\* The local of a moved variable is not one that a block hides.
LEMMA OwnedMoved ==
  ASSUME NEW blocks, NEW env, NEW names, NEW bound, Scope(env, names, bound),
         Contexts(blocks, names, bound),
         NEW after, DOMAIN after = DOMAIN env, NEW n \in DOMAIN env, n \notin Free(after)
  PROVE  names[n] \notin Owned(blocks, Len(blocks), after, names)
<1> DEFINE d == Len(blocks)
<1>1. /\ IsStack(blocks) /\ d \in Nat
  BY PushParts DEF Contexts
<1>2. /\ \A i \in 1..d : Scope(blocks[i].entry, blocks[i].outer, bound) /\ Below(blocks[i].outer, names)
      /\ \A i, k \in 1..d : i <= k => Below(blocks[i].outer, blocks[k].outer)
  BY DEF Contexts, IsBlock
<1>3. \A m \in DOMAIN env : names[m] = <<m, names[m][2]>> /\ names[m][2] \in Nat
  BY DEF Scope
<1>4. Free(after) \subseteq DOMAIN env
  BY DEF Free
<1> HIDE DEF d
<1>5. ASSUME NEW m \in Free(after), names[n] = names[m]
      PROVE  FALSE
  <2>1. m \in DOMAIN env /\ m # n
    BY <1>4
  <2>2. names[m] = <<m, names[m][2]>> /\ names[n] = <<n, names[n][2]>>
    BY <1>3, <2>1
  <2>3. QED
    BY <1>5, <2>1, <2>2
<1>6. ASSUME NEW i \in 1..d, NEW m \in Free(Resting(blocks[i])),
             Inner(blocks, d, names, i)[m] # blocks[i].outer[m], names[n] = blocks[i].outer[m]
      PROVE  FALSE
  <2> DEFINE outer == blocks[i].outer
  <2>1. m \in DOMAIN blocks[i].entry /\ m \in DOMAIN outer
    <3>1. m \in DOMAIN blocks[i].entry
      BY JoinedTypes DEF Free, Resting
    <3>2. QED
      BY <1>2, <3>1 DEF Scope
  <2>2. outer[m] = <<m, outer[m][2]>> /\ outer[m][2] \in Nat
    BY <1>2, <2>1 DEF Scope
  <2>3. m = n
    <3>1. names[n] = <<n, names[n][2]>>
      BY <1>3
    <3>2. QED
      BY <1>6, <2>2, <3>1
  <2>4. CASE i = d
    BY <1>6, <2>3, <2>4 DEF Inner
  <2>5. CASE i # d
    <3> DEFINE inner == blocks[i + 1].outer
    <3>1. i + 1 \in 1..d /\ i <= i + 1
      BY <1>1, <2>5
    <3>2. Below(outer, inner) /\ Below(inner, names) /\ Scope(blocks[i + 1].entry, inner, bound)
      BY <1>2, <3>1
    <3>3. m \in DOMAIN inner /\ outer[m][2] <= inner[m][2] /\ inner[m][2] <= names[m][2]
      BY <2>1, <3>2 DEF Below
    <3>4. inner[m] = <<m, inner[m][2]>> /\ inner[m][2] \in Nat
      BY <3>2, <3>3 DEF Scope
    <3>5. inner[m] # outer[m]
      BY <1>6, <2>5 DEF Inner
    <3>6. inner[m][2] # outer[m][2]
      BY <2>2, <3>4, <3>5
    <3>7. names[m][2] = outer[m][2]
      BY <1>6, <2>3
    <3> HIDE DEF inner, outer
    <3>8. QED
      BY <2>2, <3>3, <3>4, <3>6, <3>7
  <2>6. QED
    BY <2>4, <2>5
<1>7. QED
  BY <1>5, <1>6, OwnedParts DEF d

\* A variable that was moved in a block is hidden there by a new binding: the
\* join of the moves will not see that it was.
Veils(blocks, env, names, n) ==
  /\ blocks # <<>> /\ n \in Free(Resting(Last(blocks)))
  /\ names[n] = Last(blocks).outer[n] /\ env[n].moved

Shadowed(env, names, n, r, fresh, outer) ==
  /\ \A y : y \in DOMAIN fresh <=> y \in DOMAIN env \/ y = n
  /\ \A y \in DOMAIN env : y # n => fresh[y] = env[y]
  /\ outer[n] = r
  /\ \A y \in DOMAIN names : y # n => outer[y] = names[y]

LEMMA OwnedAtBind ==
  ASSUME NEW blocks, NEW env, NEW names, NEW bound, Scope(env, names, bound),
         Contexts(blocks, names, bound), NEW n, NEW r, NEW fresh, NEW outer,
         Shadowed(env, names, n, r, fresh, outer),
         NEW s \in Owned(blocks, Len(blocks), fresh, outer)
  PROVE  \/ s \in Owned(blocks, Len(blocks), env, names)
         \/ s = r
         \/ Veils(blocks, env, names, n) /\ s = names[n]
<1> DEFINE d == Len(blocks)
<1>1. IsStack(blocks) /\ d \in Nat /\ DOMAIN names = DOMAIN env
  BY PushParts DEF Contexts, Scope
<1>2. \A i \in 1..d : Scope(blocks[i].entry, blocks[i].outer, bound) /\ Below(blocks[i].outer, names)
  BY DEF Contexts, IsBlock
<1>3. d > 0 => blocks # <<>> /\ Last(blocks) = blocks[d]
  <2>1. blocks = <<>> => d = 0
    OBVIOUS
  <2>2. blocks # <<>> => Last(blocks) = blocks[d]
    BY <1>1, PopParts
  <2> HIDE DEF d
  <2>3. QED
    BY <2>1, <2>2
<1> HIDE DEF d
<1>4. ASSUME NEW y \in Free(fresh), s = outer[y], s # r
      PROVE  s \in Owned(blocks, d, env, names)
  <2>1. y # n /\ y \in DOMAIN env /\ fresh[y] = env[y] /\ outer[y] = names[y]
    BY <1>1, <1>4 DEF Free, Shadowed
  <2>2. y \in Free(env)
    BY <2>1 DEF Free
  <2>3. QED
    BY <1>4, <2>1, <2>2, OwnedParts
<1>5. ASSUME NEW i \in 1..d, NEW y \in Free(Resting(blocks[i])),
             Inner(blocks, d, outer, i)[y] # blocks[i].outer[y], s = blocks[i].outer[y]
      PROVE  s \in Owned(blocks, d, env, names) \/ (Veils(blocks, env, names, n) /\ s = names[n])
  <2>1. CASE i # d
    <3>1. Inner(blocks, d, outer, i) = Inner(blocks, d, names, i)
      BY <2>1 DEF Inner
    <3>2. QED
      BY <1>5, <3>1, OwnedParts
  <2>2. CASE i = d
    <3>1. y \in DOMAIN names /\ y \in DOMAIN env
      <4>1. y \in DOMAIN blocks[i].entry
        BY JoinedTypes DEF Free, Resting
      <4>2. QED
        BY <1>1, <1>2, <4>1 DEF Scope, Below
    <3>2. Inner(blocks, d, outer, i) = outer /\ Inner(blocks, d, names, i) = names
      BY <2>2 DEF Inner
    <3>3. CASE names[y] # blocks[i].outer[y]
      BY <1>5, <3>2, <3>3, OwnedParts
    <3>4. CASE names[y] = blocks[i].outer[y] /\ y # n
      BY <1>5, <3>1, <3>2, <3>4 DEF Shadowed
    <3>5. CASE names[y] = blocks[i].outer[y] /\ y = n /\ env[n].moved
      <4>1. d > 0 /\ s = names[n] /\ n \in Free(Resting(blocks[d])) /\ names[n] = blocks[d].outer[n]
        BY <1>1, <1>5, <2>2, <3>5
      <4>2. QED
        BY <1>3, <3>5, <4>1 DEF Veils
    <3>6. CASE names[y] = blocks[i].outer[y] /\ y = n /\ ~env[n].moved
      <4>1. n \in Free(env) /\ s = names[n]
        BY <1>5, <3>1, <3>6 DEF Free
      <4>2. QED
        BY <4>1, OwnedParts
    <3>7. QED
      BY <3>3, <3>4, <3>5, <3>6
  <2>3. QED
    BY <2>1, <2>2
<1>6. QED
  BY <1>4, <1>5, OwnedParts DEF d

\* No two of the locals own the same identity and none owns a consumed one,
\* but for those the checker lost.
Sole(owned, store, count, consumed, lost) ==
  /\ \A r \in owned :
       r \in DOMAIN store /\ store[r].id \in 0..count /\ store[r].id \notin consumed \ lost
  /\ \A r, s \in owned : r # s /\ store[r].id = store[s].id => store[r].id \in {0} \cup lost

\* An identity that none of them owns.
Apart(owned, store, count, consumed, lost, id) ==
  /\ id \in 0..count /\ id \notin consumed \ lost
  /\ \A r \in owned : store[r].id = id => id \in {0} \cup lost

LEMMA SoleShrinks ==
  ASSUME NEW owned, NEW fewer, fewer \subseteq owned, NEW store, NEW count \in Nat, NEW consumed,
         NEW lost, Sole(owned, store, count, consumed, lost),
         NEW more, lost \subseteq more, NEW higher \in Nat, count <= higher
  PROVE  /\ Sole(fewer, store, higher, consumed, more)
         /\ \A id : Apart(owned, store, count, consumed, lost, id) =>
                      Apart(fewer, store, higher, consumed, more, id)
BY DEF Sole, Apart

LEMMA SoleFewer ==
  ASSUME NEW owned, NEW fewer, fewer \subseteq owned, NEW store, NEW count, NEW consumed,
         NEW lost, Sole(owned, store, count, consumed, lost)
  PROVE  /\ Sole(fewer, store, count, consumed, lost)
         /\ \A id : Apart(owned, store, count, consumed, lost, id) =>
                      Apart(fewer, store, count, consumed, lost, id)
BY DEF Sole, Apart

Gained(owned, store, count, lost, r, q, other) ==
  \A s \in other :
    \/ s \in owned \/ s = r
    \/ s = q /\ q \in DOMAIN store /\ store[q].id \in 0..count /\ store[q].id \in {0} \cup lost

Written(store, r, v, next) ==
  /\ r \in DOMAIN next /\ next[r] = v
  /\ \A s \in DOMAIN store : s # r => s \in DOMAIN next /\ next[s] = store[s]

LEMMA SoleGrows ==
  ASSUME NEW owned, NEW store, NEW count \in Nat, NEW consumed, consumed \subseteq 1..count,
         NEW lost, Sole(owned, store, count, consumed, lost),
         NEW v, Apart(owned, store, count, consumed, lost, v.id),
         NEW r, NEW q, NEW other, Gained(owned, store, count, lost, r, q, other),
         NEW next, Written(store, r, v, next)
  PROVE  Sole(other, next, count, consumed, lost)
<1>1. 0 \notin consumed
  OBVIOUS
<1>2. ASSUME NEW s \in other, s # r
      PROVE  /\ s \in DOMAIN store /\ s \in DOMAIN next /\ next[s] = store[s]
             /\ store[s].id \in 0..count /\ store[s].id \notin consumed \ lost
             /\ s \in owned \/ store[s].id \in {0} \cup lost
  BY <1>1, <1>2 DEF Sole, Gained, Written
<1>3. v.id \in 0..count /\ v.id \notin consumed \ lost
  BY DEF Apart
<1>4. ASSUME NEW s \in other, NEW u \in other, s # u, next[s].id = next[u].id
      PROVE  next[s].id \in {0} \cup lost
  <2>1. CASE s = r
    <3>1. u # r /\ store[u].id = v.id
      BY <1>2, <1>4, <2>1 DEF Written
    <3>2. QED
      BY <1>2, <1>4, <2>1, <3>1 DEF Apart, Written
  <2>2. CASE u = r
    <3>1. s # r /\ store[s].id = v.id
      BY <1>2, <1>4, <2>2 DEF Written
    <3>2. QED
      BY <1>2, <1>4, <2>2, <3>1 DEF Apart, Written
  <2>3. CASE s # r /\ u # r
    BY <1>2, <1>4, <2>3 DEF Sole
  <2>4. QED
    BY <2>1, <2>2, <2>3
<1>5. \A s \in other :
        s \in DOMAIN next /\ next[s].id \in 0..count /\ next[s].id \notin consumed \ lost
  BY <1>2, <1>3 DEF Written
<1>6. QED
  BY <1>4, <1>5 DEF Sole

\* The new local owns the value it is bound to, which no other one does.
LEMMA BindOwners ==
  ASSUME NEW n \in Names \cup {NoName}, NEW type, NEW value, NEW env, NEW names,
         next_binding \in Nat, Scope(env, names, next_binding),
         NEW blocks, Contexts(blocks, names, next_binding), NEW goes, goes,
         Bind(n, type, value, env, names, goes),
         NEW count \in Nat, Means(env, names, locals, count),
         NEW consumed, consumed \subseteq 1..count, NEW lost,
         Sole(Owned(blocks, Len(blocks), env, names), locals, count, consumed, lost),
         n # NoName =>
           /\ Apart(Owned(blocks, Len(blocks), env, names), locals, count, consumed, lost, value.id)
           /\ Veils(blocks, env, names, n) => locals[names[n]].id \in {0} \cup lost
  PROVE  Sole(Owned(blocks, Len(blocks), environment', bindings'), locals', count, consumed, lost)
<1> DEFINE owned == Owned(blocks, Len(blocks), env, names)
           other == Owned(blocks, Len(blocks), environment', bindings')
<1>1. CASE n = NoName
  BY <1>1 DEF Bind
<1>2. CASE n # NoName
  <2> DEFINE r == <<n, next_binding>>
             q == names[n]
             item == [type |-> type, moved |-> FALSE]
  <2>1. /\ environment' = Override(env, n, item)
        /\ bindings' = Override(names, n, r)
        /\ locals' = Override(locals, r, value)
    BY <1>2 DEF Bind, BindName
  <2> HIDE DEF r, item
  <2>2. Shadowed(env, names, n, r, environment', bindings')
    <3>1. /\ \A y : y \in DOMAIN environment' <=> y \in DOMAIN env \/ y = n
          /\ \A y \in DOMAIN env : y # n => environment'[y] = env[y]
      BY <2>1, OverrideParts
    <3>2. /\ bindings'[n] = r
          /\ \A y \in DOMAIN names : y # n => bindings'[y] = names[y]
      BY <2>1, OverrideParts
    <3>3. QED
      BY <3>1, <3>2 DEF Shadowed
  <2>3. Written(locals, r, value, locals')
    <3>1. /\ r \in DOMAIN locals' /\ locals'[r] = value
          /\ \A s \in DOMAIN locals : s # r => s \in DOMAIN locals' /\ locals'[s] = locals[s]
      BY <2>1, OverrideParts
    <3>2. QED
      BY <3>1 DEF Written
  <2>4. \A s \in other : s \in owned \/ s = r \/ (Veils(blocks, env, names, n) /\ s = q)
    BY <2>2, OwnedAtBind
  <2>5. ASSUME Veils(blocks, env, names, n)
        PROVE  /\ q \in DOMAIN locals /\ locals[q].id \in 0..count /\ locals[q].id \in {0} \cup lost
    <3>1. n \in DOMAIN env
      <4>1. /\ blocks # <<>> /\ n \in DOMAIN Last(blocks).entry
        BY <2>5, JoinedTypes DEF Veils, Free, Resting
      <4>2. IsBlock(Last(blocks), next_binding) /\ Below(Last(blocks).outer, names)
        BY <4>1, ContextsPop
      <4>3. QED
        BY <4>1, <4>2 DEF IsBlock, Scope, Below
    <3>2. q \in DOMAIN locals /\ IsValue(locals[q], count)
      BY <3>1 DEF Means
    <3>3. locals[q].id \in 0..count
      BY <3>2 DEF IsValue
    <3>4. QED
      BY <1>2, <2>5, <3>2, <3>3
  <2> HIDE DEF owned, other, q
  <2>6. Sole(owned, locals, count, consumed, lost) /\ Apart(owned, locals, count, consumed, lost, value.id)
    BY <1>2 DEF owned
  <2>7. Sole(other, locals', count, consumed, lost)
    <3>1. Gained(owned, locals, count, lost, r, q, other)
      BY <2>4, <2>5 DEF Gained
    <3>2. QED
      BY <2>3, <2>6, <3>1, SoleGrows
  <2>8. QED
    BY <2>7 DEF other
<1>3. QED
  BY <1>1, <1>2

LEMMA CheckedFree ==
  ASSUME NEW env, NEW e
  PROVE  \A n : n \in Free(Checked(env, e)) <=> n \in Free(env) /\ n \notin Moves(env, e)
BY DEF Free, Checked

\* Evaluating an expression of an accepted body: what the checker leaves usable
\* still has one owner each, and the value has an identity of its own.
LEMMA EvaluateOwners ==
  ASSUME NoVariants, BodyInv, status = "open", live, NEW e \in Expressions,
         Accepts(environment, e), NEW o \in Outcomes(e), Evaluate(o), o.live,
         Sole(Owned(branches, Len(branches), environment, bindings),
              locals, Len(issued), spent, untracked),
         NEW lost, lost = untracked \cup Untracked(e)
  PROVE  LET left == Owned(branches, Len(branches), Checked(environment, e), bindings)
         IN  /\ Sole(left, locals, Len(issued'), spent', lost)
             /\ Apart(left, locals, Len(issued'), spent', lost, o.value.id)
             /\ spent' \subseteq 1..Len(issued')
             /\ Means(Checked(environment, e), bindings, locals, Len(issued'))
<1> DEFINE owned == Owned(branches, Len(branches), environment, bindings)
           left  == Owned(branches, Len(branches), Checked(environment, e), bindings)
           count == Len(issued)
           more  == Len(issued')
<1>1. /\ count \in Nat /\ more \in Nat /\ count <= more
      /\ IsLedger(issued', spent') /\ IsValue(o.value, more)
  BY EvaluateParts
<1>2. /\ Scope(environment, bindings, next_binding) /\ next_binding \in Nat
      /\ Contexts(branches, bindings, next_binding) /\ IsLedger(issued, spent)
      /\ Means(environment, bindings, locals, count)
  BY DEF BodyInv
<1>3. Origin(e, o) /\ spent' = o.spent
  <2>1. o # Stops /\ AtHome
    BY <1>2, StopsParts DEF AtHome, Scope
  <2>2. QED
    BY <2>1, OutcomeProduces DEF Produces, Evaluate
<1>4. left \subseteq owned
  <2>1. Free(Checked(environment, e)) \subseteq Free(environment)
    BY CheckedFree
  <2>2. Len(branches) \in Nat
    BY <1>2, PushParts DEF Contexts
  <2>3. QED
    BY <2>1, <2>2, OwnedPrefix
<1>5. ASSUME NEW n \in Free(environment)
      PROVE  bindings[n] \in owned
  BY OwnedParts
<1>6. ASSUME NEW n \in Free(environment), n \in Moves(environment, e)
      PROVE  bindings[n] \notin left
  <2>1. n \in DOMAIN environment /\ n \notin Free(Checked(environment, e))
    BY <1>6, CheckedFree DEF Free
  <2>2. DOMAIN Checked(environment, e) = DOMAIN environment
    BY CheckedTypes
  <2>3. QED
    BY <1>2, <2>1, <2>2, OwnedMoved
<1>7. Means(Checked(environment, e), bindings, locals, more)
  <2>1. /\ DOMAIN Checked(environment, e) = DOMAIN environment
        /\ \A n \in DOMAIN environment : Checked(environment, e)[n].type = environment[n].type
    BY CheckedTypes
  <2>2. Extends(locals, locals, next_binding)
    BY DEF Extends
  <2>3. Means(environment, bindings, locals, more)
    BY <1>1, <1>2, <2>2, MeansStays
  <2>4. QED
    BY <2>1, <2>3, SameTypes
<1>8. /\ e.form \notin Closed => e.of \in Free(environment)
      /\ e.form = "commit" => /\ e.permit \in Free(environment)
                              /\ Moves(environment, e) = {e.of, e.permit}
  <2>1. e.form = "commit" => e.form \notin Closed
    BY DEF Closed
  <2>2. e.form = "commit" => Moves(environment, e) = {e.of, e.permit}
    BY DEF Moves, Transfers
  <2>3. QED
    BY <2>1, <2>2, AcceptedParts DEF Free
<1>9. o.value.id \in 0..more
  BY <1>1 DEF IsValue
<1>10. spent \subseteq 1..count /\ spent' \subseteq 1..more
  BY <1>1, <1>2 DEF IsLedger
<1> HIDE DEF owned, left, count, more
<1>11. /\ \A r \in owned :
            r \in DOMAIN locals /\ locals[r].id \in 0..count /\ locals[r].id \notin spent \ untracked
       /\ \A r, s \in owned :
            r # s /\ locals[r].id = locals[s].id => locals[r].id \in {0} \cup untracked
  BY DEF Sole, owned, count
<1>12. \A n \in Free(environment) : OfId(n) = locals[bindings[n]].id
  BY DEF OfId
<1>13. CASE spent' = spent
  <2>1. Sole(left, locals, more, spent', lost)
    BY <1>1, <1>4, <1>11, <1>13 DEF Sole
  <2>2. ASSUME o.value.id = 0
        PROVE  Apart(left, locals, more, spent', lost, o.value.id)
    BY <1>9, <1>10, <1>13, <2>2 DEF Apart
  <2>3. ASSUME o.value.id = count + 1
        PROVE  Apart(left, locals, more, spent', lost, o.value.id)
    <3>1. o.value.id \notin spent
      BY <1>1, <1>10, <2>3
    <3>2. \A r \in left : locals[r].id # o.value.id
      BY <1>1, <1>4, <1>11, <2>3
    <3>3. QED
      BY <1>9, <1>13, <3>1, <3>2 DEF Apart
  <2>4. ASSUME e.form \notin Closed, o.value.id = OfId(e.of),
               e.of \in Moves(environment, e) \/ o.value.id \in Untracked(e)
        PROVE  Apart(left, locals, more, spent', lost, o.value.id)
    <3> DEFINE q == bindings[e.of]
    <3>1. q \in owned /\ o.value.id = locals[q].id
      BY <1>5, <1>8, <1>12, <2>4
    <3>2. o.value.id \notin spent \ lost
      BY <1>11, <3>1
    <3>3. ASSUME NEW r \in left, locals[r].id = o.value.id
          PROVE  o.value.id \in {0} \cup lost
      <4>1. CASE o.value.id \in Untracked(e)
        BY <4>1
      <4>2. CASE e.of \in Moves(environment, e)
        <5>1. r # q /\ r \in owned
          BY <1>4, <1>6, <1>8, <2>4, <4>2
        <5>2. QED
          BY <1>11, <3>1, <3>3, <5>1
      <4>3. QED
        BY <2>4, <4>1, <4>2
    <3>4. QED
      BY <1>9, <1>13, <3>2, <3>3 DEF Apart
  <2>5. o.value.id = 0 \/ o.value.id = count + 1 \/
        (/\ e.form \notin Closed /\ o.value.id = OfId(e.of)
         /\ e.of \in Moves(environment, e) \/ o.value.id \in Untracked(e))
    BY <1>3 DEF Origin, count
  <2>6. Apart(left, locals, more, spent', lost, o.value.id)
    BY <2>2, <2>3, <2>4, <2>5
  <2>7. QED
    BY <1>7, <1>10, <2>1, <2>6 DEF left, more
<1>14. CASE spent' # spent
  <2>1. /\ e.form = "commit" /\ o.value.id = 0
        /\ spent' = spent \cup {OfId(e.of), OfId(e.permit)}
    BY <1>3, <1>14 DEF Origin
  <2>2. /\ e.form \notin Closed /\ e.of \in Free(environment) /\ e.permit \in Free(environment)
        /\ e.of \in Moves(environment, e) /\ e.permit \in Moves(environment, e)
    BY <1>8, <2>1 DEF Closed
  <2>3. Apart(left, locals, more, spent', lost, o.value.id)
    BY <1>9, <1>10, <2>1 DEF Apart
  <2>4. ASSUME NEW r \in left, NEW n \in Free(environment), n \in Moves(environment, e),
               locals[r].id = OfId(n), OfId(n) # 0
        PROVE  locals[r].id \in untracked
    <3>1. r \in owned /\ bindings[n] \in owned /\ r # bindings[n]
      BY <1>4, <1>5, <1>6, <2>4
    <3>2. QED
      BY <1>11, <1>12, <2>4, <3>1
  <2>5. ASSUME NEW r \in left
        PROVE  locals[r].id \notin spent' \ lost
    <3>1. CASE locals[r].id \in spent
      BY <1>4, <1>11, <3>1
    <3>2. CASE locals[r].id \in {OfId(e.of), OfId(e.permit)} /\ locals[r].id \in spent'
      <4>1. locals[r].id # 0
        BY <1>10, <3>2
      <4>2. QED
        BY <2>2, <2>4, <3>2, <4>1
    <3>3. QED
      BY <2>1, <3>1, <3>2
  <2>6. Sole(left, locals, more, spent', lost)
    BY <1>1, <1>4, <1>11, <2>5 DEF Sole
  <2>7. QED
    BY <1>7, <1>10, <2>3, <2>6 DEF left, more
<1>15. QED
  BY <1>13, <1>14

\* A run that is inside a block is at home in all the blocks around it.
Nested(blocks) ==
  /\ \A i \in 1..Len(blocks) : blocks[i].ends = <<>> \/ blocks[i].ends = <<blocks[i].ends[1]>>
  /\ \A i, k \in 0..Len(blocks) : i <= k /\ LiveAt(blocks, k) => LiveAt(blocks, i)

\* A run that skips the rest of a block resumes after it with the owners it
\* will find there, and with the value of the branch it took.
Rests(b, owned, store, count, consumed, lost) ==
  b.reached /\ ~LiveIn(b) =>
    /\ Sole(owned, store, count, consumed, lost)
    /\ b.taken => Apart(owned, store, count, consumed, lost, b.value.id)

Around(blocks, j) == Owned(blocks, j - 1, Resting(blocks[j]), blocks[j].outer)

Resumable(blocks, store, count, consumed, lost) ==
  \A j \in 1..Len(blocks) : Rests(blocks[j], Around(blocks, j), store, count, consumed, lost)

LEMMA NestedPush ==
  ASSUME NEW blocks, IsStack(blocks), Nested(blocks), NEW b,
         b.ends = <<>> \/ b.ends = <<b.ends[1]>>, LiveIn(b) => LiveAt(blocks, Len(blocks))
  PROVE  Nested(Append(blocks, b))
<1> DEFINE more == Append(blocks, b)
           k == Len(blocks)
<1>1. /\ k \in Nat /\ Len(more) = k + 1
      /\ \A i \in 1..k : more[i] = blocks[i]
      /\ more[k + 1] = b
  BY PushParts
<1>2. /\ \A i \in 1..k : blocks[i].ends = <<>> \/ blocks[i].ends = <<blocks[i].ends[1]>>
      /\ \A i, j \in 0..k : i <= j /\ LiveAt(blocks, j) => LiveAt(blocks, i)
  BY DEF Nested
<1>3. LiveIn(b) => LiveAt(blocks, k)
  OBVIOUS
<1> HIDE DEF more, k
<1>4. ASSUME NEW i \in 1..(k + 1)
      PROVE  more[i].ends = <<>> \/ more[i].ends = <<more[i].ends[1]>>
  <2>1. CASE i = k + 1
    BY <1>1, <2>1
  <2>2. CASE i # k + 1
    <3>1. i \in 1..k /\ more[i] = blocks[i]
      BY <1>1, <2>2
    <3>2. QED
      BY <1>2, <3>1
  <2>3. QED
    BY <2>1, <2>2
<1>5. /\ \A i \in 0..k : LiveAt(more, i) <=> LiveAt(blocks, i)
      /\ LiveAt(more, k + 1) <=> LiveIn(b)
  BY <1>1 DEF LiveAt
<1>6. ASSUME NEW i \in 0..(k + 1), NEW j \in 0..(k + 1), i <= j, LiveAt(more, j)
      PROVE  LiveAt(more, i)
  <2>1. CASE i = k + 1
    <3>1. j = i
      BY <1>1, <1>6, <2>1
    <3>2. QED
      BY <1>6, <3>1
  <2>2. CASE i # k + 1 /\ j = k + 1
    <3>1. i \in 0..k /\ k \in 0..k /\ i <= k /\ LiveAt(blocks, k)
      BY <1>1, <1>3, <1>5, <1>6, <2>2
    <3>2. QED
      BY <1>2, <1>5, <3>1
  <2>3. CASE i # k + 1 /\ j # k + 1
    <3>1. i \in 0..k /\ j \in 0..k /\ LiveAt(blocks, j)
      BY <1>1, <1>5, <1>6, <2>3
    <3>2. QED
      BY <1>2, <1>5, <1>6, <3>1
  <2>4. QED
    BY <2>1, <2>2, <2>3
<1>7. QED
  BY <1>1, <1>4, <1>6 DEF Nested, more

LEMMA NestedPop ==
  ASSUME NEW blocks, IsStack(blocks), blocks # <<>>, Nested(blocks)
  PROVE  /\ Nested(Front(blocks))
         /\ Last(blocks).ends = <<>> \/ Last(blocks).ends = <<Last(blocks).ends[1]>>
<1> DEFINE less == Front(blocks)
           k == Len(blocks)
<1>1. /\ k \in Nat /\ k > 0 /\ Len(less) = k - 1
      /\ \A i \in 1..(k - 1) : less[i] = blocks[i]
      /\ Last(blocks) = blocks[k]
  BY PopParts
<1>2. /\ \A i \in 1..k : blocks[i].ends = <<>> \/ blocks[i].ends = <<blocks[i].ends[1]>>
      /\ \A i, j \in 0..k : i <= j /\ LiveAt(blocks, j) => LiveAt(blocks, i)
  BY DEF Nested
<1> HIDE DEF less, k
<1>3. \A i \in 0..(k - 1) : LiveAt(less, i) <=> LiveAt(blocks, i)
  BY <1>1 DEF LiveAt
<1>4. ASSUME NEW i \in 0..(k - 1), NEW j \in 0..(k - 1), i <= j, LiveAt(less, j)
      PROVE  LiveAt(less, i)
  <2>1. i \in 0..k /\ j \in 0..k
    BY <1>1
  <2>2. QED
    BY <1>2, <1>3, <1>4, <2>1
<1>5. ASSUME NEW i \in 1..(k - 1)
      PROVE  less[i].ends = <<>> \/ less[i].ends = <<less[i].ends[1]>>
  <2>1. i \in 1..k /\ less[i] = blocks[i]
    BY <1>1
  <2>2. QED
    BY <1>2, <2>1
<1>6. Nested(less)
  BY <1>1, <1>4, <1>5 DEF Nested
<1>7. Last(blocks).ends = <<>> \/ Last(blocks).ends = <<Last(blocks).ends[1]>>
  <2>1. k \in 1..k
    BY <1>1
  <2>2. QED
    BY <1>1, <1>2, <2>1
<1>8. QED
  BY <1>6, <1>7 DEF less

LEMMA LiveResumes ==
  ASSUME NEW blocks, IsStack(blocks), Nested(blocks), LiveAt(blocks, Len(blocks)),
         NEW store, NEW count, NEW consumed, NEW lost
  PROVE  Resumable(blocks, store, count, consumed, lost)
<1> SUFFICES ASSUME NEW j \in 1..Len(blocks)
             PROVE  LiveIn(blocks[j])
  BY DEF Resumable, Rests
<1>1. Len(blocks) \in Nat
  BY PushParts
<1>2. j \in 0..Len(blocks) /\ Len(blocks) \in 0..Len(blocks) /\ j <= Len(blocks) /\ j # 0
  BY <1>1
<1>3. LiveAt(blocks, j)
  BY <1>2 DEF Nested
<1>4. QED
  BY <1>2, <1>3 DEF LiveAt

LEMMA SameAround ==
  ASSUME NEW blocks, NEW other, NEW d \in Nat, \A i \in 1..d : other[i] = blocks[i],
         NEW j \in 1..d
  PROVE  Around(other, j) = Around(blocks, j)
<1>1. j - 1 \in Nat /\ \A i \in 1..(j - 1) : other[i] = blocks[i] /\ blocks[i] = other[i]
  OBVIOUS
<1>2. other[j] = blocks[j]
  OBVIOUS
<1>3. Around(other, j) \subseteq Around(blocks, j)
  BY <1>1, <1>2, OwnedPrefix DEF Around
<1>4. Around(blocks, j) \subseteq Around(other, j)
  BY <1>1, <1>2, OwnedPrefix DEF Around
<1>5. QED
  BY <1>3, <1>4

LEMMA ResumablePush ==
  ASSUME NEW blocks, IsStack(blocks), NEW b, NEW store, NEW count, NEW consumed, NEW lost,
         Resumable(blocks, store, count, consumed, lost),
         Rests(b, Owned(blocks, Len(blocks), Resting(b), b.outer), store, count, consumed, lost)
  PROVE  Resumable(Append(blocks, b), store, count, consumed, lost)
<1> DEFINE more == Append(blocks, b)
           k == Len(blocks)
<1>1. /\ k \in Nat /\ Len(more) = k + 1
      /\ \A i \in 1..k : more[i] = blocks[i]
      /\ more[k + 1] = b
  BY PushParts
<1>2. \A j \in 1..k : Rests(blocks[j], Around(blocks, j), store, count, consumed, lost)
  BY DEF Resumable
<1>3. Rests(b, Owned(blocks, k, Resting(b), b.outer), store, count, consumed, lost)
  OBVIOUS
<1> HIDE DEF more, k
<1>4. \A j \in 1..k : Around(more, j) = Around(blocks, j)
  BY <1>1, SameAround
<1>5. Around(more, k + 1) = Owned(blocks, k, Resting(b), b.outer)
  <2> DEFINE j == k + 1
  <2>1. j - 1 = k /\ more[j] = b
    BY <1>1
  <2> HIDE DEF j
  <2>2. Around(more, j) = Owned(more, k, Resting(b), b.outer)
    BY <2>1 DEF Around
  <2>3. Owned(more, k, Resting(b), b.outer) \subseteq Owned(blocks, k, Resting(b), b.outer)
    BY <1>1, OwnedPrefix
  <2>4. Owned(blocks, k, Resting(b), b.outer) \subseteq Owned(more, k, Resting(b), b.outer)
    BY <1>1, OwnedPrefix
  <2>5. QED
    BY <2>2, <2>3, <2>4 DEF j
<1>6. ASSUME NEW j \in 1..(k + 1)
      PROVE  Rests(more[j], Around(more, j), store, count, consumed, lost)
  <2>1. CASE j = k + 1
    BY <1>1, <1>3, <1>5, <2>1
  <2>2. CASE j # k + 1
    <3>1. j \in 1..k
      BY <1>1, <2>2
    <3>2. QED
      BY <1>1, <1>2, <1>4, <3>1
  <2>3. QED
    BY <2>1, <2>2
<1>7. QED
  BY <1>1, <1>6 DEF Resumable, more

LEMMA ResumablePop ==
  ASSUME NEW blocks, IsStack(blocks), blocks # <<>>, NEW store, NEW count, NEW consumed, NEW lost,
         Resumable(blocks, store, count, consumed, lost)
  PROVE  /\ Resumable(Front(blocks), store, count, consumed, lost)
         /\ Rests(Last(blocks),
                  Owned(Front(blocks), Len(Front(blocks)), Resting(Last(blocks)), Last(blocks).outer),
                  store, count, consumed, lost)
<1> DEFINE less == Front(blocks)
           k == Len(blocks)
           b == Last(blocks)
<1>1. /\ k \in Nat /\ k > 0 /\ Len(less) = k - 1
      /\ \A i \in 1..(k - 1) : less[i] = blocks[i] /\ blocks[i] = less[i]
      /\ b = blocks[k]
  BY PopParts
<1>2. \A j \in 1..k : Rests(blocks[j], Around(blocks, j), store, count, consumed, lost)
  BY DEF Resumable
<1> HIDE DEF less, k, b
<1>3. k - 1 \in Nat /\ k \in 1..k
  BY <1>1
<1>4. \A j \in 1..(k - 1) : Around(less, j) = Around(blocks, j)
  BY <1>1, <1>3, SameAround
<1>5. ASSUME NEW j \in 1..(k - 1)
      PROVE  Rests(less[j], Around(less, j), store, count, consumed, lost)
  <2>1. j \in 1..k
    BY <1>1
  <2>2. QED
    BY <1>1, <1>2, <1>4, <2>1
<1>6. Around(blocks, k) = Owned(less, k - 1, Resting(b), b.outer)
  <2>1. Around(blocks, k) = Owned(blocks, k - 1, Resting(b), b.outer)
    BY <1>1 DEF Around
  <2>2. Owned(less, k - 1, Resting(b), b.outer) \subseteq Owned(blocks, k - 1, Resting(b), b.outer)
    BY <1>1, <1>3, OwnedPrefix
  <2>3. Owned(blocks, k - 1, Resting(b), b.outer) \subseteq Owned(less, k - 1, Resting(b), b.outer)
    BY <1>1, <1>3, OwnedPrefix
  <2>4. QED
    BY <2>1, <2>2, <2>3
<1>7. Rests(b, Owned(less, Len(less), Resting(b), b.outer), store, count, consumed, lost)
  BY <1>1, <1>2, <1>3, <1>6
<1>8. Resumable(less, store, count, consumed, lost)
  BY <1>1, <1>5 DEF Resumable
<1>9. QED
  BY <1>7, <1>8 DEF less, b
-----------------------------------------------------------------------------
(* The steps of a body, and who owns what                                  *)

\* What keeps OneOwner and SpentIsUnavailable: the locals the body may still
\* use, hidden ones included, have one owner each wherever the run is, and
\* where a run that skips the rest of a block resumes.
OwnersInv ==
  /\ Nested(branches)
  /\ status = "open" =>
       /\ live => Sole(Owned(branches, Len(branches), environment, bindings),
                       locals, Len(issued), spent, untracked)
       /\ Resumable(branches, locals, Len(issued), spent, untracked)

LEMMA SkipParts ==
  ASSUME ~live, NEW e, NEW o \in Outcomes(e), Evaluate(o)
  PROVE  /\ issued' = issued /\ spent' = spent /\ ~o.live
         /\ Untracked(e) = {}
BY SkippedStops, StopsParts DEF Evaluate, Untracked

LEMMA BindSkips ==
  ASSUME NEW n, NEW type, NEW value, NEW env, NEW names, NEW goes, ~goes,
         Bind(n, type, value, env, names, goes)
  PROVE  locals' = locals
BY DEF Bind

LEMMA LostIsRead ==
  ASSUME NoVariants, NEW n \in Names, NEW blocks, NEW env, NEW names, n \in DOMAIN names,
         Veils(blocks, env, names, n)
  PROVE  locals[names[n]].id \in {0} \cup Lost(blocks, env, names, n)
<1>1. Hides(blocks, env, names, n)
  BY DEF Hides, Veils, Free, Resting, JoinMoved
<1>2. Local(names, locals, n) = locals[names[n]]
  BY DEF NoVariants, Local
<1>3. QED
  BY <1>1, <1>2 DEF Lost

LEMMA StatementOwners ==
  ASSUME NoVariants, BodyInv, OwnersInv, NEW n \in Names \cup {NoName}, NEW e \in Expressions,
         Statement(n, e), BodyInv'
  PROVE  OwnersInv'
<1> DEFINE env == Checked(environment, e)
           type == TypeOf(environment, e)
           lost == untracked \cup Untracked(e)
<1>1. /\ status = "open" /\ Accepts(environment, e) /\ branches' = branches /\ live' = live
      /\ untracked' = lost \cup (IF live THEN Lost(branches, env, bindings, n) ELSE {})
  BY DEF Statement
<1>2. PICK o \in Outcomes(e) : Evaluate(o) /\ Bind(n, type, o.value, env, bindings, o.live)
  BY DEF Statement
<1>3. /\ Scope(environment, bindings, next_binding) /\ next_binding \in Nat
      /\ Contexts(branches, bindings, next_binding) /\ IsStack(branches)
      /\ live <=> LiveAt(branches, Len(branches))
  BY DEF BodyInv, Contexts
<1>4. Nested(branches)
  BY DEF OwnersInv
<1>5. CASE status' # "open"
  BY <1>1, <1>4, <1>5 DEF OwnersInv
<1>6. CASE status' = "open" /\ live
  <2>1. o.live
    BY <1>1, <1>2, <1>6, EvaluateParts
  <2> DEFINE left == Owned(branches, Len(branches), env, bindings)
             more == Len(issued')
  <2>2. /\ Sole(left, locals, more, spent', lost)
        /\ Apart(left, locals, more, spent', lost, o.value.id)
        /\ spent' \subseteq 1..more
        /\ Means(env, bindings, locals, more)
    <3>1. Sole(Owned(branches, Len(branches), environment, bindings),
               locals, Len(issued), spent, untracked)
      BY <1>1, <1>6 DEF OwnersInv
    <3>2. QED
      BY <1>1, <1>2, <1>6, <2>1, <3>1, EvaluateOwners
  <2>3. more \in Nat
    BY <1>1, <1>2, EvaluateParts
  <2>4. Scope(env, bindings, next_binding)
    <3>1. /\ DOMAIN env = DOMAIN environment
          /\ \A y \in DOMAIN environment : env[y].type = environment[y].type
      BY CheckedTypes
    <3> HIDE DEF env
    <3>2. QED
      BY <1>3, <3>1, SameTypes
  <2> HIDE DEF left, more, env, type, lost
  <2>5. /\ Sole(left, locals, more, spent', untracked')
        /\ Apart(left, locals, more, spent', untracked', o.value.id)
    <3>1. lost \subseteq untracked'
      BY <1>1
    <3>2. QED
      BY <2>2, <2>3, <3>1, SoleShrinks
  <2>6. ASSUME n # NoName, Veils(branches, env, bindings, n)
        PROVE  locals[bindings[n]].id \in {0} \cup untracked'
    <3>1. n \in Names
      BY <2>6
    <3>2. n \in DOMAIN bindings
      <4>1. branches # <<>> /\ n \in DOMAIN Last(branches).entry
        BY <2>6, JoinedTypes DEF Veils, Free, Resting
      <4>2. IsBlock(Last(branches), next_binding) /\ Below(Last(branches).outer, bindings)
        BY <1>3, <4>1, ContextsPop
      <4>3. QED
        BY <4>1, <4>2 DEF IsBlock, Scope, Below
    <3>3. locals[bindings[n]].id \in {0} \cup Lost(branches, env, bindings, n)
      BY <2>6, <3>1, <3>2, LostIsRead
    <3>4. QED
      BY <1>1, <1>6, <3>3
  <2>7. Sole(Owned(branches, Len(branches), environment', bindings'),
             locals', more, spent', untracked')
    BY <1>2, <1>3, <2>1, <2>2, <2>3, <2>4, <2>5, <2>6, BindOwners DEF left
  <2>8. Resumable(branches, locals', more, spent', untracked')
    BY <1>3, <1>4, <1>6, LiveResumes
  <2>9. QED
    BY <1>1, <1>4, <2>7, <2>8 DEF OwnersInv, more
<1>7. CASE ~live
  <2>1. issued' = issued /\ spent' = spent /\ ~o.live /\ untracked' = untracked
    BY <1>1, <1>2, <1>7, SkipParts
  <2>2. locals' = locals
    BY <1>2, <2>1, BindSkips
  <2>3. QED
    BY <1>1, <1>4, <1>7, <2>1, <2>2 DEF OwnersInv
<1>8. QED
  BY <1>5, <1>6, <1>7

LEMMA OpenOwners ==
  ASSUME BodyInv, OwnersInv, NEW kind, NEW n \in Names \cup {NoName}, NEW taken,
         Open(kind, n, taken), taken => live
  PROVE  /\ Nested(branches')
         /\ taken => Sole(Owned(branches', Len(branches'), environment, bindings),
                          locals, Len(issued), spent, untracked)
         /\ Resumable(branches', locals, Len(issued), spent, untracked)
         /\ branches' # <<>> => \A m \in Free(Resting(Last(branches'))) : m \in Free(environment)
<1> DEFINE b == [kind |-> kind, into |-> n, entry |-> environment, outer |-> bindings,
                 reached |-> live, taken |-> taken, ends |-> <<>>, type |-> Data, value |-> Plain]
           owned == Owned(branches, Len(branches), environment, bindings)
<1>1. status = "open" /\ branches' = Append(branches, b)
  BY DEF Open
<1>2. /\ b.entry = environment /\ b.outer = bindings /\ b.reached = live
      /\ b.taken = taken /\ b.ends = <<>>
  OBVIOUS
<1>3. /\ IsStack(branches) /\ Nested(branches)
      /\ live <=> LiveAt(branches, Len(branches))
      /\ live => Sole(owned, locals, Len(issued), spent, untracked)
      /\ Resumable(branches, locals, Len(issued), spent, untracked)
      /\ Len(issued) \in Nat
  BY <1>1, LedgerParts DEF BodyInv, OwnersInv, Contexts
<1> HIDE DEF b
<1>4. LiveIn(b) <=> taken
  BY <1>2 DEF LiveIn
<1>5. \A m \in Free(Resting(b)) : m \in Free(environment)
  BY <1>2 DEF Free, Resting, JoinMoved
<1>6. Nested(branches')
  BY <1>1, <1>2, <1>3, <1>4, NestedPush
<1>7. Last(branches') = b /\ Len(branches') = Len(branches) + 1
  <2>1. /\ IsStack(branches') /\ Len(branches) \in Nat /\ Len(branches') = Len(branches) + 1
        /\ branches'[Len(branches) + 1] = b
    BY <1>1, <1>3, PushParts
  <2>2. QED
    BY <2>1 DEF Last
<1>8. ASSUME taken
      PROVE  Sole(Owned(branches', Len(branches'), environment, bindings),
                  locals, Len(issued), spent, untracked)
  <2>1. Owned(branches', Len(branches'), environment, bindings) \subseteq owned
    BY <1>1, <1>2, <1>3, <1>7, OwnedAtOpen
  <2> HIDE DEF owned
  <2>2. QED
    BY <1>3, <1>8, <2>1, SoleFewer
<1>9. Rests(b, Owned(branches, Len(branches), Resting(b), b.outer),
            locals, Len(issued), spent, untracked)
  <2>1. CASE live /\ ~taken
    <3>1. Owned(branches, Len(branches), Resting(b), bindings) \subseteq owned
      <4>1. Len(branches) \in Nat
        BY <1>3, PushParts
      <4>2. Free(Resting(b)) \subseteq Free(environment)
        BY <1>5
      <4>3. QED
        BY <4>1, <4>2, OwnedPrefix
    <3> HIDE DEF owned
    <3>2. Sole(Owned(branches, Len(branches), Resting(b), bindings),
               locals, Len(issued), spent, untracked)
      BY <1>3, <2>1, <3>1, SoleFewer
    <3>3. QED
      BY <1>2, <2>1, <3>2 DEF Rests
  <2>2. CASE ~live \/ taken
    BY <1>2, <1>4, <2>2 DEF Rests
  <2>3. QED
    BY <2>1, <2>2
<1>10. Resumable(branches', locals, Len(issued), spent, untracked)
  BY <1>1, <1>3, <1>9, ResumablePush
<1>11. QED
  BY <1>5, <1>6, <1>7, <1>8, <1>10

LEMMA OpenIfOwners ==
  ASSUME BodyInv, OwnersInv, NEW n \in Names \cup {NoName}, OpenIf(n), BodyInv'
  PROVE  OwnersInv'
<1>1. PICK taken \in {live, FALSE} : Open("if", n, taken)
  BY DEF OpenIf
<1>2. /\ environment' = environment /\ bindings' = bindings
      /\ locals' = locals /\ untracked' = untracked
  BY DEF OpenIf, lowered
<1>3. taken => live
  OBVIOUS
<1>4. /\ Nested(branches')
      /\ taken => Sole(Owned(branches', Len(branches'), environment, bindings),
                       locals, Len(issued), spent, untracked)
      /\ Resumable(branches', locals, Len(issued), spent, untracked)
  BY <1>1, <1>3, OpenOwners
<1>5. live' = taken /\ issued' = issued /\ spent' = spent
  BY <1>1 DEF Open
<1>6. QED
  BY <1>2, <1>4, <1>5 DEF OwnersInv

LEMMA OpenMatchOwners ==
  ASSUME NoVariants, BodyInv, OwnersInv, NEW n \in Names \cup {NoName}, NEW m \in Names,
         NEW x \in Names, OpenMatch(n, m, x), BodyInv'
  PROVE  OwnersInv'
<1> DEFINE type  == PathType(environment, m)
           value == IF live THEN Local(bindings, locals, m) ELSE Plain
           taken == Len(value.type) > 1
           v     == [type |-> Tail(value.type), id |-> value.id]
<1>1. /\ Resolves(environment, m) /\ Open("match", n, taken)
      /\ Bind(x, Tail(type), v, environment, bindings, taken)
      /\ untracked' = untracked \cup (IF taken THEN {value.id} \ {0} ELSE {})
  BY DEF OpenMatch
<1>2. /\ status = "open" /\ status' = "open" /\ live' = taken /\ issued' = issued /\ spent' = spent
  BY <1>1 DEF Open
<1>3. /\ next_binding \in Nat /\ Scope(environment, bindings, next_binding)
      /\ Contexts(branches', bindings', next_binding') /\ IsStack(branches')
      /\ live' <=> LiveAt(branches', Len(branches'))
      /\ spent \subseteq 1..Len(issued) /\ Len(issued) \in Nat
      /\ live => Means(environment, bindings, locals, Len(issued))
  BY <1>2, LedgerParts DEF BodyInv, Contexts, IsLedger
<1>4. taken => live
  <2>1. CASE ~live
    <3>1. value.type = <<"data">>
      BY <2>1 DEF Plain, Data
    <3> DEFINE k == Len(value.type)
    <3>2. k = 1
      BY <3>1
    <3> HIDE DEF k
    <3>3. ~(k > 1)
      BY <3>2
    <3>4. QED
      BY <3>3 DEF k
  <2>2. QED
    BY <2>1
<1>5. v.id = value.id
  OBVIOUS
<1>6. ASSUME live
      PROVE  value.id \in 0..Len(issued)
  <2>1. m \in DOMAIN environment /\ m \in DOMAIN bindings
    BY <1>1, <1>3, NameIsVariable DEF Scope
  <2>2. value = locals[bindings[m]]
    BY <1>6, <2>1, LocalIsRead
  <2>3. IsValue(value, Len(issued))
    BY <1>3, <1>6, <2>1, <2>2 DEF Means
  <2>4. QED
    BY <1>3, <2>3 DEF IsValue
<1> HIDE DEF type, value, taken, v
<1>7. /\ Nested(branches')
      /\ taken => Sole(Owned(branches', Len(branches'), environment, bindings),
                       locals, Len(issued), spent, untracked)
      /\ Resumable(branches', locals, Len(issued), spent, untracked)
      /\ branches' # <<>> => \A y \in Free(Resting(Last(branches'))) : y \in Free(environment)
  BY <1>1, <1>4, OpenOwners
<1>8. Contexts(branches', bindings, next_binding)
  BY <1>1, <1>4, OpenParts
<1>9. CASE taken
  <2> DEFINE owned == Owned(branches', Len(branches'), environment, bindings)
  <2>1. /\ Sole(owned, locals, Len(issued), spent, untracked')
        /\ Apart(owned, locals, Len(issued), spent, untracked', v.id)
    <3> HIDE DEF owned
    <3>1. untracked \subseteq untracked' /\ v.id \in {0} \cup untracked'
      BY <1>1, <1>5, <1>9
    <3>2. 0 \notin spent
      BY <1>3
    <3>3. Sole(owned, locals, Len(issued), spent, untracked')
      <4>1. Sole(owned, locals, Len(issued), spent, untracked) /\ owned \subseteq owned
        BY <1>7, <1>9 DEF owned
      <4>2. Len(issued) <= Len(issued)
        BY <1>3
      <4>3. QED
        BY <1>3, <3>1, <4>1, <4>2, SoleShrinks
    <3>4. v.id \in 0..Len(issued)
      BY <1>4, <1>5, <1>6, <1>9
    <3>5. Apart(owned, locals, Len(issued), spent, untracked', v.id)
      BY <3>1, <3>2, <3>4 DEF Apart
    <3>6. QED
      BY <3>3, <3>5
  <2>2. ~Veils(branches', environment, bindings, x)
    BY <1>7 DEF Veils, Free
  <2>3. Sole(Owned(branches', Len(branches'), environment', bindings'),
             locals', Len(issued), spent, untracked')
    BY <1>1, <1>3, <1>4, <1>8, <1>9, <2>1, <2>2, BindOwners
  <2>4. Resumable(branches', locals', Len(issued), spent, untracked')
    BY <1>2, <1>3, <1>7, <1>9, LiveResumes
  <2>5. QED
    BY <1>2, <1>7, <2>3, <2>4 DEF OwnersInv
<1>10. CASE ~taken
  <2>1. locals' = locals /\ untracked' = untracked
    BY <1>1, <1>10, BindSkips
  <2>2. QED
    BY <1>2, <1>7, <1>10, <2>1 DEF OwnersInv
<1>11. QED
  BY <1>9, <1>10

LEMMA ReturnOwners ==
  ASSUME OwnersInv, NEW e \in Expressions, Return(e)
  PROVE  OwnersInv'
<1>1. /\ branches' = branches /\ locals' = locals /\ issued' = issued /\ spent' = spent
      /\ live' = live /\ untracked' = untracked /\ status = "open"
      /\ status' = "open" => ~live
  BY DEF Return, run
<1>2. QED
  BY <1>1 DEF OwnersInv

LEMMA RestingAtOpen ==
  ASSUME NEW b, b.ends = <<>>
  PROVE  Free(Resting(b)) = Free(b.entry)
<1>1. DOMAIN <<>> = {}
  OBVIOUS
<1>2. ~(\E i \in DOMAIN b.ends : TRUE)
  BY <1>1
<1>3. \A n \in DOMAIN b.entry : Resting(b)[n].moved <=> b.entry[n].moved
  BY <1>2 DEF Resting, JoinMoved
<1>4. DOMAIN Resting(b) = DOMAIN b.entry
  BY DEF Resting, JoinMoved
<1>5. QED
  BY <1>3, <1>4 DEF Free

LEMMA ValuesAreTracked == \A e \in BlockValues : Untracked(e) = {}
BY DEF BlockValues, Untracked

\* The end of the first branch: what it leaves usable is still usable after the
\* other one, which the run skips, and a run that skipped the first enters the
\* other with what it had before.
LEMMA NextBranchOwners ==
  ASSUME NoVariants, BodyInv, OwnersInv, NEW e \in BlockValues, NextBranch(e), BodyInv'
  PROVE  OwnersInv'
<1> DEFINE block == Last(branches)
           env   == Checked(environment, e)
           less  == Front(branches)
           more  == Len(issued')
<1>1. /\ status = "open" /\ branches # <<>> /\ block.ends = <<>> /\ Accepts(environment, e)
      /\ environment' = block.entry /\ bindings' = block.outer
      /\ live' = (block.reached /\ ~block.taken)
      /\ locals' = locals /\ untracked' = untracked
      /\ e \in Expressions /\ Untracked(e) = {}
  BY ValuesAreTracked DEF NextBranch, Restored, Innermost, BlockValues
<1>2. PICK o \in Outcomes(e) :
        /\ Evaluate(o)
        /\ branches' = Append(less, [block EXCEPT !.ends = <<env>>, !.type = TypeOf(environment, e),
                                                  !.value = o.value])
  BY DEF NextBranch, Innermost
<1> DEFINE b == [block EXCEPT !.ends = <<env>>, !.type = TypeOf(environment, e), !.value = o.value]
<1>3. /\ b.entry = block.entry /\ b.outer = block.outer /\ b.value = o.value
      /\ b.reached = block.reached /\ b.taken = block.taken
      /\ b.ends = <<env>> /\ <<env>> # <<>> /\ <<env>>[1] = env
  OBVIOUS
<1>4. /\ Contexts(branches, bindings, next_binding) /\ IsStack(branches)
      /\ Scope(environment, bindings, next_binding)
      /\ live <=> LiveAt(branches, Len(branches))
      /\ Nested(branches)
      /\ Resumable(branches, locals, Len(issued), spent, untracked)
      /\ live => Sole(Owned(branches, Len(branches), environment, bindings),
                      locals, Len(issued), spent, untracked)
  BY <1>1 DEF BodyInv, OwnersInv, Contexts
<1>5. /\ IsStack(branches')
      /\ live' <=> LiveAt(branches', Len(branches'))
  BY DEF BodyInv, Contexts
<1>6. /\ Contexts(less, block.outer, next_binding) /\ IsStack(less)
      /\ IsBlock(block, next_binding) /\ Below(block.outer, bindings)
      /\ block.reached <=> LiveAt(less, Len(less))
  BY <1>1, <1>4, ContextsPop DEF Contexts
<1>7. /\ LiveIn(block) <=> block.taken
      /\ live <=> block.taken
  <2>1. LiveAt(branches, Len(branches)) <=> LiveIn(block)
    BY <1>1, <1>4, PopParts DEF LiveAt
  <2>2. QED
    BY <1>1, <1>4, <2>1 DEF LiveIn
<1>8. Nested(less)
  BY <1>1, <1>4, NestedPop
<1>9. /\ Resumable(less, locals, Len(issued), spent, untracked)
      /\ Rests(block, Owned(less, Len(less), Resting(block), block.outer),
               locals, Len(issued), spent, untracked)
  BY <1>1, <1>4, ResumablePop
<1>10. \A n \in Free(Resting(b)) : n \in Free(Resting(block)) /\ n \in Free(env)
  <2> SUFFICES ASSUME NEW n \in Free(Resting(b))
               PROVE  n \in Free(Resting(block)) /\ n \in Free(env)
    OBVIOUS
  <2> HIDE DEF block, env, b
  <2>1. n \in DOMAIN block.entry /\ ~block.entry[n].moved
    BY <1>3 DEF Free, Resting, JoinMoved
  <2>2. ~env[n].moved
    <3>1. /\ n \in DOMAIN b.entry /\ ~JoinMoved(b.entry, b.ends)[n].moved
      BY JoinedTypes DEF Free, Resting
    <3>2. ~(\E i \in DOMAIN b.ends : b.ends[i][n].moved)
      BY <3>1 DEF JoinMoved
    <3>3. 1 \in DOMAIN b.ends /\ b.ends[1] = env
      BY <1>3
    <3>4. QED
      BY <3>2, <3>3
  <2>3. n \in Free(Resting(block))
    BY <1>1, <2>1, RestingAtOpen DEF Free
  <2>4. n \in DOMAIN environment
    BY <1>4, <1>6, <2>1 DEF IsBlock, Scope, Below
  <2>5. DOMAIN env = DOMAIN environment
    BY CheckedTypes DEF env
  <2>6. QED
    BY <2>2, <2>3, <2>4, <2>5 DEF Free
<1>11. branches' = Append(less, b)
  BY <1>2
<1>12. Nested(branches')
  <2>1. b.ends = <<b.ends[1]>>
    BY <1>3
  <2>2. LiveIn(b) => LiveAt(less, Len(less))
    <3> HIDE DEF b, block, less
    <3>1. QED
      BY <1>3, <1>6 DEF LiveIn
  <2> HIDE DEF b, less
  <2>3. QED
    BY <1>6, <1>8, <1>11, <2>1, <2>2, NestedPush
<1>13. CASE status' # "open"
  BY <1>12, <1>13 DEF OwnersInv
<1>14. CASE status' = "open" /\ live
  <2>1. o.live
    BY <1>1, <1>2, <1>14, EvaluateParts
  <2> DEFINE left  == Owned(branches, Len(branches), env, bindings)
             after == Owned(less, Len(less), Resting(b), block.outer)
  <2>2. /\ Sole(left, locals, more, spent', untracked)
        /\ Apart(left, locals, more, spent', untracked, o.value.id)
    <3>1. untracked = untracked \cup Untracked(e)
      BY <1>1
    <3>2. QED
      BY <1>1, <1>2, <1>4, <1>14, <2>1, <3>1, EvaluateOwners
  <2>3. after \subseteq left
    <3> HIDE DEF b, env
    <3>1. QED
      BY <1>1, <1>4, <1>10, OwnedAtClose
  <2> HIDE DEF left, after, more, b, block, less
  <2>4. /\ Sole(after, locals, more, spent', untracked)
        /\ Apart(after, locals, more, spent', untracked, o.value.id)
    BY <2>2, <2>3, SoleFewer
  <2>5. Rests(b, Owned(less, Len(less), Resting(b), b.outer), locals, more, spent', untracked)
    BY <1>3, <2>4 DEF Rests, after
  <2>6. Resumable(less, locals, more, spent', untracked)
    <3>1. block.reached
      BY <1>6, <1>7, <1>14 DEF IsBlock
    <3>2. QED
      BY <1>6, <1>8, <3>1, LiveResumes
  <2>7. Resumable(branches', locals, more, spent', untracked)
    BY <1>6, <1>11, <2>5, <2>6, ResumablePush
  <2>8. ~live'
    BY <1>1, <1>7, <1>14
  <2>9. QED
    BY <1>1, <1>12, <2>7, <2>8 DEF OwnersInv, more
<1>15. CASE ~live /\ block.reached
  <2> DEFINE rest == Owned(less, Len(less), Resting(block), block.outer)
             next == Owned(branches', Len(branches'), block.entry, block.outer)
  <2>1. issued' = issued /\ spent' = spent
    BY <1>2, <1>15, SkipParts
  <2>2. Sole(rest, locals, Len(issued), spent, untracked)
    <3> HIDE DEF block, less
    <3>1. QED
      BY <1>7, <1>9, <1>15 DEF Rests
  <2>3. next \subseteq rest
    <3> HIDE DEF b, block, less
    <3>1. Free(block.entry) \subseteq Free(Resting(block))
      BY <1>1, RestingAtOpen
    <3>2. Len(branches') = Len(less) + 1
      BY <1>6, <1>11, PushParts
    <3>3. QED
      BY <1>3, <1>6, <1>11, <3>1, <3>2, OwnedAtOpen
  <2> HIDE DEF rest, next
  <2>4. Sole(next, locals, Len(issued), spent, untracked)
    BY <2>2, <2>3, SoleFewer
  <2>5. live' /\ LiveAt(branches', Len(branches'))
    <3> HIDE DEF b, block, less, env, more
    <3>1. ~block.taken /\ block.reached
      BY <1>7, <1>15
    <3>2. live'
      BY <1>1, <3>1
    <3>3. QED
      BY <1>5, <3>2
  <2>6. Resumable(branches', locals, Len(issued), spent, untracked)
    BY <1>5, <1>12, <2>5, LiveResumes
  <2>7. QED
    BY <1>1, <1>12, <2>1, <2>4, <2>6 DEF OwnersInv, next
<1>16. CASE ~live /\ ~block.reached
  <2>1. issued' = issued /\ spent' = spent /\ ~live'
    BY <1>1, <1>2, <1>16, SkipParts
  <2> HIDE DEF b, block, less
  <2>2. Rests(b, Owned(less, Len(less), Resting(b), b.outer), locals, Len(issued), spent, untracked)
    BY <1>3, <1>16 DEF Rests
  <2>3. Resumable(branches', locals, Len(issued), spent, untracked)
    BY <1>6, <1>9, <1>11, <2>2, ResumablePush
  <2>4. QED
    BY <1>1, <1>12, <2>1, <2>3 DEF OwnersInv
<1>17. QED
  BY <1>13, <1>14, <1>15, <1>16

LEMMA JoinedFree ==
  ASSUME NEW entry, NEW ends, ends = <<>> \/ ends = <<ends[1]>>, NEW env
  PROVE  \A n \in Free(JoinMoved(entry, Append(ends, env))) :
           n \in Free(JoinMoved(entry, ends)) /\ ~env[n].moved
<1> DEFINE all == Append(ends, env)
<1> SUFFICES ASSUME NEW n \in Free(JoinMoved(entry, all))
             PROVE  n \in Free(JoinMoved(entry, ends)) /\ ~env[n].moved
  OBVIOUS
<1>1. (\A i \in DOMAIN ends : i \in DOMAIN all /\ all[i] = ends[i]) /\ (\E i \in DOMAIN all : all[i] = env)
  <2>1. CASE ends = <<>>
    <3>1. all = <<env>>
      BY <2>1
    <3>2. 1 \in DOMAIN all /\ all[1] = env
      BY <3>1
    <3>3. QED
      BY <2>1, <3>2
  <2>2. CASE ends = <<ends[1]>>
    <3> DEFINE end == ends[1]
    <3> HIDE DEF end
    <3>1. ends = <<end>>
      BY <2>2 DEF end
    <3>2. Len(ends) = 1 /\ DOMAIN ends = {1} /\ ends \in Seq({end})
      BY <3>1
    <3>3. IsStack(ends)
      BY <3>2, SeqOfRange DEF IsStack
    <3>4. IsStack(all) /\ Len(all) = 2 /\ all[1] = ends[1] /\ all[2] = env
      <4> DEFINE k == Len(ends)
      <4>1. /\ IsStack(all) /\ Len(all) = k + 1
            /\ \A i \in 1..k : all[i] = ends[i]
            /\ all[k + 1] = env
        BY <3>3, PushParts
      <4> HIDE DEF k, all
      <4>2. k = 1
        BY <3>2 DEF k
      <4>3. QED
        BY <4>1, <4>2
    <3>5. DOMAIN all = 1..2
      BY <3>4, LenProperties DEF IsStack
    <3>6. QED
      BY <3>2, <3>4, <3>5
  <2>3. QED
    BY <2>1, <2>2
<1> HIDE DEF all
<1>2. /\ n \in DOMAIN entry /\ ~entry[n].moved
      /\ \A i \in DOMAIN all : ~all[i][n].moved
  BY DEF Free, JoinMoved
<1>3. \A i \in DOMAIN ends : ~ends[i][n].moved
  BY <1>1, <1>2
<1>4. ~env[n].moved
  BY <1>1, <1>2
<1>5. QED
  BY <1>2, <1>3, <1>4 DEF Free, JoinMoved

\* The end of the other branch: the names around the block are back, those
\* moved in either branch are not usable, and the result has one owner.
LEMMA CloseBranchesOwners ==
  ASSUME NoVariants, BodyInv, OwnersInv, NEW e \in BlockValues, CloseBranches(e), BodyInv'
  PROVE  OwnersInv'
<1> DEFINE block == Last(branches)
           here  == Checked(environment, e)
           env   == JoinMoved(block.entry, Append(block.ends, here))
           less  == Front(branches)
           more  == Len(issued')
<1>1. /\ status = "open" /\ branches # <<>> /\ block.ends # <<>> /\ Accepts(environment, e)
      /\ branches' = less /\ live' = block.reached
      /\ untracked' = untracked \cup
           (IF block.reached THEN Lost(less, env, block.outer, block.into) ELSE {})
      /\ e \in Expressions /\ Untracked(e) = {}
  BY ValuesAreTracked DEF CloseBranches, Innermost, BlockValues
<1>2. PICK o \in Outcomes(e) :
        /\ Evaluate(o)
        /\ Bind(block.into, block.type, IF o.live THEN o.value ELSE block.value, env, block.outer,
                block.reached)
  BY DEF CloseBranches, Innermost, Restored
<1> DEFINE v == IF o.live THEN o.value ELSE block.value
<1>3. /\ Contexts(branches, bindings, next_binding) /\ IsStack(branches)
      /\ Scope(environment, bindings, next_binding) /\ next_binding \in Nat
      /\ live <=> LiveAt(branches, Len(branches))
      /\ Nested(branches)
      /\ Resumable(branches, locals, Len(issued), spent, untracked)
      /\ Meanings(branches, locals, Len(issued))
      /\ live => Sole(Owned(branches, Len(branches), environment, bindings),
                      locals, Len(issued), spent, untracked)
  BY <1>1 DEF BodyInv, OwnersInv, Contexts
<1>4. /\ Contexts(less, block.outer, next_binding) /\ IsStack(less)
      /\ IsBlock(block, next_binding) /\ Below(block.outer, bindings)
  BY <1>1, <1>3, ContextsPop DEF Contexts
<1>5. block.reached <=> LiveAt(less, Len(less))
  BY <1>1, <1>3, ContextsPop
<1>6. LiveIn(block) <=> block.reached /\ ~block.taken
  BY <1>1 DEF LiveIn
<1>7. live <=> LiveIn(block)
  <2>1. LiveAt(branches, Len(branches)) <=> LiveIn(block)
    BY <1>1, <1>3, PopParts DEF LiveAt
  <2>2. QED
    BY <1>3, <2>1
<1>8. /\ Nested(less)
      /\ block.ends = <<>> \/ block.ends = <<block.ends[1]>>
  BY <1>1, <1>3, NestedPop
<1>9. /\ Resumable(less, locals, Len(issued), spent, untracked)
      /\ Rests(block, Owned(less, Len(less), Resting(block), block.outer),
               locals, Len(issued), spent, untracked)
  BY <1>1, <1>3, ResumablePop
<1> HIDE DEF env, less, block
<1>10. \A n \in Free(env) : n \in Free(Resting(block)) /\ n \in Free(here)
  <2> TAKE n \in Free(env)
  <2> HIDE DEF here
  <2>1. n \in Free(Resting(block)) /\ ~here[n].moved
    BY <1>8, JoinedFree DEF env, Resting
  <2>2. n \in DOMAIN block.entry
    BY <2>1, JoinedTypes DEF Free, Resting
  <2>3. n \in DOMAIN environment
    BY <1>3, <1>4, <2>2 DEF IsBlock, Scope, Below
  <2>4. DOMAIN here = DOMAIN environment
    BY CheckedTypes DEF here
  <2>5. QED
    BY <2>1, <2>3, <2>4 DEF Free
<1>11. CASE status' # "open"
  BY <1>1, <1>8, <1>11 DEF OwnersInv
<1>12. CASE ~block.reached
  <2>1. ~live
    BY <1>6, <1>7, <1>12
  <2>2. issued' = issued /\ spent' = spent /\ untracked' = untracked /\ ~live'
    BY <1>1, <1>2, <1>12, <2>1, SkipParts
  <2>3. locals' = locals
    BY <1>2, <1>12, BindSkips
  <2>4. QED
    BY <1>1, <1>8, <1>9, <2>2, <2>3 DEF OwnersInv
<1>13. CASE status' = "open" /\ block.reached
  <2> DEFINE owned == Owned(less, Len(less), env, block.outer)
  <2>1. /\ IsLedger(issued', spent') /\ more \in Nat /\ Len(issued) \in Nat /\ Len(issued) <= more
        /\ spent' \subseteq 1..more
    BY <1>1, <1>2, EvaluateParts DEF IsLedger
  <2>2. ASSUME live
        PROVE  /\ Sole(owned, locals, more, spent', untracked)
               /\ Apart(owned, locals, more, spent', untracked, v.id)
    <3> DEFINE left == Owned(branches, Len(branches), here, bindings)
    <3>1. o.live
      BY <1>1, <1>2, <1>13, <2>2, EvaluateParts
    <3>2. /\ Sole(left, locals, more, spent', untracked)
          /\ Apart(left, locals, more, spent', untracked, o.value.id)
      <4>1. untracked = untracked \cup Untracked(e)
        BY <1>1
      <4>2. QED
        BY <1>1, <1>2, <1>3, <2>2, <3>1, <4>1, EvaluateOwners
    <3>3. owned \subseteq left
      <4> HIDE DEF here
      <4>1. QED
        BY <1>1, <1>3, <1>10, OwnedAtClose DEF block, less
    <3>4. v = o.value
      BY <3>1
    <3> HIDE DEF left, owned, more, v
    <3>5. /\ Sole(owned, locals, more, spent', untracked)
          /\ Apart(owned, locals, more, spent', untracked, v.id)
      BY <3>2, <3>3, <3>4, SoleFewer
    <3>6. QED
      BY <3>5
  <2>3. ASSUME ~live
        PROVE  /\ Sole(owned, locals, more, spent', untracked)
               /\ Apart(owned, locals, more, spent', untracked, v.id)
    <3> DEFINE rest == Owned(less, Len(less), Resting(block), block.outer)
    <3>1. issued' = issued /\ spent' = spent /\ ~o.live
      BY <1>2, <2>3, SkipParts
    <3>2. v = block.value /\ block.taken
      BY <1>6, <1>7, <1>13, <2>3, <3>1
    <3>3. /\ Sole(rest, locals, Len(issued), spent, untracked)
          /\ Apart(rest, locals, Len(issued), spent, untracked, block.value.id)
      BY <1>6, <1>9, <1>13, <3>2 DEF Rests
    <3>4. owned \subseteq rest
      <4>1. Len(less) \in Nat
        BY <1>4, PushParts
      <4>2. Free(env) \subseteq Free(Resting(block))
        BY <1>10
      <4>3. QED
        BY <4>1, <4>2, OwnedPrefix
    <3> HIDE DEF rest, owned, v
    <3>5. /\ Sole(owned, locals, Len(issued), spent, untracked)
          /\ Apart(owned, locals, Len(issued), spent, untracked, v.id)
      BY <3>2, <3>3, <3>4, SoleFewer
    <3>6. QED
      BY <3>1, <3>5
  <2>4. /\ Sole(owned, locals, more, spent', untracked')
        /\ Apart(owned, locals, more, spent', untracked', v.id)
    <3> HIDE DEF owned, more, v
    <3>1. /\ Sole(owned, locals, more, spent', untracked)
          /\ Apart(owned, locals, more, spent', untracked, v.id)
      BY <2>2, <2>3
    <3>2. untracked \subseteq untracked' /\ owned \subseteq owned /\ more <= more
      BY <1>1, <2>1
    <3>3. QED
      BY <2>1, <3>1, <3>2, SoleShrinks
  <2>5. Scope(env, block.outer, next_binding) /\ Means(env, block.outer, locals, more)
    <3>1. /\ DOMAIN env = DOMAIN block.entry
          /\ \A y \in DOMAIN block.entry : env[y].type = block.entry[y].type
      <4> DEFINE ends == Append(block.ends, here)
      <4> HIDE DEF ends
      <4>1. QED
        BY JoinedTypes DEF env, ends
    <3>2. Scope(block.entry, block.outer, next_binding)
      BY <1>4 DEF IsBlock
    <3>3. Means(block.entry, block.outer, locals, Len(issued))
      <4>1. BlockMeans(block, locals, Len(issued))
        BY <1>1, <1>3, MeaningsPop DEF block
      <4>2. QED
        BY <1>13, <4>1 DEF BlockMeans
    <3>4. Extends(locals, locals, next_binding)
      BY DEF Extends
    <3>5. Means(block.entry, block.outer, locals, more)
      BY <2>1, <3>2, <3>3, <3>4, MeansStays
    <3>6. QED
      BY <3>1, <3>2, <3>5, SameTypes
  <2>6. ASSUME block.into # NoName, Veils(less, env, block.outer, block.into)
        PROVE  locals[block.outer[block.into]].id \in {0} \cup untracked'
    <3>1. block.into \in Names
      BY <1>4, <2>6 DEF IsBlock
    <3>2. block.into \in DOMAIN block.outer
      <4>1. less # <<>> /\ block.into \in DOMAIN Last(less).entry
        BY <2>6, JoinedTypes DEF Veils, Free, Resting
      <4>2. IsBlock(Last(less), next_binding) /\ Below(Last(less).outer, block.outer)
        BY <1>4, <4>1, ContextsPop
      <4>3. QED
        BY <4>1, <4>2 DEF IsBlock, Scope, Below
    <3>3. locals[block.outer[block.into]].id
            \in {0} \cup Lost(less, env, block.outer, block.into)
      BY <2>6, <3>1, <3>2, LostIsRead
    <3>4. QED
      BY <1>1, <1>13, <3>3
  <2>7. Sole(Owned(less, Len(less), environment', bindings'), locals', more, spent', untracked')
    <3>1. block.into \in Names \cup {NoName}
      BY <1>4 DEF IsBlock
    <3>2. Bind(block.into, block.type, v, env, block.outer, block.reached)
      BY <1>2
    <3> HIDE DEF owned, more, v
    <3>3. QED
      BY <1>3, <1>4, <1>13, <2>1, <2>4, <2>5, <2>6, <3>1, <3>2, BindOwners DEF owned
  <2>8. Resumable(less, locals', more, spent', untracked')
    BY <1>4, <1>5, <1>8, <1>13, LiveResumes
  <2>9. QED
    BY <1>1, <1>8, <2>7, <2>8 DEF OwnersInv, more
<1>14. QED
  BY <1>11, <1>12, <1>13

LEMMA InitialOwners ==
  ASSUME BodyInit
  PROVE  OwnersInv
<1>1. PICK body \in Bodies :
        /\ environment = [n \in DOMAIN body.arguments |->
                           [type |-> body.arguments[n].type, moved |-> FALSE]]
        /\ bindings = [n \in DOMAIN body.arguments |-> <<n, 0>>]
        /\ locals = [r \in {<<n, 0>> : n \in DOMAIN body.arguments} |-> body.arguments[r[1]]]
        /\ issued = body.issued
  BY DEF BodyInit
<1> DEFINE args == body.arguments
           owned == Owned(branches, 0, environment, bindings)
<1>2. /\ \A n \in DOMAIN args : args[n].id \in 0..Len(issued)
      /\ \A m, n \in DOMAIN args : m # n /\ args[m].id = args[n].id => args[m].id = 0
  <2>1. IsBody(body) /\ Len(issued) \in Nat
    BY <1>1, BodiesAssumption, LenProperties DEF IsBody
  <2>2. QED
    BY <1>1, <2>1 DEF IsBody
<1>3. /\ branches = <<>> /\ spent = {} /\ Len(branches) = 0
  BY DEF BodyInit
<1>4. /\ DOMAIN environment = DOMAIN args
      /\ \A n \in DOMAIN args :
           bindings[n] = <<n, 0>> /\ <<n, 0>> \in DOMAIN locals /\ locals[<<n, 0>>] = args[n]
  BY <1>1
<1> HIDE DEF args
<1>5. ASSUME NEW r \in owned
      PROVE  \E n \in DOMAIN args : r = <<n, 0>> /\ r \in DOMAIN locals /\ locals[r] = args[n]
  <2>1. PICK n \in Free(environment) : r = bindings[n]
    <3>1. ~(\E i \in 1..0 : TRUE)
      OBVIOUS
    <3>2. QED
      BY <3>1, OwnedParts
  <2>2. n \in DOMAIN args
    BY <1>4, <2>1 DEF Free
  <2>3. QED
    BY <1>4, <2>1, <2>2
<1> HIDE DEF owned
<1>6. ASSUME NEW r \in owned, NEW s \in owned, r # s, locals[r].id = locals[s].id
      PROVE  locals[r].id = 0
  <2>1. PICK m \in DOMAIN args : r = <<m, 0>> /\ locals[r] = args[m]
    BY <1>5
  <2>2. PICK n \in DOMAIN args : s = <<n, 0>> /\ locals[s] = args[n]
    BY <1>5
  <2>3. QED
    BY <1>2, <1>6, <2>1, <2>2
<1>7. Sole(owned, locals, Len(issued), spent, untracked)
  <2>1. \A r \in owned : r \in DOMAIN locals /\ locals[r].id \in 0..Len(issued)
    BY <1>2, <1>5
  <2>2. QED
    BY <1>3, <1>6, <2>1 DEF Sole
<1>8. Nested(branches) /\ Resumable(branches, locals, Len(issued), spent, untracked)
  BY <1>3 DEF Nested, Resumable
<1>9. QED
  BY <1>3, <1>7, <1>8 DEF OwnersInv, owned

LEMMA OwnersInvKept ==
  ASSUME NoVariants, BodyInv, OwnersInv, [BodyNext]_bodyVars
  PROVE  OwnersInv'
<1>1. BodyInv'
  BY BodyInvKept
<1>2. CASE BodyNext
  <2>1. ASSUME NEW n \in Names \cup {NoName}, NEW e \in Expressions, Statement(n, e)
        PROVE  OwnersInv'
    BY <1>1, <2>1, StatementOwners
  <2>2. ASSUME NEW n \in Names \cup {NoName}, OpenIf(n)
        PROVE  OwnersInv'
    BY <1>1, <2>2, OpenIfOwners
  <2>3. ASSUME NEW n \in Names \cup {NoName}, NEW m \in Names, NEW x \in Names, OpenMatch(n, m, x)
        PROVE  OwnersInv'
    BY <1>1, <2>3, OpenMatchOwners
  <2>4. ASSUME NEW e \in Expressions, Return(e)
        PROVE  OwnersInv'
    BY <2>4, ReturnOwners
  <2>5. ASSUME NEW e \in BlockValues, NextBranch(e)
        PROVE  OwnersInv'
    BY <1>1, <2>5, NextBranchOwners
  <2>6. ASSUME NEW e \in BlockValues, CloseBranches(e)
        PROVE  OwnersInv'
    BY <1>1, <2>6, CloseBranchesOwners
  <2>7. QED
    BY <1>2, <2>1, <2>2, <2>3, <2>4, <2>5, <2>6 DEF BodyNext
<1>3. CASE UNCHANGED bodyVars
  BY <1>3 DEF OwnersInv, bodyVars, checker, lowered, run
<1>4. QED
  BY <1>2, <1>3

LEMMA SoleOwners ==
  ASSUME BodyInv, OwnersInv
  PROVE  OneOwner /\ SpentIsUnavailable
<1> DEFINE owned == Owned(branches, Len(branches), environment, bindings)
<1> SUFFICES ASSUME Running
             PROVE  /\ \A m, n \in Usable :
                         m # n /\ Identity(m) = Identity(n) => Identity(m) \in {0} \cup untracked
                    /\ \A n \in Usable : Identity(n) \notin spent \ untracked
  BY DEF OneOwner, SpentIsUnavailable
<1>1. Sole(owned, locals, Len(issued), spent, untracked)
  BY DEF OwnersInv, Running
<1>2. \A n \in Usable : bindings[n] \in owned
  BY OwnedParts DEF Usable, Free
<1> HIDE DEF owned
<1>3. ASSUME NEW m \in Usable, NEW n \in Usable, m # n
      PROVE  bindings[m] # bindings[n]
  <2>1. m \in DOMAIN bindings /\ n \in DOMAIN bindings
    BY DEF Usable, BodyInv, Scope
  <2>2. bindings[m] = <<m, bindings[m][2]>> /\ bindings[n] = <<n, bindings[n][2]>>
    BY <2>1 DEF BodyInv, Scope
  <2>3. QED
    BY <1>3, <2>2
<1>4. QED
  BY <1>1, <1>2, <1>3 DEF Sole, Identity

\* The invariants of names and of owners together give both properties.
LEMMA OwnersInvariant == NoVariants => (BodySpec => [](OneOwner /\ SpentIsUnavailable))
<1> SUFFICES ASSUME NoVariants PROVE BodySpec => [](OneOwner /\ SpentIsUnavailable)
  OBVIOUS
<1> DEFINE Inv == BodyInv /\ OwnersInv
<1>1. BodyInit => Inv
  BY InitialBody, InitialOwners
<1>2. Inv /\ [BodyNext]_bodyVars => Inv'
  BY BodyInvKept, OwnersInvKept
<1>3. Inv => OneOwner /\ SpentIsUnavailable
  BY SoleOwners
<1>4. QED
  BY <1>1, <1>2, <1>3, PTL DEF BodySpec

\* No proposal or permit has two usable variables, whatever blocks, branches
\* and matches a body opens, but for the identities in `untracked': those read
\* out of a name that stays usable, or moved in a block that hides the name.
THEOREM AffineValuesHaveOneOwner == NoVariants => (BodySpec => []OneOwner)
BY OwnersInvariant, PTL

\* No variable the checker still accepts holds a proposal or permit that a
\* commit of the run has consumed, with the same exception.
THEOREM ConsumedValuesAreUnavailable == NoVariants => (BodySpec => []SpentIsUnavailable)
BY OwnersInvariant, PTL
=============================================================================
