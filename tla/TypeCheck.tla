----------------------------- MODULE TypeCheck ------------------------------
(***************************************************************************)
(* The check of a value against a declared type.  The interpreter keeps a  *)
(* type as the text of the manifest and takes it apart again at every      *)
(* check: value_matches_type_str, with match_type_alias for the types that *)
(* manifests and modules define.  Here a text is a sequence of tokens; the *)
(* syntax tree it was written from is kept beside it, for the definition   *)
(* of what the type means.                                                 *)
(***************************************************************************)
EXTENDS Integers, Sequences, FiniteSets, SequencesExt

CONSTANTS
    LengthOf,       \* the length of each string
    Matches,        \* the strings that each regular expression matches
    Brackets,       \* '[' minus ']' in the text of each regular expression
    AliasBody,      \* the types that env->type_aliases has or can load
    MaxAliasDepth,  \* alias_depth never exceeds it
    InnerSize,      \* sizeof(inner_buf), in tokens
    SegmentSize     \* sizeof(tbuf), in tokens

(***************************************************************************)
(* Values: [kind, str, num, whole].  Types: [base, args], where args are   *)
(* bounds, literals, regular expressions or types, as the base asks for.   *)
(***************************************************************************)
Bare == {"Hash", "Array", "Boolean", "Numeric", "Integer", "String", "Regexp", "Undef", "NotUndef"}

\* The tokens.
Open  == <<"[", "">>
Close == <<"]", "">>
Comma == <<",", "">>

Joined(parts) == FoldRight(LAMBDA p, rest : IF rest = <<>> THEN p ELSE p \o <<Comma>> \o rest,
                           parts, <<>>)

RECURSIVE Text(_)
Text(t) ==
    LET arg(i) == IF t.base \in {"String", "Integer"}
                  THEN IF t.args[i].given THEN <<<<"number", t.args[i].value>>>>
                                          ELSE <<<<"word", "default">>>>
                  ELSE IF t.base = "Enum" THEN <<<<"literal", t.args[i]>>>>
                  ELSE IF t.base = "Pattern" THEN <<<<"regex", t.args[i]>>>>
                  ELSE Text(t.args[i])
    IN  <<<<"word", t.base>>>> \o
        IF t.args = <<>> THEN <<>>
        ELSE <<Open>> \o Joined([i \in DOMAIN t.args |-> arg(i)]) \o <<Close>>

-----------------------------------------------------------------------------
(* The check. *)

Tokens(text, sort) == {text[i][2] : i \in {j \in DOMAIN text : text[j][1] = sort}}

\* Mutant: strchr for strrchr.
LastClose_First(text) == SelectInSubSeq(text, 1, Len(text), LAMBDA k : k[1] = "]")

\* strrchr(inner, ']'): 0 if there is none.
LastClose(text) == SelectLastInSubSeq(text, 1, Len(text), LAMBDA k : k[1] = "]")

\* The depth of brackets at position i of the text after the first bracket.
\* Brackets in regular expressions count like all others.
Depth(text, i) ==
    LET delta(k) == IF k[1] = "[" THEN 1 ELSE IF k[1] = "]" THEN -1
                    ELSE IF k[1] = "regex" THEN Brackets[k[2]] ELSE 0
    IN  FoldLeft(LAMBDA n, k : n + delta(k), 0, SubSeq(text, 3, i))

\* The texts between the commas at depth 0.
Segments(text) ==
    LET end  == LastClose(text)
        cuts == {2, end} \cup {i \in 3 .. end - 1 : text[i][1] = "," /\ Depth(text, i) = 0}
        next(i) == CHOOSE j \in cuts : j > i /\ \A k \in cuts : k > i => k >= j
    IN  {SubSeq(text, i + 1, next(i) - 1) : i \in cuts \ {end}} \ {<<>>}

\* sscanf(bracket, " [ %ld , %ld ]", ...): a bound is the empty set where
\* the text has none, or only after one that could not be read.
Bounds(text) ==
    LET first  == Len(text) >= 3 /\ text[3][1] = "number"
        second == first /\ Len(text) >= 5 /\ text[4] = Comma /\ text[5][1] = "number"
    IN  [min |-> IF first THEN {text[3][2]} ELSE {}, max |-> IF second THEN {text[5][2]} ELSE {}]

Within(n, bounds) == (\A m \in bounds.min : n >= m) /\ (\A m \in bounds.max : n <= m)

InBounds(v, base, bounds) ==
    IF base = "String" THEN v.kind = "string" /\ Within(LengthOf[v.str], bounds)
                       ELSE v.kind = "number" /\ v.whole /\ Within(v.num, bounds)

\* A type without parameters that the checker knows.
MatchesBare(v, base) ==
    CASE base = "Hash"     -> v.kind = "hash"
      [] base = "Array"    -> v.kind = "array"
      [] base = "Boolean"  -> v.kind = "bool"
      [] base = "Numeric"  -> v.kind = "number"
      [] base = "Integer"  -> v.kind = "number" /\ v.whole
      [] base = "String"   -> v.kind = "string"
      [] base = "Regexp"   -> v.kind = "regexp"
      [] base = "Undef"    -> v.kind = "undef"
      [] base = "NotUndef" -> v.kind # "undef"

RECURSIVE value_matches_type_str(_, _, _)

\* match_type_alias; what it does not know or follow is accepted.
match_type_alias(v, base, depth) ==
    \/ base \notin DOMAIN AliasBody
    \/ depth >= MaxAliasDepth
    \/ value_matches_type_str(v, Text(AliasBody[base]), depth + 1)

OfLiterals(v, text) ==
    /\ v.kind = "string"
    /\ Tokens(text, "literal") # {} => v.str \in Tokens(text, "literal")

OfPatterns(v, text) ==
    /\ v.kind = "string"
    /\ Tokens(text, "regex") \cup Tokens(text, "literal") # {} =>
          \/ \E r \in Tokens(text, "regex") : v.str \in Matches[r]
          \/ v.str \in Tokens(text, "literal")

Inner(text) ==
    LET all == SubSeq(text, 3, LastClose(text) - 1)
    IN  SubSeq(all, 1, IF Len(all) < InnerSize THEN Len(all) ELSE InnerSize - 1)

OfOptional(v, text, depth) ==
    \/ v.kind = "undef"
    \/ LastClose(text) = 0
    \/ value_matches_type_str(v, Inner(text), depth)

OfVariant(v, text, depth) ==
    \/ LastClose(text) <= 3
    \/ Segments(text) = {}
    \/ \E s \in Segments(text) : Len(s) >= SegmentSize \/ value_matches_type_str(v, s, depth)

value_matches_type_str(v, text, depth) ==
    IF text = <<>> THEN TRUE
    ELSE LET base  == text[1][2]
             plain == Len(text) = 1
         IN CASE ~plain /\ base \in {"String", "Integer"} -> InBounds(v, base, Bounds(text))
              [] ~plain /\ base = "Optional" -> OfOptional(v, text, depth)
              [] ~plain /\ base = "Enum"     -> OfLiterals(v, text)
              [] ~plain /\ base = "Pattern"  -> OfPatterns(v, text)
              [] ~plain /\ base = "Variant"  -> OfVariant(v, text, depth)
              [] \/ plain /\ base \in Bare
                 \/ base \in {"Hash", "Array", "Boolean", "Numeric"} -> MatchesBare(v, base)
              [] OTHER -> match_type_alias(v, base, depth)

Accepts(v, t) == value_matches_type_str(v, Text(t), 0)

-----------------------------------------------------------------------------
(* What a type means. *)

Given(args, i) == i \in DOMAIN args /\ args[i].given

RECURSIVE Member(_, _, _)
Member(v, t, depth) ==
    LET bounded(n) == /\ Given(t.args, 1) => n >= t.args[1].value
                      /\ Given(t.args, 2) => n <= t.args[2].value
        elements   == {t.args[i] : i \in DOMAIN t.args}
    IN CASE t.base = "String"   -> v.kind = "string" /\ bounded(LengthOf[v.str])
         [] t.base = "Integer"  -> v.kind = "number" /\ v.whole /\ bounded(v.num)
         [] t.base = "Enum"     -> v.kind = "string" /\ v.str \in elements
         [] t.base = "Pattern"  -> v.kind = "string" /\ \E r \in elements : v.str \in Matches[r]
         [] t.base = "Optional" -> v.kind = "undef" \/ Member(v, t.args[1], depth)
         [] t.base = "Variant"  -> \E i \in DOMAIN t.args : Member(v, t.args[i], depth)
         [] t.base = "Any"      -> TRUE
         [] t.base = "Float"    -> v.kind = "number" /\ ~v.whole
         [] t.base \in DOMAIN AliasBody ->
               depth < MaxAliasDepth /\ Member(v, AliasBody[t.base], depth + 1)
         [] OTHER -> t.base \in Bare /\ MatchesBare(v, t.base)

\* The text fits the buffers, and its regular expressions have no brackets
\* that a Variant would count.
RECURSIVE Fits(_)
Fits(t) ==
    /\ t.base = "Optional" => Len(Text(t)) - 3 < InnerSize
    /\ t.base = "Pattern" => \A i \in DOMAIN t.args : Brackets[t.args[i]] = 0
    /\ t.base \in {"Optional", "Variant"} => \A i \in DOMAIN t.args : Fits(t.args[i])

\* The types the check looks into to the end.  A Variant accepts every value when
\* the text of an alternative does not fit its buffer.
RECURSIVE Checked(_, _)
Checked(t, depth) ==
    CASE t.base \in {"String", "Integer"} ->
            \A i \in DOMAIN t.args : t.args[i].given \/ (i = 2 /\ t.args[1].given)
      [] t.base \in {"Enum", "Pattern"} -> TRUE
      [] t.base \in {"Optional", "Variant"} ->
            \A i \in DOMAIN t.args :
                /\ Checked(t.args[i], depth)
                /\ t.base = "Variant" => Len(Text(t.args[i])) < SegmentSize
      [] t.base \in DOMAIN AliasBody ->
            depth < MaxAliasDepth /\ Checked(AliasBody[t.base], depth + 1)
      [] OTHER -> t.base \in Bare /\ t.args = <<>>

=============================================================================
