------------------------------- MODULE Values -------------------------------
(***************************************************************************)
(* Questions to the pure parts of the interpreter, one at a time: does a   *)
(* value match a type, how do two versions compare, what do the functions  *)
(* on arrays make of two arrays, and what does deep_merge make of two      *)
(* hashes.  Every answer is held against a definition that does not look   *)
(* at how the code computes it.                                            *)
(***************************************************************************)
EXTENDS TypeCheck, StdlibFunctions

CONSTANTS
    Types,          \* a sequence of types
    TypedValues,    \* values to match against them
    Versions,       \* version strings
    Elements,       \* elements of arrays
    MaxLength,      \* of an array
    Hashes,
    Orders          \* the orders in which buckets may be walked

VARIABLE question

vars == <<question>>

Nothing == [kind |-> "none"]

Init == question = Nothing

Asks(q) == question = Nothing /\ question' = q

Arrays == UNION {[1 .. n -> Elements] : n \in 0 .. MaxLength}

MatchType(i, v)     == Asks([kind |-> "type", type |-> i, value |-> v])
CompareVersions(a)  == Asks([kind |-> "versions", left |-> a])
UseArrays(a)        == Asks([kind |-> "arrays", left |-> a])
MergeHashes(d, s)   == Asks([kind |-> "merge", dest |-> d, src |-> s])

Answered == question # Nothing /\ question' = Nothing

Next ==
    \/ \E i \in DOMAIN Types, v \in TypedValues : MatchType(i, v)
    \/ \E a \in Versions : CompareVersions(a)
    \/ \E a \in Arrays : UseArrays(a)
    \/ \E d, s \in Hashes : MergeHashes(d, s)
    \/ Answered

Spec == Init /\ [][Next]_vars

-----------------------------------------------------------------------------

AliasesFit == \A n \in DOMAIN AliasBody : Fits(AliasBody[n])

\* value_matches_type_str "returns ... false on a mismatch we can prove": as
\* long as the text of the type fits its buffers and no regular expression
\* has brackets of its own, a value that belongs to the type is accepted,
\* although the text is taken apart at brackets and commas, the type may be
\* defined by itself, and unknown parts are skipped.
RejectsOnlyMismatches ==
    question.kind = "type" =>
        LET t == Types[question.type]
            v == question.value
        IN  AliasesFit /\ Fits(t) /\ Member(v, t, 0) => Accepts(v, t)

\* Where it looks into the whole type, it accepts nothing else: the bounds,
\* literals and alternatives survive being found again in the text.  The code is
\* held to its own cases for Pattern, Enum and Variant here, not to the comment
\* above it (lines 2500-2503), which says that these are accepted unchecked.
FindsMismatches ==
    question.kind = "type" =>
        LET t == Types[question.type]
            v == question.value
        IN  AliasesFit /\ Fits(t) /\ Checked(t, 0) /\ Accepts(v, t) => Member(v, t, 0)

\* The order of versions that versioncmp documents: components in turn, a
\* number after letters, letters by the alphabet, the end before everything.
RECURSIVE Components(_)
Components(s) ==
    LET a == SkipOther(s)
        n == IF a # <<>> THEN Run(a, a[1][1]) ELSE 0
    IN  IF a = <<>> THEN <<>>
        ELSE (IF a[1][1] = "digit" THEN <<1000 + Number(a)>>
              ELSE Append([i \in 1 .. n |-> 10 + a[i][2]], 1)) \o Components(From(a, n + 1))

\* The sign of a sequence of numbers against another in dictionary order.
Dictionary(a, b) ==
    LET diff == {i \in DOMAIN a \cap DOMAIN b : a[i] # b[i]}
        i    == CHOOSE j \in diff : \A k \in diff : j <= k
    IN  IF diff = {} THEN Sign(Len(a), Len(b)) ELSE Sign(a[i], b[i])

\* versioncmp walks two strings at once and skips what is not a letter or a
\* digit on either side; it still orders versions totally, as the dictionary
\* order of their components does, so that sorting by it is well defined.
VersionsOrdered ==
    question.kind = "versions" =>
        \A b \in Versions :
            version_segment_cmp(question.left, b)
                = Dictionary(Components(question.left), Components(b))

Plain(v) == v.kind \in {"undef", "bool", "number", "string"}

\* The functions on arrays agree on what an array contains, though they use
\* three different comparisons: a union has each plain value of either once, an
\* intersection each of both once, a difference every other one as often as
\* before; member, in, delete and unique agree with them where their comparison
\* covers the value.  Nothing is said of arrays in arrays: the comparisons hold
\* no two of them for equal, so that a union or unique keeps all of them.
ArraysAgree ==
    question.kind = "arrays" =>
        LET a == question.left
        IN  \A b \in Arrays :
                /\ \A v \in {x \in Elements : Plain(x)} :
                      LET one(p) == IF p THEN 1 ELSE 0
                          inA == count(a, v) > 0
                          inB == count(b, v) > 0
                      IN  /\ count(union(a, b), v) = one(inA \/ inB)
                          /\ count(intersection(a, b), v) = one(inA /\ inB)
                          /\ count(difference(a, b), v) = IF inB THEN 0 ELSE count(a, v)
                          /\ v.kind # "undef" => (member(a, v) <=> inA)
                          /\ v.kind \in {"number", "string"} =>
                                /\ in(v, a) <=> inA
                                /\ delete(a, v) = difference(a, <<v>>)
                /\ (\A i \in DOMAIN (a \o b) :
                         Plain((a \o b)[i]) /\ (a \o b)[i].kind # "undef")
                      => unique(concat(a, b)) = union(a, b)

\* No hash has the two spellings of a name, at any level.
RECURSIVE OneSpelling(_)
OneSpelling(h) ==
    \A k \in DOMAIN h : Other(k) \notin DOMAIN h /\ (IsHash(h[k]) => OneSpelling(h[k].hash))

Spellings(h, k) == {k, Other(k)} \cap DOMAIN h

RECURSIVE Keeps(_, _)
Keeps(result, h) ==
    \A k \in DOMAIN h :
        IF IsHash(h[k])
        THEN \E f \in Spellings(result, k) : IsHash(result[f]) /\ Keeps(result[f].hash, h[k].hash)
        ELSE k \in DOMAIN result /\ result[k] = h[k]

\* deep_merge: all that the last hash says is in the result, whatever came
\* before and in whichever order the buckets are walked; hashes below two
\* spellings of a name become one; and what only the first has stays.
RightmostWins ==
    question.kind = "merge" =>
        \A order \in Orders :
            LET d      == question.dest
                s      == question.src
                result == deep_merge(<<d, s>>, order)
            IN  /\ OneSpelling(s) => Keeps(result, s)
                /\ \A k \in DOMAIN d : Spellings(result, k) # {}
                /\ OneSpelling(d) /\ OneSpelling(s) =>
                      \A k \in DOMAIN d :
                          /\ Spellings(s, k) = {} => k \in DOMAIN result /\ result[k] = d[k]
                          /\ \A f \in Spellings(s, k) :
                                IsHash(d[k]) /\ IsHash(s[f]) => Keeps(result[k].hash, s[f].hash)

\* The check on the text of a type (value_matches_type_str) says what the type means.
TypesRight == RejectsOnlyMismatches /\ FindsMismatches

\* The functions on arrays and hashes agree on which elements and keys are the same.
CollectionsRight == ArraysAgree /\ RightmostWins
=============================================================================
