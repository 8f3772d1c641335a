-------------------------- MODULE StdlibFunctions ---------------------------
(***************************************************************************)
(* Functions of the standard library that compute a value from values:     *)
(* versioncmp, the functions on arrays that compare elements, and          *)
(* deep_merge.  Each has its own idea of when two values are the same.     *)
(***************************************************************************)
EXTENDS Integers, Sequences, FiniteSets, SequencesExt

CONSTANT LongMax        \* what strtol returns for more

-----------------------------------------------------------------------------
(* versioncmp.  A version is a sequence of characters: <<"digit", n>>,     *)
(* <<"letter", n>> with n its place in the alphabet, or <<"other", 0>>.    *)

Alnum(c) == c[1] # "other"

From(s, i) == SubSeq(s, i, Len(s))

\* The first position from which the test fails, or the end.
Run(s, sort) ==
    LET stops == {i \in DOMAIN s : s[i][1] # sort}
    IN  IF stops = {} THEN Len(s) ELSE (CHOOSE i \in stops : \A j \in stops : i <= j) - 1

SkipOther(s) == From(s, Run(s, "other") + 1)

Clamped(n) == IF n > LongMax THEN LongMax ELSE n

\* strtol on the digits that s begins with.
Number(s) == Clamped(FoldLeft(LAMBDA n, c : 10 * n + c[2], 0, SubSeq(s, 1, Run(s, "digit"))))

Sign(x, y) == IF x > y THEN 1 ELSE IF x < y THEN -1 ELSE 0

\* Mutant: only the first letters are compared.
Letters_First(a, b) ==
    [sign |-> Sign(a[1][2], b[1][2]), a |-> From(a, Run(a, "letter") + 1), b |-> From(b, Run(b, "letter") + 1)]

\* The letters that two strings begin with, up to the first difference: how
\* they compare, and where both go on.
Letters(a, b) ==
    LET la   == Run(a, "letter")
        lb   == Run(b, "letter")
        diff == {i \in 1 .. la : i <= lb /\ a[i] # b[i]}
        i    == CHOOSE j \in diff : \A k \in diff : j <= k
    IN  [sign |-> IF diff # {} THEN Sign(a[i][2], b[i][2]) ELSE Sign(la, lb),
         a |-> From(a, la + 1), b |-> From(b, lb + 1)]

AtEnd(a, b) == Sign(Len(SkipOther(a)), 0) - Sign(Len(SkipOther(b)), 0)

RECURSIVE version_segment_cmp(_, _)
version_segment_cmp(x, y) ==
    LET a == SkipOther(x)
        b == SkipOther(y)
        number(s) == s[1][1] = "digit"
        letters == Letters(a, b)
    IN  IF a = <<>> \/ b = <<>> THEN AtEnd(a, b)
        ELSE IF number(a) /\ number(b)
             THEN IF Number(a) # Number(b) THEN Sign(Number(a), Number(b))
                  ELSE version_segment_cmp(From(a, Run(a, "digit") + 1), From(b, Run(b, "digit") + 1))
        ELSE IF number(a) THEN 1
        ELSE IF number(b) THEN -1
        ELSE IF letters.sign # 0 THEN letters.sign
        ELSE version_segment_cmp(letters.a, letters.b)

-----------------------------------------------------------------------------
(* Functions on arrays.  An element is [kind, data].                       *)

Same(kinds, x, y) == x.kind \in kinds /\ x.kind = y.kind /\ x.data = y.data

\* union, intersection, difference and count; member and unique; delete and
\* the operator in.  Arrays and hashes are never the same.
values_equal(x, y) == Same({"undef", "bool", "number", "string"}, x, y)
SameScalar(x, y)   == Same({"bool", "number", "string"}, x, y)
SameText(x, y)     == Same({"number", "string"}, x, y)

Has(s, v, same(_, _)) == \E i \in DOMAIN s : same(s[i], v)

\* The elements of s after those of acc, each if there is none like it yet.
AddNew(acc, s, same(_, _)) ==
    FoldLeft(LAMBDA r, v : IF Has(r, v, same) THEN r ELSE Append(r, v), acc, s)

unique(s) == AddNew(<<>>, s, SameScalar)

difference(a, b) == SelectSeq(a, LAMBDA v : ~Has(b, v, values_equal))

\* Mutant: what is twice in the first stays twice.
union_Half(a, b) == a \o difference(b, a)

union(a, b) == AddNew(AddNew(<<>>, a, values_equal), b, values_equal)

intersection(a, b) ==
    AddNew(<<>>, SelectSeq(a, LAMBDA v : Has(b, v, values_equal)), values_equal)

delete(a, v) == SelectSeq(a, LAMBDA x : ~SameText(x, v))

member(a, v) == Has(a, v, SameScalar)

in(v, a) == Has(a, v, SameText)

concat(a, b) == a \o b

count(a, v) == Cardinality({i \in DOMAIN a : values_equal(a[i], v)})

-----------------------------------------------------------------------------
(* deep_merge.  A hash is a function from keys to [leaf, hash]: a leaf, or *)
(* a hash if the leaf is 0.  A key is [name, dash], where dash tells       *)
(* `max-size' from `max_size'.                                             *)

NoHash == [k \in {} |-> {}]

Other(k) == [k EXCEPT !.dash = ~@]

IsHash(e) == e.leaf = 0

\* Mutant: the spelling of the key counts.
Found_Exact(dest, k) == IF k \in DOMAIN dest THEN {k} ELSE {}

\* The key of dest that stands for k: k itself, or its other spelling.
Found(dest, k) ==
    IF k \in DOMAIN dest THEN {k} ELSE IF Other(k) \in DOMAIN dest THEN {Other(k)} ELSE {}

Put(dest, k, e) == [x \in DOMAIN dest \cup {k} |-> IF x = k THEN e ELSE dest[x]]

\* Entries are taken in the order of the buckets, here any order.
RECURSIVE deep_merge_hash(_, _, _)
deep_merge_hash(dest, src, order) ==
    FoldLeft(LAMBDA d, k :
        IF \E f \in Found(d, k) : IsHash(d[f]) /\ IsHash(src[k])
        THEN LET f == CHOOSE x \in Found(d, k) : TRUE
             IN  Put(d, f, [leaf |-> 0,
                            hash |-> deep_merge_hash(d[f].hash, src[k].hash, order)])
        ELSE Put(d, k, src[k]),
        dest, SelectSeq(order, LAMBDA k : k \in DOMAIN src))

deep_merge(hashes, order) ==
    FoldLeft(LAMBDA d, h : deep_merge_hash(d, h, order), NoHash, hashes)

=============================================================================
