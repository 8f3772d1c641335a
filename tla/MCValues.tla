------------------------------ MODULE MCValues ------------------------------
(***************************************************************************)
(* Types of every form the checker knows, nested, and some it does not;    *)
(* all versions of up to four characters; all arrays of up to two elements *)
(* of every kind; and all hashes of two levels over both spellings of one  *)
(* name and another name.                                                  *)
(***************************************************************************)
EXTENDS Values

T(base)       == [base |-> base, args |-> <<>>]
P(base, args) == [base |-> base, args |-> args]
N(n)          == [given |-> TRUE, value |-> n]
Default       == [given |-> FALSE, value |-> 0]

Letter    == P("Pattern", <<"letter">>)
Bracketed == P("Pattern", <<"bracket">>)
Modes     == P("Enum", <<"a", "abc">>)
Port      == P("Integer", <<N(1), N(3)>>)

MCTypes == <<
    T("Any"), T("Integer"), T("NotUndef"), T("Float"), T("Regexp"), T("Numeric"), T("Array"),
    P("String", <<N(1)>>), P("String", <<N(1), N(2)>>), P("String", <<Default, N(2)>>),
    P("Integer", <<N(2)>>), Port, P("Integer", <<Default, N(1)>>), P("Integer", <<N(2), Default>>),
    Modes, P("Pattern", <<"letter", "empty">>), Bracketed,
    P("Optional", <<Modes>>), P("Optional", <<P("Optional", <<Letter>>)>>),
    P("Optional", <<P("Variant", <<Port, P("Enum", <<"b">>), T("Boolean")>>)>>),
    P("Variant", <<Port, Modes>>),
    P("Variant", <<P("Variant", <<T("Undef"), Letter>>), P("Array", <<Port>>), P("Integer", <<N(3)>>)>>),
    P("Variant", <<Bracketed, T("Integer")>>),
    P("Variant", <<P("Enum", [i \in 1 .. 17 |-> "a"]), Port>>),
    P("Variant", <<P("Optional", <<P("String", <<N(2), N(3)>>)>>), T("Hash")>>),
    P("Hash", <<T("String"), Port>>), P("Array", <<Port>>),
    T("Mode"), T("Tree"), T("Unknown"), P("Optional", <<T("Mode")>>),
    P("Optional", <<P("Enum", <<"", "a", "b", "ab", "abc", "a", "b", "ab", "abc">>)>>)>>

MCAliasBody == [Mode |-> P("Variant", <<Modes, Port>>),
                Tree |-> P("Variant", <<T("Boolean"), T("Tree")>>)]

Strings == {"", "a", "b", "ab", "abc"}

MCLengthOf == [s \in Strings |-> CASE s = "" -> 0 [] s \in {"a", "b"} -> 1
                                   [] s = "ab" -> 2 [] OTHER -> 3]
MCMatches  == [letter |-> {"a", "b"}, empty |-> {""}, bracket |-> {"ab"}]
MCBrackets == [letter |-> 0, empty |-> 0, bracket |-> 1]

TypedValue(kind, str, num, whole) == [kind |-> kind, str |-> str, num |-> num, whole |-> whole]

MCTypedValues ==
    {TypedValue(k, "", 0, TRUE) : k \in {"undef", "bool", "array", "hash", "regexp"}}
        \cup {TypedValue("string", s, 0, TRUE) : s \in Strings}
        \cup {TypedValue("number", "", n, TRUE) : n \in 0 .. 4}
        \cup {TypedValue("number", "", 1, FALSE)}

Characters == {<<"digit", 0>>, <<"digit", 7>>, <<"letter", 1>>, <<"letter", 2>>, <<"other", 0>>}

MCVersions == UNION {[1 .. n -> Characters] : n \in 0 .. 4}

MCElements == {[kind |-> "undef", data |-> ""], [kind |-> "bool", data |-> "true"],
               [kind |-> "number", data |-> "1"], [kind |-> "string", data |-> "1"],
               [kind |-> "array", data |-> "[1]"]}

Keys == {[name |-> "max_size", dash |-> FALSE], [name |-> "max_size", dash |-> TRUE],
         [name |-> "user", dash |-> FALSE]}

Leaf(n) == [leaf |-> n, hash |-> NoHash]
Nest(h) == [leaf |-> 0, hash |-> h]

Over(keys, entries) == UNION {[ks -> entries] : ks \in SUBSET keys}

MCHashes == Over(Keys, {Leaf(1)} \cup {Nest(h) : h \in Over({k \in Keys : k.name = "max_size"}, {Leaf(2)})})
                \cup Over(Keys, {Leaf(3)})

MCOrders == {o \in [1 .. 3 -> Keys] : {o[1], o[2], o[3]} = Keys}

=============================================================================
