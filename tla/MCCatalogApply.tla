--------------------------- MODULE MCCatalogApply ---------------------------
(***************************************************************************)
(* Catalogs for model checking CatalogApply.                               *)
(***************************************************************************)
EXTENDS CatalogApply

CONSTANTS k1, k2, k3, k4

Rel(kind, owner, ref) == [kind |-> kind, owner |-> owner, ref |-> ref]
Cat(keys, providers, rels) ==
    [form |-> "catalog", keys |-> keys, providers |-> providers, rels |-> rels]

\* The relationships of a catalog on keys <<k1, k2, k3>>.
MetaRels == {Rel(kind, i, k) : kind \in {"require", "before", "notify", "subscribe"},
                               i \in 1..3, k \in {k1, k2, k3}}
LateRels == {Rel(kind, s, t) : kind \in EdgeKinds, s, t \in {k1, k2}}
            \cup {Rel("autorequire", i, k) : i \in 2..3, k \in {k1, k3}}

Pairs(A, B) == {<<a, b>> : a \in A, b \in B}

\* Three resources, every pair of metaparameters and a metaparameter with an
\* edge or a parent directory.
RefreshRels == {rels \in Pairs(MetaRels, MetaRels) \cup Pairs(MetaRels, LateRels) :
                   IsCatalog(Cat(<<k1, k2, k3>>, <<"plain", "plain", "plain">>, rels))}
RefreshProviders == {<<"plain", "refreshable", "ruby">>}

\* A triangle of notifications, a resource without a provider and a dangling
\* reference, a duplicate identity, an entry that does not parse, a catalog
\* over MaxResources, and the two early returns.
SpecialCatalogs ==
    {Cat(<<k1, k2, k3>>, <<"refreshable", "refreshable", "ruby">>,
         <<Rel("notify", 1, k2), Rel("subscribe", 3, k1), Rel("subscribe", 3, k2)>>),
     Cat(<<k1, k2, k3>>, <<"none", "refreshable", "refreshable">>,
         <<Rel("notify", 1, k2), Rel("notify", 2, k4), Rel("subscribe", 3, k2)>>),
     Cat(<<k1, k1, k2>>, <<"plain", "plain", "refreshable">>,
         <<Rel("before", 2, k2), Rel("require", 3, k1)>>),
     Cat(<<NoKey, k2, k3>>, <<"none", "refreshable", "plain">>,
         <<Rel("before", 1, k3), Rel("notify", 3, k2)>>),
     Cat(<<k1, k2, k3, k4, k1>>, <<"plain", "plain", "plain", "plain", "plain">>, <<>>),
     [form |-> "unreadable", keys |-> <<>>, providers |-> <<>>, rels |-> <<>>],
     [form |-> "no_resources", keys |-> <<>>, providers |-> <<>>, rels |-> <<>>]}

RefreshCatalogs ==
    {Cat(<<k1, k2, k3>>, p, rels) : p \in RefreshProviders, rels \in RefreshRels}
        \cup SpecialCatalogs

\* Every dependency table on four entries: entry i requires the keys of the
\* i-th set.  The resources have no provider, so that only the sort branches.
RequireSeq(i, S) ==
    LET ks == <<k1, k2, k3, k4>>
        js == SelectSeq(<<1, 2, 3, 4>>, LAMBDA j : j \in S)
    IN  [n \in 1..Len(js) |-> Rel("require", i, ks[js[n]])]
SortCatalogs ==
    {Cat(<<k1, k2, k3, k4>>, <<"none", "none", "none", "none">>,
         RequireSeq(1, S1) \o RequireSeq(2, S2) \o RequireSeq(3, S3) \o RequireSeq(4, S4)) :
       S1 \in SUBSET {2, 3, 4}, S2 \in SUBSET {1, 3, 4},
       S3 \in SUBSET {1, 2, 4}, S4 \in SUBSET {1, 2, 3}}

AllCatalogs == RefreshCatalogs \cup SortCatalogs
=============================================================================
