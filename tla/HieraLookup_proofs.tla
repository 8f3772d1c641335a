------------------------- MODULE HieraLookup_proofs -------------------------
(***************************************************************************)
(* Proofs about HieraLookup, for any nodes, hierarchies, files, lookups    *)
(* and edits, in both modes: every answer is the first match, and a        *)
(* module's data file is seen in one version.                              *)
(***************************************************************************)
EXTENDS HieraLookup, SequenceTheorems, TLAPS

\* What may be left to search.
StageLists == {<<>>, <<"providers">>, <<"variable", "providers">>,
               <<"providers", "variable", "providers">>, <<"module">>, <<"providers", "module">>}

Workers == [at        : {"run", "stage", "parse", "paths", "load", "done"},
            variables : {<<>>} \cup [{"role"} -> Roles],
            request   : Requests \cup {None},
            stages    : StageLists,
            provider  : Nat \ {0},
            level     : Nat \ {0}]

Looking(w) == worker[w].at \in {"stage", "parse", "paths", "load"}

TypeInv ==
    /\ site \in Sites
    /\ edits \in 0 .. MaxEdits /\ requests \in 0 .. MaxRequests
    /\ worker \in [Ws -> Workers]
    /\ \A w \in Ws : /\ worker[w].provider \in DOMAIN Providers(site)
                     /\ Looking(w) => worker[w].request \in Requests
                     /\ worker[w].at \in {"parse", "paths", "load"} =>
                           worker[w].stages = <<"module">>

\* The caches of module data: filled under the mutex, with what hiera.yaml says
\* and what the files held, and what was handed out is what is in them.
MutexInv == \A w \in Ws : worker[w].at \in {"parse", "load"} <=> mutex = w

ConfigsInv ==
    /\ \A m \in DOMAIN configs : configs[m] = module_hiera_parse_config(site, m)
    /\ \A w \in Ws : worker[w].at \in {"paths", "load"} => Key(w).module \in DOMAIN configs

HandedInv ==
    /\ \A x \in handed : /\ x = [path |-> x.path, data |-> x.data]
                         /\ x.path \in DOMAIN loaded /\ x.data = loaded[x.path]
    /\ \A w \in Ws : worker[w].at = "load" =>
          Path(w) \notin DOMAIN loaded /\ worker[w].level <= Len(Levels(w))

LoaderInv == MutexInv /\ ConfigsInv /\ HandedInv

\* As long as no file was edited, the files and what was loaded of them are the site's.
FilesInv ==
    edits = 0 =>
        /\ files = site.files
        /\ \A p \in DOMAIN loaded : loaded[p] = IF p \in DOMAIN files THEN files[p] ELSE None

\* What the stages find, and what those that are left find.
From(stage, c) ==
    CASE stage = "providers" -> FromProviders(c)
      [] stage = "variable"  -> FromVariable(c)
      [] stage = "module"    -> FromModule(c)

Rest(stages, c) ==
    CASE stages = <<>> -> None
      [] stages = <<"providers">> -> FromProviders(c)
      [] stages = <<"variable", "providers">> -> Or(FromVariable(c), FromProviders(c))
      [] stages = <<"providers", "variable", "providers">> ->
            Or(FromProviders(c), Or(FromVariable(c), FromProviders(c)))
      [] stages = <<"module">> -> FromModule(c)
      [] stages = <<"providers", "module">> -> Or(FromProviders(c), FromModule(c))

\* A level that has the key.
ProviderHit(c, p, l) ==
    Holds(site.files, puppet_hiera_interpolate(Providers(site)[p][l], c), c.key)

ModuleHit(c, l) ==
    Holds(site.files,
          module_hiera_interpolate_path(module_hiera_parse_config(site, c.key.module)[l], c),
          c.key)

NoneBefore(c, provider, level) ==
    \A p \in DOMAIN Providers(site) : \A l \in DOMAIN Providers(site)[p] :
        p < provider \/ (p = provider /\ l < level) => ~ ProviderHit(c, p, l)

NoneAbove(c, level) ==
    \A l \in DOMAIN module_hiera_parse_config(site, c.key.module) :
        l < level => ~ ModuleHit(c, l)

\* A lookup that is under way has found nothing so far, and what is left of it is
\* all that it has to find.
Searched(w) ==
    /\ Expected(Context(w)) = Rest(worker[w].stages, Context(w))
    /\ InStage(w, "providers") => NoneBefore(Context(w), worker[w].provider, worker[w].level)
    /\ InStage(w, "module") \/ worker[w].at = "parse" => worker[w].level = 1
    /\ worker[w].at \in {"paths", "load"} => NoneAbove(Context(w), worker[w].level)

SearchInv == edits = 0 => \A w \in Ws : Looking(w) => Searched(w)

\* What is cached is what an earlier lookup of the key found for its own node.
CacheInv ==
    /\ DOMAIN cache = DOMAIN Providers(site)
    /\ mode = "parallel" => \A p \in DOMAIN cache : cache[p] = <<>>
    /\ edits = 0 => \A p \in DOMAIN cache : \A k \in DOMAIN cache[p] :
                       /\ cache[p][k] # None
                       /\ \E j \in DOMAIN answers : /\ answers[j].context.key = k
                                                    /\ cache[p][k] = FromProviders(answers[j].context)

Explained(i) ==
    \/ answers[i].value = Expected(answers[i].context)
    \/ /\ mode # "parallel" /\ answers[i].value # None
       /\ \E j \in 1 .. i - 1 : /\ answers[j].context.key = answers[i].context.key
                                /\ answers[i].value = FromProviders(answers[j].context)

AnswersInv ==
    /\ answers \in Seq({answers[i] : i \in DOMAIN answers})
    /\ edits = 0 => \A i \in DOMAIN answers : Explained(i)

IndInv ==
    /\ TypeInv /\ LoaderInv /\ FilesInv
    /\ SearchInv /\ CacheInv /\ AnswersInv
-----------------------------------------------------------------------------
(* The hierarchies, and the first match in them.                           *)

LEMMA ProvidersAreLists ==
    ASSUME TypeInv
    PROVE  /\ IsList(Providers(site)) /\ 1 \in DOMAIN Providers(site)
           /\ \A p \in DOMAIN Providers(site) : p \in Int /\ IsList(Providers(site)[p])
<1> DEFINE own == puppet_hiera_config_create_default("data")
           D == puppet_hiera_data_provider_init(site.datadir, site.hiera)
           H == puppet_hiera_config_create(site.hiera)
<1>1. Providers(site) \in {<<own>> \o <<D>>, <<own>> \o <<H>>, <<own>> \o <<>>}
  BY DEF Providers
<1> HIDE DEF own, D, H
<1>2. IsList(Providers(site)) /\ 1 \in DOMAIN Providers(site)
  <2>1. \A x, y : IsList(<<x>> \o <<y>>) /\ 1 \in DOMAIN (<<x>> \o <<y>>)
    BY DEF IsList
  <2>2. \A x : IsList(<<x>> \o <<>>) /\ 1 \in DOMAIN (<<x>> \o <<>>)
    BY DEF IsList
  <2> QED
    BY <1>1, <2>1, <2>2
<1>3. \A p \in DOMAIN Providers(site) : p \in Int
  BY <1>2 DEF IsList
<1> QED
  BY <1>2, <1>3, HierarchiesAssumption DEF TypeInv

\* The best of the hits is the one that has no other before it.
LEMMA FirstIsLeast ==
    ASSUME NEW hits, NEW p \in Int, NEW l \in Int, <<p, l>> \in hits,
           \A y \in hits : y = <<y[1], y[2]>> /\ y[1] \in Int /\ y[2] \in Int,
           \A y \in hits : ~ (y[1] < p \/ (y[1] = p /\ y[2] < l))
    PROVE  First(hits) = <<p, l>>
<1> DEFINE Least(x) == \A y \in hits : x[1] < y[1] \/ (x[1] = y[1] /\ x[2] <= y[2])
<1>1. <<p, l>>[1] = p /\ <<p, l>>[2] = l
  OBVIOUS
<1>2. Least(<<p, l>>)
  BY <1>1
<1>3. ASSUME NEW x \in hits, Least(x) PROVE x = <<p, l>>
  <2>1. x[1] < p \/ (x[1] = p /\ x[2] <= l)
    BY <1>1, <1>3
  <2>2. x[1] = p /\ x[2] = l
    BY <2>1
  <2> QED
    BY <2>2
<1>4. First(hits) = CHOOSE x \in hits : Least(x)
  BY DEF First
<1> HIDE DEF Least
<1> QED
  BY <1>2, <1>3, <1>4

LEMMA ProvidersHit ==
    ASSUME TypeInv, NEW c, NEW p \in DOMAIN Providers(site), NEW l \in DOMAIN Providers(site)[p],
           ProviderHit(c, p, l), NoneBefore(c, p, l)
    PROVE  FromProviders(c) = Value(site.files, puppet_hiera_interpolate(Providers(site)[p][l], c))
<1> DEFINE all == UNION {{q} \X DOMAIN Providers(site)[q] : q \in DOMAIN Providers(site)}
           hits == {x \in all :
                      Holds(site.files, puppet_hiera_interpolate(Providers(site)[x[1]][x[2]], c), c.key)}
<1>1. \A x \in all : /\ x[1] \in DOMAIN Providers(site) /\ x[2] \in DOMAIN Providers(site)[x[1]]
                     /\ x = <<x[1], x[2]>>
  OBVIOUS
<1>2. <<p, l>> \in all
  OBVIOUS
<1> HIDE DEF all
<1>3. /\ <<p, l>> \in hits
      /\ \A x \in hits : x \in all /\ ProviderHit(c, x[1], x[2])
  BY <1>2 DEF ProviderHit
<1>4. /\ \A q \in DOMAIN Providers(site) : q \in Int
      /\ \A q \in DOMAIN Providers(site) : \A k \in DOMAIN Providers(site)[q] : k \in Int
  BY ProvidersAreLists DEF IsList
<1>5. FromProviders(c) =
        IF hits = {} THEN None
        ELSE Value(site.files,
                   puppet_hiera_interpolate(Providers(site)[First(hits)[1]][First(hits)[2]], c))
  BY DEF FromProviders, FromHierarchies, all
<1> HIDE DEF hits
<1>6. First(hits) = <<p, l>>
  <2>1. \A y \in hits : y = <<y[1], y[2]>> /\ y[1] \in Int /\ y[2] \in Int
    BY <1>1, <1>3, <1>4
  <2>2. \A y \in hits : ~ (y[1] < p \/ (y[1] = p /\ y[2] < l))
    BY <1>1, <1>3 DEF NoneBefore
  <2> QED
    BY <1>3, <1>4, <2>1, <2>2, FirstIsLeast
<1> QED
  BY <1>3, <1>5, <1>6

LEMMA ProvidersMiss ==
    ASSUME NEW c, \A p \in DOMAIN Providers(site) : \A l \in DOMAIN Providers(site)[p] :
                     ~ ProviderHit(c, p, l)
    PROVE  FromProviders(c) = None
<1> DEFINE all == UNION {{q} \X DOMAIN Providers(site)[q] : q \in DOMAIN Providers(site)}
           hits == {x \in all :
                      Holds(site.files, puppet_hiera_interpolate(Providers(site)[x[1]][x[2]], c), c.key)}
<1>1. \A x \in all : x[1] \in DOMAIN Providers(site) /\ x[2] \in DOMAIN Providers(site)[x[1]]
  OBVIOUS
<1> HIDE DEF all
<1>2. hits = {}
  BY <1>1 DEF ProviderHit
<1>3. FromProviders(c) =
        IF hits = {} THEN None
        ELSE Value(site.files,
                   puppet_hiera_interpolate(Providers(site)[First(hits)[1]][First(hits)[2]], c))
  BY DEF FromProviders, FromHierarchies, all
<1> HIDE DEF hits
<1> QED
  BY <1>2, <1>3

LEMMA ModuleIsList ==
    ASSUME TypeInv, NEW request \in Requests
    PROVE  IsList(module_hiera_parse_config(site, request.key.module))
  BY HierarchiesAssumption DEF TypeInv

LEMMA ModuleHits ==
    ASSUME NEW c, IsList(module_hiera_parse_config(site, c.key.module)),
           NEW l \in DOMAIN module_hiera_parse_config(site, c.key.module),
           ModuleHit(c, l), NoneAbove(c, l)
    PROVE  FromModule(c) =
              Value(site.files, module_hiera_interpolate_path(
                                   module_hiera_parse_config(site, c.key.module)[l], c))
<1> DEFINE levels == module_hiera_parse_config(site, c.key.module)
           all == UNION {{q} \X DOMAIN <<levels>>[q] : q \in DOMAIN <<levels>>}
           hits == {x \in all :
                      Holds(site.files, module_hiera_interpolate_path(<<levels>>[x[1]][x[2]], c), c.key)}
<1>1. /\ DOMAIN <<levels>> = {1} /\ <<levels>>[1] = levels
      /\ \A k \in DOMAIN levels : k \in Int
  BY DEF IsList
<1>2. FromModule(c) =
        IF hits = {} THEN None
        ELSE Value(site.files,
                   module_hiera_interpolate_path(<<levels>>[First(hits)[1]][First(hits)[2]], c))
  BY DEF FromModule, FromHierarchies
<1> HIDE DEF levels
<1>3. \A x \in all : x[1] = 1 /\ x[2] \in DOMAIN levels /\ x = <<x[1], x[2]>>
  BY <1>1
<1>4. <<1, l>> \in all
  BY <1>1 DEF levels
<1> HIDE DEF all
<1>5. /\ <<1, l>> \in hits
      /\ \A x \in hits : x \in all /\ ModuleHit(c, x[2])
  BY <1>1, <1>3, <1>4 DEF ModuleHit, levels
<1> HIDE DEF hits
<1>6. First(hits) = <<1, l>>
  <2>1. \A y \in hits : y = <<y[1], y[2]>> /\ y[1] \in Int /\ y[2] \in Int
    BY <1>1, <1>3, <1>5
  <2>2. \A y \in hits : ~ (y[1] < 1 \/ (y[1] = 1 /\ y[2] < l))
    BY <1>3, <1>5 DEF NoneAbove, levels
  <2>3. l \in Int
    BY <1>1 DEF levels
  <2> QED
    BY <1>5, <2>1, <2>2, <2>3, FirstIsLeast
<1> QED
  BY <1>1, <1>2, <1>5, <1>6 DEF levels

LEMMA ModuleMiss ==
    ASSUME NEW c, \A l \in DOMAIN module_hiera_parse_config(site, c.key.module) : ~ ModuleHit(c, l)
    PROVE  FromModule(c) = None
<1> DEFINE levels == module_hiera_parse_config(site, c.key.module)
           all == UNION {{q} \X DOMAIN <<levels>>[q] : q \in DOMAIN <<levels>>}
           hits == {x \in all :
                      Holds(site.files, module_hiera_interpolate_path(<<levels>>[x[1]][x[2]], c), c.key)}
<1>1. FromModule(c) =
        IF hits = {} THEN None
        ELSE Value(site.files,
                   module_hiera_interpolate_path(<<levels>>[First(hits)[1]][First(hits)[2]], c))
  BY DEF FromModule, FromHierarchies
<1>2. DOMAIN <<levels>> = {1} /\ <<levels>>[1] = levels
  OBVIOUS
<1>3. \A l \in DOMAIN levels : ~ ModuleHit(c, l)
  OBVIOUS
<1>4. \A l \in DOMAIN levels :
         ~ Holds(site.files, module_hiera_interpolate_path(levels[l], c), c.key)
  BY <1>3 DEF ModuleHit
<1> HIDE DEF levels
<1>5. \A x \in all : x[1] = 1 /\ x[2] \in DOMAIN levels
  BY <1>2
<1> HIDE DEF all
<1>6. hits = {}
  BY <1>2, <1>4, <1>5
<1> HIDE DEF hits
<1> QED
  BY <1>1, <1>6

\* What is found at the head of the stages is what they find, and when nothing
\* is, the tail finds it.
LEMMA StageSteps ==
    ASSUME NEW stages \in StageLists, stages # <<>>, NEW c
    PROVE  /\ Head(stages) \in {"providers", "variable", "module"}
           /\ Tail(stages) \in StageLists
           /\ Rest(stages, c) = Or(From(Head(stages), c), Rest(Tail(stages), c))
           /\ Head(stages) = "module" => stages = <<"module">>
<1>1. CASE stages = <<"providers">>
  <2>1. Head(stages) = "providers" /\ Tail(stages) = <<>>
    BY <1>1
  <2> QED
    BY <1>1, <2>1 DEF Rest, From, Or, StageLists
<1>2. CASE stages = <<"variable", "providers">>
  <2>1. Head(stages) = "variable" /\ Tail(stages) = <<"providers">>
    BY <1>2
  <2> QED
    BY <1>2, <2>1 DEF Rest, From, Or, StageLists
<1>3. CASE stages = <<"providers", "variable", "providers">>
  <2>1. Head(stages) = "providers" /\ Tail(stages) = <<"variable", "providers">>
    BY <1>3
  <2> QED
    BY <1>3, <2>1 DEF Rest, From, Or, StageLists
<1>4. CASE stages = <<"module">>
  <2>1. Head(stages) = "module" /\ Tail(stages) = <<>>
    BY <1>4
  <2> QED
    BY <1>4, <2>1 DEF Rest, From, Or, StageLists
<1>5. CASE stages = <<"providers", "module">>
  <2>1. Head(stages) = "providers" /\ Tail(stages) = <<"module">>
    BY <1>5
  <2> QED
    BY <1>5, <2>1 DEF Rest, From, Or, StageLists
<1> QED
  BY <1>1, <1>2, <1>3, <1>4, <1>5 DEF StageLists

\* The stages of a kind of lookup find what it comes to.
LEMMA StagesOfKind ==
    ASSUME NEW c, c.kind \in {"lookup", "hiera", "variable", "apl"}
    PROVE  /\ Stages(c.kind) \in StageLists /\ Stages(c.kind) # <<>>
           /\ Stages(c.kind) # <<"module">>
           /\ Expected(c) = Rest(Stages(c.kind), c)
<1>1. CASE c.kind = "lookup"
  BY <1>1 DEF Stages, StageLists, Expected, Rest, Or
<1>2. CASE c.kind = "hiera"
  BY <1>2 DEF Stages, StageLists, Expected, Rest, Or
<1>3. CASE c.kind = "variable"
  BY <1>3 DEF Stages, StageLists, Expected, Rest, Or
<1>4. CASE c.kind = "apl"
  BY <1>4 DEF Stages, StageLists, Expected, Rest, Or
<1> QED
  BY <1>1, <1>2, <1>3, <1>4
-----------------------------------------------------------------------------
(* What a step leaves as it was.                                           *)

LEMMA SameSite ==
    ASSUME site' = site
    PROVE  \A c : /\ FromProviders(c)' = FromProviders(c)
                  /\ Expected(c)' = Expected(c)
                  /\ \A stages : Rest(stages, c)' = Rest(stages, c)
                  /\ \A p, l : NoneBefore(c, p, l) => NoneBefore(c, p, l)'
                  /\ \A l : NoneAbove(c, l) => NoneAbove(c, l)'
<1>1. \A c : FromProviders(c)' = FromProviders(c)
  BY DEF FromProviders, FromHierarchies
<1>2. \A c : FromModule(c)' = FromModule(c)
  BY DEF FromModule, FromHierarchies
<1>3. \A c : FromVariable(c)' = FromVariable(c)
  BY DEF FromVariable
<1>4. \A c : Expected(c)' = Expected(c)
  BY <1>1, <1>2, <1>3 DEF Expected, Or
<1>5. \A c, stages : Rest(stages, c)' = Rest(stages, c)
  BY <1>1, <1>2, <1>3 DEF Rest, Or
<1>6. \A c, p, l : NoneBefore(c, p, l) => NoneBefore(c, p, l)'
  BY DEF NoneBefore, ProviderHit
<1>7. \A c, l : NoneAbove(c, l) => NoneAbove(c, l)'
  BY DEF NoneAbove, ModuleHit
<1> QED
  BY <1>1, <1>4, <1>5, <1>6, <1>7

\* The step of one worker.
Others(w) == \A v \in Ws : v # w => worker'[v] = worker[v]

LEMMA WorkerStep ==
    ASSUME TypeInv, NEW w \in Ws, NEW state \in Workers, Continue(w, state),
           site' = site, edits' = edits, requests' \in 0 .. MaxRequests,
           state.provider \in DOMAIN Providers(site),
           state.at \in {"stage", "parse", "paths", "load"} => state.request \in Requests,
           state.at \in {"parse", "paths", "load"} => state.stages = <<"module">>
    PROVE  TypeInv' /\ worker'[w] = state /\ Others(w)
<1>1. worker \in [Ws -> Workers] /\ worker' = [worker EXCEPT ![w] = state]
  BY DEF TypeInv, Continue
<1>2. worker' \in [Ws -> Workers] /\ worker'[w] = state /\ Others(w)
  BY <1>1 DEF Others
<1>3. \A v \in Ws : \/ v = w /\ worker'[v] = state
                    \/ worker'[v] = worker[v]
  BY <1>2 DEF Others
<1>4. \A v \in Ws : /\ worker'[v].provider \in DOMAIN Providers(site)
                    /\ worker'[v].at \in {"stage", "parse", "paths", "load"} =>
                          worker'[v].request \in Requests
                    /\ worker'[v].at \in {"parse", "paths", "load"} =>
                          worker'[v].stages = <<"module">>
  BY <1>3 DEF TypeInv, Looking
<1> QED
  BY <1>2, <1>4 DEF TypeInv, Looking

\* What is known of a worker that is somewhere else.
LEMMA SameWorker ==
    ASSUME site' = site, NEW v, worker'[v] = worker[v]
    PROVE  /\ Context(v)' = Context(v) /\ Key(v)' = Key(v) /\ Looking(v)' = Looking(v)
           /\ Searched(v) => Searched(v)'
<1>1. /\ Context(v)' = Context(v) /\ Key(v)' = Key(v) /\ Looking(v)' = Looking(v)
      /\ \A stage : InStage(v, stage)' = InStage(v, stage)
  BY DEF Context, Key, Looking, InStage, Stage
<1>2. ASSUME Searched(v) PROVE Searched(v)'
  <2>1. Expected(Context(v))' = Rest(worker[v].stages, Context(v))'
    BY <1>1, <1>2, SameSite DEF Searched
  <2>2. InStage(v, "providers")' => NoneBefore(Context(v), worker[v].provider, worker[v].level)'
    BY <1>1, <1>2, SameSite DEF Searched
  <2>3. InStage(v, "module")' \/ worker'[v].at = "parse" => worker'[v].level = 1
    BY <1>1, <1>2 DEF Searched
  <2>4. worker'[v].at \in {"paths", "load"} => NoneAbove(Context(v), worker[v].level)'
    BY <1>1, <1>2, SameSite DEF Searched
  <2> QED
    BY <2>1, <2>2, <2>3, <2>4 DEF Searched
<1> QED
  BY <1>1, <1>2

LEMMA SearchFrame ==
    ASSUME SearchInv, site' = site, edits' = edits, NEW w \in Ws, Others(w),
           edits = 0 /\ Looking(w)' => Searched(w)'
    PROVE  SearchInv'
<1> SUFFICES ASSUME edits = 0, NEW v \in Ws, Looking(v)' PROVE Searched(v)'
  BY DEF SearchInv
<1>1. CASE v = w
  BY <1>1
<1>2. CASE v # w
  <2>1. worker'[v] = worker[v]
    BY <1>2 DEF Others
  <2> QED
    BY <2>1, SameWorker DEF SearchInv
<1> QED
  BY <1>1, <1>2

\* Workers that are not in the caches of module data leave them alone.
LEMMA LoaderFrame ==
    ASSUME LoaderInv, UNCHANGED <<site, loader>>, NEW w \in Ws, Others(w),
           worker[w].at \notin {"parse", "load"}, worker'[w].at \notin {"parse", "paths", "load"}
    PROVE  LoaderInv'
<1>1. configs' = configs /\ loaded' = loaded /\ mutex' = mutex /\ handed' = handed
  BY DEF loader
<1>2. \A v \in Ws : worker'[v] = worker[v] \/ v = w
  BY DEF Others
<1>3. MutexInv'
  BY <1>1, <1>2 DEF LoaderInv, MutexInv
<1>4. ConfigsInv'
  <2>1. \A v \in Ws : worker'[v].at \in {"paths", "load"} => Key(v)'.module \in DOMAIN configs
    BY <1>2, SameWorker DEF LoaderInv, ConfigsInv
  <2> QED
    BY <1>1, <2>1 DEF LoaderInv, ConfigsInv
<1>5. HandedInv'
  <2>1. ASSUME NEW v \in Ws, worker'[v].at = "load"
        PROVE  Path(v)' \notin DOMAIN loaded /\ worker'[v].level <= Len(Levels(v)')
    <3>1. worker'[v] = worker[v]
      BY <1>2, <2>1
    <3>2. Levels(v)' = Levels(v) /\ Path(v)' = Path(v)
      BY <1>1, <3>1, SameWorker DEF Path, Levels
    <3> QED
      BY <2>1, <3>1, <3>2 DEF LoaderInv, HandedInv
  <2> QED
    BY <1>1, <2>1 DEF LoaderInv, HandedInv
<1> QED
  BY <1>3, <1>4, <1>5 DEF LoaderInv

\* A step of a lookup outside the module's data.
LEMMA LookupStep ==
    ASSUME IndInv, NEW w \in Ws, NEW state \in Workers, Continue(w, state),
           UNCHANGED <<input, loader>>, requests' \in 0 .. MaxRequests,
           worker[w].at \notin {"parse", "load"},
           state.at \in {"run", "stage", "done"}, state.provider \in DOMAIN Providers(site),
           state.at = "stage" => state.request \in Requests,
           CacheInv', AnswersInv',
           edits = 0 /\ state.at = "stage" => Searched(w)'
    PROVE  IndInv'
<1>1. site' = site /\ edits' = edits /\ files' = files /\ loaded' = loaded
  BY DEF input, loader
<1>2. TypeInv' /\ worker'[w] = state /\ Others(w)
  BY <1>1, WorkerStep DEF IndInv
<1>3. LoaderInv'
  BY <1>1, <1>2, LoaderFrame DEF IndInv
<1>4. FilesInv'
  BY <1>1 DEF IndInv, FilesInv
<1>5. SearchInv'
  <2>1. Looking(w)' => state.at = "stage"
    BY <1>2 DEF Looking
  <2> QED
    BY <1>1, <1>2, <2>1, SearchFrame DEF IndInv
<1> QED
  BY <1>2, <1>3, <1>4, <1>5 DEF IndInv

\* The answers and the caches of the providers, while there is no answer and
\* when there is one.
LEMMA Unanswered ==
    ASSUME IndInv, UNCHANGED <<input, cache, answers>>
    PROVE  CacheInv' /\ AnswersInv'
<1>1. site' = site /\ edits' = edits /\ mode' = mode
  BY DEF input
<1>2. CacheInv'
  BY <1>1, SameSite DEF IndInv, CacheInv
<1>3. \A i : Explained(i) => Explained(i)'
  BY <1>1, SameSite DEF Explained
<1>4. AnswersInv'
  BY <1>1, <1>3 DEF IndInv, AnswersInv
<1> QED
  BY <1>2, <1>4

\* What an answer has to be, in the state that gives it.
Right(c, value) ==
    \/ value = Expected(c)
    \/ /\ mode # "parallel" /\ value # None
       /\ \E j \in DOMAIN answers : /\ answers[j].context.key = c.key
                                    /\ value = FromProviders(answers[j].context)

LEMMA Answered ==
    ASSUME IndInv, UNCHANGED input, NEW c, NEW value,
           answers' = Append(answers, [context |-> c, value |-> value]),
           edits = 0 => Right(c, value)
    PROVE  /\ AnswersInv'
           /\ \A j \in DOMAIN answers : j \in DOMAIN answers' /\ answers'[j] = answers[j]
           /\ \E j \in DOMAIN answers' : answers'[j].context = c /\ answers'[j].value = value
<1>1. site' = site /\ edits' = edits /\ mode' = mode
  BY DEF input
<1> DEFINE new == [context |-> c, value |-> value]
           all == {answers[i] : i \in DOMAIN answers} \cup {new}
<1>2. answers \in Seq(all) /\ new \in all
  BY DEF IndInv, AnswersInv
<1>3. new.context = c /\ new.value = value /\ answers' = Append(answers, new)
  OBVIOUS
<1> HIDE DEF new, all
<1>4. /\ Len(answers) \in Nat /\ DOMAIN answers = 1 .. Len(answers)
      /\ answers' \in Seq(all) /\ DOMAIN answers' = 1 .. (Len(answers) + 1)
      /\ Len(answers') = Len(answers) + 1
      /\ \A j \in DOMAIN answers : answers'[j] = answers[j]
      /\ answers'[Len(answers) + 1] = new
  BY <1>2, <1>3
<1>5. answers' \in Seq({answers'[i] : i \in DOMAIN answers'})
  <2>1. \A i \in 1 .. Len(answers') : answers'[i] \in {answers'[j] : j \in DOMAIN answers'}
    BY <1>4
  <2>2. Len(answers') \in Nat /\ answers' = [i \in 1 .. Len(answers') |-> answers'[i]]
    BY <1>4
  <2> DEFINE S == {answers'[i] : i \in DOMAIN answers'}
  <2> HIDE DEF S
  <2>3. answers' \in [1 .. Len(answers') -> S]
    BY <2>1, <2>2 DEF S
  <2> DEFINE n == Len(answers')
  <2>4. n \in Nat /\ answers' \in [1 .. n -> S]
    BY <2>2, <2>3
  <2> HIDE DEF n
  <2>5. answers' \in Seq(S)
    BY <2>4, SeqDef
  <2> QED
    BY <2>5 DEF S
<1>6. ASSUME edits = 0, NEW i \in DOMAIN answers' PROVE Explained(i)'
  <2>1. CASE i \in DOMAIN answers
    <3>1. Explained(i) /\ \A j \in 1 .. i - 1 : j \in DOMAIN answers
      BY <1>4, <1>6, <2>1 DEF IndInv, AnswersInv
    <3> QED
      BY <1>1, <1>4, <2>1, <3>1, SameSite DEF Explained
  <2>2. CASE i = Len(answers) + 1
    <3>1. answers'[i] = new /\ Right(c, value) /\ \A j \in DOMAIN answers : j \in 1 .. i - 1
      BY <1>4, <1>6, <2>2
    <3> QED
      BY <1>1, <1>3, <1>4, <3>1, SameSite DEF Explained, Right
  <2> QED
    BY <1>4, <2>1, <2>2
<1>7. AnswersInv'
  BY <1>1, <1>5, <1>6 DEF AnswersInv
<1> QED
  BY <1>3, <1>4, <1>7

\* A cache that is left as it was stays explained when an answer is added.
LEMMA CacheFrame ==
    ASSUME CacheInv, UNCHANGED <<input, cache>>,
           \A j \in DOMAIN answers : j \in DOMAIN answers' /\ answers'[j] = answers[j]
    PROVE  CacheInv'
<1>1. site' = site /\ edits' = edits /\ mode' = mode
  BY DEF input
<1> QED
  BY <1>1, SameSite DEF CacheInv
-----------------------------------------------------------------------------
(* The lookups.                                                            *)

LEMMA Lookups ==
    ASSUME TypeInv, NEW w \in Ws
    PROVE  /\ worker[w] \in Workers /\ worker[w].provider \in DOMAIN Providers(site)
           /\ \A state : Continue(w, state) => worker'[w] = state
           /\ Context(w).key = Key(w)
           /\ Looking(w) => /\ worker[w].request \in Requests
                            /\ Context(w).kind \in {"lookup", "hiera", "variable", "apl"}
<1>1. worker[w] \in Workers /\ \A state : Continue(w, state) => worker'[w] = state
  BY DEF TypeInv, Continue
<1>2. Looking(w) => worker[w].request \in Requests
  BY DEF TypeInv
<1>3. Looking(w) => Context(w).kind \in {"lookup", "hiera", "variable", "apl"}
  BY <1>2, RequestsAssumption DEF Context
<1>4. worker[w].provider \in DOMAIN Providers(site)
  BY DEF TypeInv
<1> QED
  BY <1>1, <1>2, <1>3, <1>4 DEF Context, Key

LEMMA AssignVariableStep ==
    ASSUME IndInv, NEW w \in Ws, AssignVariable(w)
    PROVE  IndInv'
<1>1. PICK role \in Roles :
         Continue(w, [worker[w] EXCEPT !.variables = [r \in {"role"} |-> role]])
  BY DEF AssignVariable
<1> DEFINE given == [r \in {"role"} |-> role]
           state == [worker[w] EXCEPT !.variables = given]
<1>2. /\ worker[w].at = "run" /\ UNCHANGED <<input, requests, cache, loader, answers>>
  BY DEF AssignVariable, Running
<1>3. given \in [{"role"} -> Roles]
  OBVIOUS
<1> HIDE DEF given
<1>4. state \in Workers /\ state.at = "run" /\ state.provider = worker[w].provider
  BY <1>2, <1>3, Lookups DEF IndInv, Workers
<1>5. requests' \in 0 .. MaxRequests
  BY <1>2 DEF IndInv, TypeInv
<1>6. CacheInv' /\ AnswersInv'
  BY <1>2, Unanswered
<1>7. Continue(w, state) /\ state.provider \in DOMAIN Providers(site)
  BY <1>1, <1>4, Lookups DEF IndInv, given
<1> HIDE DEF state
<1> QED
  BY <1>2, <1>4, <1>5, <1>6, <1>7, LookupStep

LEMMA EndNodeStep ==
    ASSUME IndInv, NEW w \in Ws, EndNode(w)
    PROVE  IndInv'
<1> DEFINE state == [worker[w] EXCEPT !.at = "done"]
<1>1. /\ worker[w].at = "run" /\ UNCHANGED <<input, requests, cache, loader, answers>>
      /\ Continue(w, state)
  BY DEF EndNode, Running
<1>2. state \in Workers /\ state.at = "done" /\ state.provider \in DOMAIN Providers(site)
  BY Lookups DEF IndInv, Workers
<1>3. requests' \in 0 .. MaxRequests
  BY <1>1 DEF IndInv, TypeInv
<1>4. CacheInv' /\ AnswersInv'
  BY <1>1, Unanswered
<1> HIDE DEF state
<1> QED
  BY <1>1, <1>2, <1>3, <1>4, LookupStep

\* No level comes before the first one of the first provider.
LEMMA NoneBeforeFirst ==
    ASSUME TypeInv
    PROVE  \A c : NoneBefore(c, 1, 1)
<1>1. \A p \in DOMAIN Providers(site) : p \in Int /\ 1 <= p
  BY ProvidersAreLists DEF IsList
<1>2. \A p \in DOMAIN Providers(site) : \A l \in DOMAIN Providers(site)[p] : l \in Int /\ 1 <= l
  BY ProvidersAreLists DEF IsList
<1> QED
  BY <1>1, <1>2 DEF NoneBefore

LEMMA AskStep ==
    ASSUME IndInv, NEW w \in Ws, Ask(w)
    PROVE  IndInv'
<1>1. PICK request \in Requests :
         Continue(w, [worker[w] EXCEPT !.at = "stage", !.request = request, !.provider = 1,
                                       !.level = 1, !.stages = Stages(request.kind)])
  BY DEF Ask
<1> DEFINE state == [worker[w] EXCEPT !.at = "stage", !.request = request, !.provider = 1,
                                      !.level = 1, !.stages = Stages(request.kind)]
<1>2. /\ worker[w].at = "run" /\ requests < MaxRequests /\ requests' = requests + 1
      /\ UNCHANGED <<input, cache, loader, answers>>
  BY DEF Ask, Running
<1>3. /\ Stages(request.kind) \in StageLists /\ Stages(request.kind) # <<>>
      /\ Stages(request.kind) # <<"module">>
  <2>1. \A k \in {"lookup", "hiera", "variable", "apl"} :
           /\ Stages(k) \in StageLists /\ Stages(k) # <<>> /\ Stages(k) # <<"module">>
    BY DEF Stages, StageLists
  <2> QED
    BY <2>1, RequestsAssumption
<1>4. /\ state \in Workers /\ state.at = "stage" /\ state.provider = 1 /\ state.level = 1
      /\ state.request = request /\ state.stages = Stages(request.kind)
  <2> DEFINE first == Stages(request.kind)
  <2> HIDE DEF first
  <2>1. worker[w] \in Workers /\ first \in StageLists
    BY <1>3, Lookups DEF IndInv, first
  <2>2. \A n \in Nat \ {0} :
           LET s == [worker[w] EXCEPT !.at = "stage", !.request = request, !.provider = n,
                                      !.level = n, !.stages = first]
           IN  /\ s \in Workers /\ s.at = "stage" /\ s.provider = n /\ s.level = n
               /\ s.request = request /\ s.stages = first
    BY <2>1 DEF Workers
  <2>3. 1 \in Nat \ {0}
    OBVIOUS
  <2> QED
    BY <2>2, <2>3 DEF first
<1>5. requests' \in 0 .. MaxRequests
  BY <1>2, BoundsAssumption DEF IndInv, TypeInv
<1>6. CacheInv' /\ AnswersInv'
  BY <1>2, Unanswered
<1>7. /\ Continue(w, state) /\ state.provider \in DOMAIN Providers(site)
      /\ worker'[w] = state
  BY <1>1, <1>4, ProvidersAreLists, Lookups DEF IndInv
<1> HIDE DEF state
<1>8. Searched(w)'
  <2>1. site' = site
    BY <1>2 DEF input
  <2> DEFINE c == Context(w)'
  <2>2. c.kind = request.kind
    BY <1>4, <1>7 DEF Context
  <2>3. Expected(c) = Rest(Stages(request.kind), c)
    <3> HIDE DEF c
    <3> QED
      BY <2>2, StagesOfKind, RequestsAssumption
  <2>4. NoneBefore(c, 1, 1)
    BY NoneBeforeFirst DEF IndInv
  <2>5. Expected(Context(w))' = Rest(worker[w].stages, Context(w))'
    BY <1>4, <1>7, <2>1, <2>3, SameSite
  <2>6. NoneBefore(Context(w), worker[w].provider, worker[w].level)'
    BY <1>4, <1>7, <2>1, <2>4, SameSite
  <2> QED
    BY <1>4, <1>7, <2>5, <2>6 DEF Searched
<1> QED
  BY <1>1, <1>2, <1>4, <1>5, <1>6, <1>7, <1>8, LookupStep

\* The stage a lookup is in.
LEMMA InStages ==
    ASSUME TypeInv, NEW w \in Ws
    PROVE  /\ worker[w].stages \in StageLists
           /\ InStage(w, "none") => Looking(w) /\ worker[w].stages = <<>>
           /\ \A s \in {"providers", "variable", "module"} : InStage(w, s) =>
                 Looking(w) /\ worker[w].stages # <<>> /\ Head(worker[w].stages) = s
<1>1. worker[w].stages \in StageLists
  BY Lookups DEF Workers
<1>2. worker[w].stages # <<>> => Head(worker[w].stages) # "none"
  <2>1. worker[w].stages # <<>> => Head(worker[w].stages) \in {"providers", "variable", "module"}
    BY <1>1, StageSteps
  <2> QED
    BY <2>1
<1> QED
  BY <1>1, <1>2 DEF InStage, Stage, Looking

LEMMA NextStageOk ==
    ASSUME IndInv, NEW w \in Ws, Looking(w), worker[w].stages # <<>>,
           Continue(w, NextStage(w)), site' = site,
           edits = 0 => From(Head(worker[w].stages), Context(w)) = None
    PROVE  /\ NextStage(w) \in Workers /\ NextStage(w).at = "stage"
           /\ NextStage(w).provider \in DOMAIN Providers(site)
           /\ NextStage(w).request \in Requests
           /\ edits = 0 => Searched(w)'
<1> DEFINE rest == Tail(worker[w].stages)
           c == Context(w)
<1>1. worker[w] \in Workers /\ worker[w].stages \in StageLists /\ worker[w].request \in Requests
  BY Lookups, InStages DEF IndInv
<1>2. /\ rest \in StageLists
      /\ \A x : Rest(worker[w].stages, x) = Or(From(Head(worker[w].stages), x), Rest(rest, x))
  BY <1>1, StageSteps
<1> HIDE DEF rest, c
<1>3. LET s == NextStage(w)
      IN  /\ s \in Workers /\ s.at = "stage" /\ s.provider = 1 /\ s.level = 1
          /\ s.request = worker[w].request /\ s.stages = rest /\ s.variables = worker[w].variables
  <2>1. \A n \in Nat \ {0} :
           LET s == [worker[w] EXCEPT !.at = "stage", !.stages = rest, !.provider = n, !.level = n]
           IN  /\ s \in Workers /\ s.at = "stage" /\ s.provider = n /\ s.level = n
               /\ s.request = worker[w].request /\ s.stages = rest
               /\ s.variables = worker[w].variables
    BY <1>1, <1>2 DEF Workers
  <2>2. 1 \in Nat \ {0}
    OBVIOUS
  <2>3. NextStage(w) = [worker[w] EXCEPT !.at = "stage", !.stages = rest, !.provider = 1, !.level = 1]
    BY DEF NextStage, rest
  <2> QED
    BY <2>1, <2>2, <2>3
<1>4. worker'[w] = NextStage(w)
  BY Lookups DEF IndInv
<1>5. Context(w)' = c
  BY <1>3, <1>4 DEF Context, c
<1>6. ASSUME edits = 0 PROVE Searched(w)'
  <2>1. Expected(c) = Rest(rest, c)
    <3>1. Expected(c) = Rest(worker[w].stages, c)
      BY <1>6 DEF IndInv, SearchInv, Searched, c
    <3>2. From(Head(worker[w].stages), c) = None
      BY <1>6 DEF c
    <3> QED
      BY <1>2, <3>1, <3>2 DEF Or
  <2>2. NoneBefore(c, 1, 1)
    BY NoneBeforeFirst DEF IndInv
  <2>3. Expected(Context(w))' = Rest(worker[w].stages, Context(w))'
    BY <1>3, <1>4, <1>5, <2>1, SameSite
  <2>4. NoneBefore(Context(w), worker[w].provider, worker[w].level)'
    BY <1>3, <1>4, <1>5, <2>2, SameSite
  <2> QED
    BY <1>3, <1>4, <2>3, <2>4 DEF Searched
<1> QED
  BY <1>1, <1>3, <1>6, ProvidersAreLists DEF IndInv

\* A lookup that is answered, wherever it is.
LEMMA AnswerOk ==
    ASSUME IndInv, NEW w \in Ws, NEW value, Answer(w, value), UNCHANGED <<input, requests>>,
           edits = 0 => Right(Context(w), value)
    PROVE  /\ TypeInv' /\ SearchInv' /\ AnswersInv' /\ Others(w) /\ worker'[w].at = "run"
           /\ \A j \in DOMAIN answers : j \in DOMAIN answers' /\ answers'[j] = answers[j]
           /\ \E j \in DOMAIN answers' : /\ answers'[j].context = Context(w)
                                         /\ answers'[j].value = value
<1> DEFINE state == [worker[w] EXCEPT !.at = "run", !.stages = <<>>]
<1>1. /\ Continue(w, state)
      /\ answers' = Append(answers, [context |-> Context(w), value |-> value])
  BY DEF Answer
<1>2. site' = site /\ edits' = edits /\ requests' \in 0 .. MaxRequests
  BY DEF input, IndInv, TypeInv
<1>3. state \in Workers /\ state.at = "run" /\ state.provider \in DOMAIN Providers(site)
  BY Lookups DEF IndInv, Workers, StageLists
<1> HIDE DEF state
<1>4. TypeInv' /\ worker'[w] = state /\ Others(w)
  BY <1>1, <1>2, <1>3, WorkerStep DEF IndInv
<1>5. SearchInv'
  BY <1>2, <1>3, <1>4, SearchFrame DEF IndInv, Looking
<1> DEFINE c == Context(w)
<1> HIDE DEF c
<1>6. /\ AnswersInv'
      /\ \A j \in DOMAIN answers : j \in DOMAIN answers' /\ answers'[j] = answers[j]
      /\ \E j \in DOMAIN answers' : answers'[j].context = c /\ answers'[j].value = value
  <2>1. answers' = Append(answers, [context |-> c, value |-> value])
    BY <1>1 DEF c
  <2>2. edits = 0 => Right(c, value)
    BY DEF c
  <2> QED
    BY <2>1, <2>2, Answered
<1> QED
  BY <1>3, <1>4, <1>5, <1>6 DEF c

\* An answer from outside the module's data.
LEMMA AnswerStep ==
    ASSUME IndInv, NEW w \in Ws, NEW value, Answer(w, value), UNCHANGED <<input, requests, loader>>,
           worker[w].at \notin {"parse", "load"}, edits = 0 => Right(Context(w), value), CacheInv'
    PROVE  IndInv'
<1>1. TypeInv' /\ SearchInv' /\ AnswersInv' /\ Others(w) /\ worker'[w].at = "run"
  BY AnswerOk
<1>2. site' = site /\ loaded' = loaded /\ edits' = edits /\ files' = files
  BY DEF input, loader
<1>3. LoaderInv'
  BY <1>1, <1>2, LoaderFrame DEF IndInv
<1>4. FilesInv'
  BY <1>2 DEF IndInv, FilesInv
<1> QED
  BY <1>1, <1>3, <1>4 DEF IndInv

LEMMA NotFoundStep ==
    ASSUME IndInv, NEW w \in Ws, NotFound(w)
    PROVE  IndInv'
<1>1. /\ InStage(w, "none") /\ worker[w].at = "stage" /\ Answer(w, None)
      /\ UNCHANGED <<input, requests, cache, loader>>
  BY DEF NotFound, InStage
<1>2. Looking(w) /\ worker[w].stages = <<>>
  BY <1>1, InStages DEF IndInv
<1>3. edits = 0 => Right(Context(w), None)
  <2>1. \A c : Rest(<<>>, c) = None
    BY DEF Rest
  <2>2. edits = 0 => Expected(Context(w)) = Rest(<<>>, Context(w))
    BY <1>2 DEF IndInv, SearchInv, Searched
  <2> QED
    BY <2>1, <2>2 DEF Right
<1>4. CacheInv'
  BY <1>1, <1>3, AnswerOk, CacheFrame DEF IndInv
<1> QED
  BY <1>1, <1>3, <1>4, AnswerStep

\* A step to the next stage or the next level.
LEMMA OnwardStep ==
    ASSUME IndInv, NEW w \in Ws, NEW state \in Workers, Continue(w, state),
           UNCHANGED <<input, requests, cache, loader, answers>>,
           worker[w].at \notin {"parse", "load"}, state.at = "stage",
           state.provider \in DOMAIN Providers(site), state.request \in Requests,
           edits = 0 => Searched(w)'
    PROVE  IndInv'
<1>1. requests' \in 0 .. MaxRequests
  BY DEF IndInv, TypeInv
<1>2. CacheInv' /\ AnswersInv'
  BY Unanswered
<1> QED
  BY <1>1, <1>2, LookupStep

LEMMA LookUpVariableStep ==
    ASSUME IndInv, NEW w \in Ws, LookUpVariable(w)
    PROVE  IndInv'
<1> DEFINE c == Context(w)
           set == Key(w).module = "" /\ Key(w).name \in DOMAIN worker[w].variables
           value == VariableValue(Key(w).name, worker[w].variables[Key(w).name])
<1>1. /\ InStage(w, "variable") /\ worker[w].at = "stage"
      /\ UNCHANGED <<input, requests, cache, loader>>
      /\ \/ set /\ Answer(w, value)
         \/ ~ set /\ Continue(w, NextStage(w)) /\ UNCHANGED answers
  BY DEF LookUpVariable, InStage
<1>2. Looking(w) /\ worker[w].stages # <<>> /\ Head(worker[w].stages) = "variable"
  BY <1>1, InStages DEF IndInv
<1>3. c.key = Key(w) /\ c.variables = worker[w].variables
  BY DEF Context, Key
<1>4. From("variable", c) = FromVariable(c)
  BY DEF From
<1> HIDE DEF c
<1>5. CASE set /\ Answer(w, value)
  <2>1. FromVariable(c) = value
    BY <1>3, <1>5 DEF FromVariable
  <2>2. value # None
    <3>1. worker[w].variables \in {<<>>} \cup [{"role"} -> Roles]
      BY Lookups DEF IndInv, Workers
    <3>2. worker[w].variables # <<>>
      <4>1. DOMAIN <<>> = {}
        OBVIOUS
      <4>2. Key(w).name \in DOMAIN worker[w].variables
        BY <1>5
      <4> QED
        BY <4>1, <4>2
    <3>3. Key(w).name = "role" /\ worker[w].variables["role"] \in Roles
      BY <1>5, <3>1, <3>2
    <3> QED
      BY <3>3, NoneAssumption
  <2>3. edits = 0 => value = Expected(c)
    <3>1. worker[w].stages \in StageLists
      BY InStages DEF IndInv
    <3>2. Rest(worker[w].stages, c) = Or(FromVariable(c), Rest(Tail(worker[w].stages), c))
      BY <1>2, <1>4, <3>1, StageSteps
    <3>3. edits = 0 => Expected(c) = Rest(worker[w].stages, c)
      BY <1>2 DEF IndInv, SearchInv, Searched, c
    <3> HIDE DEF value
    <3> QED
      BY <2>1, <2>2, <3>2, <3>3 DEF Or
  <2> HIDE DEF value, set
  <2>4. edits = 0 => Right(Context(w), value)
    BY <2>3 DEF Right, c
  <2>5. CacheInv'
    BY <1>1, <1>5, <2>4, AnswerOk, CacheFrame DEF IndInv
  <2> QED
    BY <1>1, <1>5, <2>4, <2>5, AnswerStep
<1>6. CASE ~ set /\ Continue(w, NextStage(w)) /\ UNCHANGED answers
  <2>1. FromVariable(c) = None
    BY <1>3, <1>6 DEF FromVariable
  <2>2. site' = site
    BY <1>1 DEF input
  <2>3. /\ NextStage(w) \in Workers /\ NextStage(w).at = "stage"
        /\ NextStage(w).provider \in DOMAIN Providers(site)
        /\ NextStage(w).request \in Requests
        /\ edits = 0 => Searched(w)'
    BY <1>2, <1>4, <1>6, <2>1, <2>2, NextStageOk DEF c
  <2> HIDE DEF set, value
  <2> QED
    BY <1>1, <1>6, <2>3, OnwardStep
<1> QED
  BY <1>1, <1>5, <1>6

LEMMA AnswerFromCacheStep ==
    ASSUME IndInv, NEW w \in Ws, AnswerFromCache(w)
    PROVE  IndInv'
<1> DEFINE value == cache[worker[w].provider][CacheKey(Key(w))]
<1>1. /\ worker[w].at = "stage" /\ Cached(w) /\ Answer(w, value)
      /\ UNCHANGED <<input, requests, cache, loader>>
  BY DEF AnswerFromCache, InStage
<1>2. /\ mode # "parallel" /\ Key(w) \in DOMAIN cache[worker[w].provider]
      /\ value = cache[worker[w].provider][Key(w)]
  BY <1>1 DEF Cached, UseCache, CacheKey
<1>3. worker[w].provider \in DOMAIN cache /\ Context(w).key = Key(w)
  BY Lookups DEF IndInv, CacheInv
<1> HIDE DEF value
<1>4. edits = 0 => Right(Context(w), value)
  BY <1>2, <1>3 DEF IndInv, CacheInv, Right
<1>5. CacheInv'
  BY <1>1, <1>4, AnswerOk, CacheFrame DEF IndInv
<1> QED
  BY <1>1, <1>4, <1>5, AnswerStep

\* The values in the files of the site are values.
LEMMA ValuesAreValues ==
    ASSUME TypeInv, NEW path, NEW key, Holds(site.files, path, key)
    PROVE  Value(site.files, path) # None
  BY NoneAssumption DEF TypeInv, Holds

\* What a level of the providers answers is what the providers have for the lookup.
LEMMA HitIsExpected ==
    ASSUME IndInv, edits = 0, NEW w \in Ws, InStage(w, "providers"),
           worker[w].level \in DOMAIN Config(w),
           ProviderHit(Context(w), worker[w].provider, worker[w].level)
    PROVE  LET path == puppet_hiera_interpolate(Config(w)[worker[w].level], Context(w))
           IN  /\ FromProviders(Context(w)) = Value(site.files, path)
               /\ Value(site.files, path) # None
               /\ Expected(Context(w)) = Value(site.files, path)
<1> DEFINE c == Context(w)
           p == worker[w].provider
           l == worker[w].level
<1>1. p \in DOMAIN Providers(site) /\ l \in DOMAIN Providers(site)[p]
  BY Lookups DEF IndInv, Config
<1>2. /\ Looking(w) /\ worker[w].stages # <<>> /\ Head(worker[w].stages) = "providers"
      /\ worker[w].stages \in StageLists
  BY InStages DEF IndInv
<1>3. Expected(c) = Rest(worker[w].stages, c) /\ NoneBefore(c, p, l)
  BY <1>2 DEF IndInv, SearchInv, Searched
<1>4. ProviderHit(c, p, l) /\ Config(w) = Providers(site)[p]
  BY DEF Config
<1> DEFINE path == puppet_hiera_interpolate(Providers(site)[p][l], c)
<1> HIDE DEF c, p, l
<1>5. FromProviders(c) = Value(site.files, path)
  BY <1>1, <1>3, <1>4, ProvidersHit DEF IndInv
<1>6. Value(site.files, path) # None
  BY <1>4, ValuesAreValues DEF IndInv, ProviderHit
<1>7. Rest(worker[w].stages, c) = Or(FromProviders(c), Rest(Tail(worker[w].stages), c))
  <2>1. From("providers", c) = FromProviders(c)
    BY DEF From
  <2> QED
    BY <1>2, <2>1, StageSteps
<1> HIDE DEF path
<1>8. Expected(c) = Value(site.files, path)
  BY <1>3, <1>5, <1>6, <1>7 DEF Or
<1> QED
  BY <1>4, <1>5, <1>6, <1>8 DEF path, c, p, l

LEMMA ReadLevelStep ==
    ASSUME IndInv, NEW w \in Ws, ReadLevel(w)
    PROVE  IndInv'
<1> DEFINE c == Context(w)
           p == worker[w].provider
           l == worker[w].level
           path == puppet_hiera_interpolate(Config(w)[l], c)
           value == Value(files, path)
<1>1. /\ InStage(w, "providers") /\ worker[w].at = "stage" /\ l <= Len(Config(w))
      /\ UNCHANGED <<input, requests, loader>>
      /\ \/ /\ Holds(files, path, Key(w)) /\ Answer(w, value) /\ Keep(p, Key(w), value)
         \/ /\ ~ Holds(files, path, Key(w))
            /\ Continue(w, [worker[w] EXCEPT !.level = @ + 1]) /\ UNCHANGED <<cache, answers>>
  BY DEF ReadLevel, InStage
<1>2. Looking(w) /\ worker[w] \in Workers /\ c.key = Key(w) /\ worker[w].request \in Requests
  BY <1>1, Lookups, InStages DEF IndInv
<1>3. /\ p \in DOMAIN Providers(site) /\ Config(w) = Providers(site)[p]
      /\ l \in DOMAIN Config(w) /\ l \in Nat \ {0}
  <2>1. p \in DOMAIN Providers(site) /\ Config(w) = Providers(site)[p] /\ l \in Nat \ {0}
    BY <1>2, Lookups DEF IndInv, Config, Workers
  <2>2. IsList(Config(w))
    BY <2>1, ProvidersAreLists DEF IndInv
  <2> QED
    BY <1>1, <2>1, <2>2 DEF IsList
<1>4. edits = 0 => files = site.files
  BY DEF IndInv, FilesInv
<1>5. edits = 0 => (Holds(files, path, Key(w)) <=> ProviderHit(c, p, l))
  BY <1>2, <1>3, <1>4 DEF ProviderHit
<1>6. CASE Holds(files, path, Key(w)) /\ Answer(w, value) /\ Keep(p, Key(w), value)
  <2>1. edits = 0 => FromProviders(c) = value /\ value # None /\ Expected(c) = value
    BY <1>1, <1>3, <1>4, <1>5, <1>6, HitIsExpected
  <2>2. edits = 0 => Right(Context(w), value)
    BY <2>1 DEF Right
  <2> HIDE DEF value
  <2>3. /\ \A j \in DOMAIN answers : j \in DOMAIN answers' /\ answers'[j] = answers[j]
        /\ \E j \in DOMAIN answers' : answers'[j].context = c /\ answers'[j].value = value
    BY <1>1, <1>6, <2>2, AnswerOk
  <2>4. CacheInv'
    <3>1. CASE ~ UseCache
      BY <1>1, <1>6, <2>3, <3>1, CacheFrame DEF IndInv, Keep
    <3>2. CASE UseCache
      <4> DEFINE old == cache[p]
                 new == [k \in DOMAIN old \cup {Key(w)} |-> IF k = Key(w) THEN value ELSE old[k]]
      <4>1. cache' = [cache EXCEPT ![p] = new]
        BY <1>6, <3>2 DEF Keep, CacheKey
      <4>2. /\ \A k \in DOMAIN new : k \in DOMAIN old \/ k = Key(w)
            /\ \A k \in DOMAIN new : new[k] = IF k = Key(w) THEN value ELSE old[k]
        OBVIOUS
      <4>3. site' = site /\ mode' = mode /\ edits' = edits /\ mode # "parallel"
        BY <1>1, <3>2 DEF input, UseCache
      <4>4. ASSUME edits = 0, NEW q \in DOMAIN cache, NEW k \in DOMAIN cache[q]
            PROVE  /\ cache[q][k] # None
                   /\ \E j \in DOMAIN answers' : /\ answers'[j].context.key = k
                                                 /\ cache[q][k] = FromProviders(answers'[j].context)
        BY <2>3, <4>4 DEF IndInv, CacheInv
      <4>5. edits = 0 =>
               /\ value # None
               /\ \E j \in DOMAIN answers' : /\ answers'[j].context.key = Key(w)
                                             /\ value = FromProviders(answers'[j].context)
        BY <1>2, <2>1, <2>3
      <4>6. p \in DOMAIN cache /\ DOMAIN cache = DOMAIN Providers(site)
        BY <1>3 DEF IndInv, CacheInv
      <4> HIDE DEF new
      <4>7. /\ DOMAIN cache' = DOMAIN cache /\ cache'[p] = new
            /\ \A q \in DOMAIN cache : q # p => cache'[q] = cache[q]
        BY <4>1, <4>6
      <4>8. ASSUME edits = 0, NEW q \in DOMAIN cache, NEW k \in DOMAIN cache'[q]
            PROVE  /\ cache'[q][k] # None
                   /\ \E j \in DOMAIN answers' : /\ answers'[j].context.key = k
                                                 /\ cache'[q][k] = FromProviders(answers'[j].context)
        <5>1. CASE q # p
          BY <4>4, <4>7, <4>8, <5>1
        <5>2. CASE q = p /\ k = Key(w)
          BY <4>2, <4>5, <4>7, <4>8, <5>2
        <5>3. CASE q = p /\ k # Key(w)
          BY <4>2, <4>4, <4>7, <4>8, <5>3
        <5> QED
          BY <5>1, <5>2, <5>3
      <4> QED
        BY <4>3, <4>6, <4>7, <4>8, SameSite DEF CacheInv
    <3> QED
      BY <3>1, <3>2
  <2> QED
    BY <1>1, <1>6, <2>2, <2>4, AnswerStep
<1>7. CASE /\ ~ Holds(files, path, Key(w))
           /\ Continue(w, [worker[w] EXCEPT !.level = @ + 1]) /\ UNCHANGED <<cache, answers>>
  <2> DEFINE state == [worker[w] EXCEPT !.level = @ + 1]
  <2>1. /\ state \in Workers /\ state.at = "stage" /\ state.provider = p /\ state.level = l + 1
        /\ state.request = worker[w].request /\ state.stages = worker[w].stages
        /\ state.variables = worker[w].variables
    BY <1>1, <1>2, <1>3 DEF Workers
  <2> HIDE DEF state
  <2>2. worker'[w] = state /\ site' = site
    BY <1>1, <1>7, Lookups DEF IndInv, state, input
  <2>3. Context(w)' = c
    BY <2>1, <2>2 DEF Context
  <2>4. ASSUME edits = 0 PROVE Searched(w)'
    <3>1. /\ Expected(c) = Rest(worker[w].stages, c)
          /\ NoneBefore(c, p, l)
          /\ Head(worker[w].stages) = "providers" /\ worker[w].stages # <<>>
      BY <1>1, <1>2, <2>4, InStages DEF IndInv, SearchInv, Searched
    <3>2. NoneBefore(c, p, l + 1)
      <4>1. \A q \in DOMAIN Providers(site) : \A k \in DOMAIN Providers(site)[q] : k \in Int
        BY ProvidersAreLists DEF IndInv, IsList
      <4> HIDE DEF c, p, l
      <4>2. ~ ProviderHit(c, p, l)
        BY <1>5, <1>7, <2>4
      <4> QED
        BY <1>3, <3>1, <4>1, <4>2 DEF NoneBefore
    <3> HIDE DEF c, p, l
    <3>3. Expected(Context(w))' = Rest(worker[w].stages, Context(w))'
      BY <2>1, <2>2, <2>3, <3>1, SameSite
    <3>4. NoneBefore(Context(w), worker[w].provider, worker[w].level)'
      BY <2>1, <2>2, <2>3, <3>2, SameSite
    <3>5. ~ InStage(w, "module")'
      BY <2>1, <2>2, <3>1 DEF InStage, Stage
    <3> QED
      BY <2>1, <2>2, <3>3, <3>4, <3>5 DEF Searched
  <2>5. state.provider \in DOMAIN Providers(site) /\ state.request \in Requests
    BY <1>2, <1>3, <2>1
  <2>6. Continue(w, state)
    BY <1>7 DEF state
  <2> QED
    BY <1>1, <1>7, <2>1, <2>4, <2>5, <2>6, OnwardStep
<1> QED
  BY <1>1, <1>6, <1>7

\* A worker that goes on to the first level of a provider.
LEMMA AtProvider ==
    ASSUME NEW x \in Workers, NEW m \in Nat \ {0}
    PROVE  LET s == [x EXCEPT !.provider = m, !.level = 1]
           IN  /\ s \in Workers /\ s.at = x.at /\ s.provider = m /\ s.level = 1
               /\ s.request = x.request /\ s.stages = x.stages
               /\ s.variables = x.variables
<1> DEFINE y == [x EXCEPT !.provider = m]
           z == [y EXCEPT !.level = 1]
<1>1. /\ y \in Workers /\ y.at = x.at /\ y.provider = m
      /\ y.request = x.request /\ y.stages = x.stages /\ y.variables = x.variables
  BY DEF Workers
<1>2. z = [x EXCEPT !.provider = m, !.level = 1]
  OBVIOUS
<1> HIDE DEF y
<1>3. /\ z \in Workers /\ z.at = y.at /\ z.provider = y.provider /\ z.level = 1
      /\ z.request = y.request /\ z.stages = y.stages /\ z.variables = y.variables
  BY <1>1 DEF Workers
<1> HIDE DEF z
<1> QED
  BY <1>1, <1>2, <1>3

LEMMA EndLevelsStep ==
    ASSUME IndInv, NEW w \in Ws, EndLevels(w)
    PROVE  IndInv'
<1> DEFINE c == Context(w)
           p == worker[w].provider
           l == worker[w].level
<1>1. /\ InStage(w, "providers") /\ worker[w].at = "stage"
      /\ l > Len(Config(w)) /\ Continue(w, NextProvider(w))
      /\ UNCHANGED <<input, requests, cache, loader, answers>> /\ site' = site
  BY DEF EndLevels, InStage, input
<1>2. /\ Looking(w) /\ worker[w] \in Workers /\ worker[w].request \in Requests
      /\ worker[w].stages # <<>> /\ Head(worker[w].stages) = "providers"
  BY <1>1, Lookups, InStages DEF IndInv
<1>3. /\ p \in DOMAIN Providers(site) /\ Config(w) = Providers(site)[p] /\ l \in Nat \ {0}
      /\ p \in Nat \ {0}
  BY <1>2, Lookups DEF IndInv, Config, Workers
<1>4. /\ IsList(Providers(site)) /\ IsList(Providers(site)[p])
      /\ \A q \in DOMAIN Providers(site) : IsList(Providers(site)[q])
  BY <1>3, ProvidersAreLists DEF IndInv
<1>5. ASSUME edits = 0
      PROVE  Expected(c) = Rest(worker[w].stages, c) /\ NoneBefore(c, p + 1, 1)
  <2>1. Expected(c) = Rest(worker[w].stages, c) /\ NoneBefore(c, p, l)
    BY <1>1, <1>2, <1>5 DEF IndInv, SearchInv, Searched
  <2>2. \A k \in DOMAIN Providers(site)[p] : k \in Int /\ k < l
    BY <1>1, <1>3, <1>4 DEF IsList
  <2>3. \A q \in DOMAIN Providers(site) : q \in Int /\ \A k \in DOMAIN Providers(site)[q] : k \in Int /\ 1 <= k
    BY <1>4 DEF IsList
  <2> HIDE DEF c, p, l
  <2> QED
    BY <1>3, <2>1, <2>2, <2>3 DEF NoneBefore
<1>6. CASE p < Len(Providers(site))
  <2> DEFINE state == [worker[w] EXCEPT !.provider = @ + 1, !.level = 1]
  <2>1. Continue(w, state)
    BY <1>1, <1>6 DEF NextProvider
  <2>2. /\ state \in Workers /\ state.at = "stage" /\ state.provider = p + 1 /\ state.level = 1
        /\ state.request = worker[w].request /\ state.stages = worker[w].stages
        /\ state.variables = worker[w].variables
    <3>1. p + 1 \in Nat \ {0}
      BY <1>3
    <3>2. state = [worker[w] EXCEPT !.provider = p + 1, !.level = 1]
      OBVIOUS
    <3> HIDE DEF p, state
    <3> QED
      BY <1>1, <1>2, <3>1, <3>2, AtProvider
  <2> HIDE DEF state
  <2>3. state.provider \in DOMAIN Providers(site)
    BY <1>3, <1>4, <1>6, <2>2 DEF IsList
  <2>4. worker'[w] = state
    BY <2>1, Lookups DEF IndInv
  <2>5. Context(w)' = c
    BY <2>2, <2>4 DEF Context
  <2>6. ASSUME edits = 0 PROVE Searched(w)'
    <3> HIDE DEF c, p, l
    <3>1. Expected(Context(w))' = Rest(worker[w].stages, Context(w))'
      BY <1>1, <1>5, <2>2, <2>4, <2>5, <2>6, SameSite
    <3>2. NoneBefore(Context(w), worker[w].provider, worker[w].level)'
      BY <1>1, <1>5, <2>2, <2>4, <2>5, <2>6, SameSite
    <3> QED
      BY <2>2, <2>4, <3>1, <3>2 DEF Searched
  <2> QED
    BY <1>1, <1>2, <2>1, <2>2, <2>3, <2>6, OnwardStep
<1>7. CASE ~ (p < Len(Providers(site)))
  <2>1. Continue(w, NextStage(w))
    BY <1>1, <1>7 DEF NextProvider
  <2>2. edits = 0 => From("providers", c) = None
    <3> SUFFICES ASSUME edits = 0 PROVE FromProviders(c) = None
      BY DEF From
    <3>1. \A q \in DOMAIN Providers(site) : q \in Int /\ q < p + 1
      BY <1>3, <1>4, <1>7 DEF IsList
    <3> HIDE DEF c, p, l
    <3>2. \A q \in DOMAIN Providers(site) : \A k \in DOMAIN Providers(site)[q] : ~ ProviderHit(c, q, k)
      BY <1>5, <3>1 DEF NoneBefore
    <3> QED
      BY <3>2, ProvidersMiss
  <2>3. /\ NextStage(w) \in Workers /\ NextStage(w).at = "stage"
        /\ NextStage(w).provider \in DOMAIN Providers(site)
        /\ NextStage(w).request \in Requests
        /\ edits = 0 => Searched(w)'
    BY <1>1, <1>2, <2>1, <2>2, NextStageOk
  <2> QED
    BY <1>1, <2>1, <2>3, OnwardStep
<1> QED
  BY <1>6, <1>7
-----------------------------------------------------------------------------
(* The module's data.                                                      *)

\* A worker with the mutex is the only one in the caches.
LEMMA Alone ==
    ASSUME IndInv, NEW w \in Ws, mutex = None \/ mutex = w, NEW v \in Ws, v # w
    PROVE  worker[v].at \notin {"parse", "load"}
  BY NoneAssumption DEF IndInv, LoaderInv, MutexInv

\* What a worker in the module's data has to find.
LEMMA InModule ==
    ASSUME IndInv, NEW w \in Ws, worker[w].at \in {"parse", "paths", "load"} \/ InStage(w, "module")
    PROVE  /\ worker[w].stages = <<"module">> /\ Head(worker[w].stages) = "module"
           /\ worker[w].stages # <<>>
           /\ Looking(w) /\ worker[w] \in Workers /\ worker[w].request \in Requests
           /\ Context(w).key = Key(w)
           /\ IsList(module_hiera_parse_config(site, Context(w).key.module))
           /\ edits = 0 => Expected(Context(w)) = FromModule(Context(w))
<1>1. worker[w].stages = <<"module">> /\ Looking(w)
  <2>1. CASE worker[w].at \in {"parse", "paths", "load"}
    BY <2>1 DEF IndInv, TypeInv, Looking
  <2>2. CASE InStage(w, "module")
    <3>1. /\ worker[w].stages # <<>> /\ Head(worker[w].stages) = "module" /\ Looking(w)
          /\ worker[w].stages \in StageLists
      BY <2>2, InStages DEF IndInv
    <3> QED
      BY <3>1, StageSteps
  <2> QED
    BY <2>1, <2>2
<1>2. Head(<<"module">>) = "module" /\ <<"module">> # <<>>
  OBVIOUS
<1>3. worker[w] \in Workers /\ worker[w].request \in Requests /\ Context(w).key = Key(w)
  BY <1>1, Lookups DEF IndInv
<1>4. IsList(module_hiera_parse_config(site, Context(w).key.module))
  BY <1>3, ModuleIsList DEF IndInv, Context
<1>5. edits = 0 => Expected(Context(w)) = FromModule(Context(w))
  <2>1. \A c : Rest(<<"module">>, c) = FromModule(c)
    BY DEF Rest
  <2>2. edits = 0 => Expected(Context(w)) = Rest(<<"module">>, Context(w))
    BY <1>1 DEF IndInv, SearchInv, Searched
  <2> QED
    BY <2>1, <2>2
<1> QED
  BY <1>1, <1>2, <1>3, <1>4, <1>5

\* A worker that only changes its place or its level.
LEMMA MoveOk ==
    ASSUME IndInv, NEW w \in Ws, worker[w].at \in {"parse", "paths", "load"} \/ InStage(w, "module"),
           NEW at \in {"parse", "paths", "load"}, NEW level \in Nat \ {0},
           Continue(w, [worker[w] EXCEPT !.at = at, !.level = level]),
           UNCHANGED <<input, requests, cache, answers>>,
           edits = 0 /\ at = "parse" => level = 1,
           edits = 0 /\ at # "parse" => NoneAbove(Context(w), level)
    PROVE  /\ TypeInv' /\ SearchInv' /\ CacheInv' /\ AnswersInv' /\ Others(w)
           /\ worker'[w].at = at /\ Key(w)' = Key(w) /\ Context(w)' = Context(w)
           /\ worker'[w].level = level
<1> DEFINE state == [worker[w] EXCEPT !.at = at, !.level = level]
<1>1. site' = site /\ edits' = edits /\ requests' \in 0 .. MaxRequests
  BY DEF input, IndInv, TypeInv
<1>2. /\ state \in Workers /\ state.at = at /\ state.level = level
      /\ state.request = worker[w].request /\ state.stages = worker[w].stages
      /\ state.variables = worker[w].variables /\ state.provider = worker[w].provider
  BY InModule DEF Workers
<1>3. Continue(w, state)
  OBVIOUS
<1> HIDE DEF state
<1>4. /\ worker[w].stages = <<"module">> /\ worker[w].request \in Requests /\ Looking(w)
      /\ worker[w].provider \in DOMAIN Providers(site)
  BY InModule, Lookups DEF IndInv
<1>5. TypeInv' /\ worker'[w] = state /\ Others(w)
  BY <1>1, <1>2, <1>3, <1>4, WorkerStep DEF IndInv
<1>6. Context(w)' = Context(w) /\ Key(w)' = Key(w)
  BY <1>2, <1>5 DEF Context, Key
<1>7. ASSUME edits = 0 PROVE Searched(w)'
  <2>1. Expected(Context(w)) = Rest(worker[w].stages, Context(w))
    BY <1>4, <1>7 DEF IndInv, SearchInv, Searched
  <2>2. Expected(Context(w))' = Rest(worker[w].stages, Context(w))'
    BY <1>1, <1>2, <1>5, <1>6, <2>1, SameSite
  <2>3. at # "parse" => NoneAbove(Context(w), worker[w].level)'
    BY <1>1, <1>2, <1>5, <1>6, <1>7, SameSite
  <2>4. \A stage : ~ InStage(w, stage)'
    BY <1>2, <1>5 DEF InStage
  <2>5. worker'[w].at = "parse" => worker'[w].level = 1
    BY <1>2, <1>5, <1>7
  <2>6. worker'[w].at \in {"paths", "load"} => NoneAbove(Context(w), worker[w].level)'
    BY <1>2, <1>5, <2>3
  <2> QED
    BY <2>2, <2>4, <2>5, <2>6 DEF Searched
<1>8. SearchInv'
  BY <1>1, <1>5, <1>7, SearchFrame DEF IndInv
<1>9. CacheInv' /\ AnswersInv'
  BY Unanswered
<1> QED
  BY <1>2, <1>5, <1>6, <1>8, <1>9

LEMMA NoneAboveFirst ==
    ASSUME IndInv, NEW w \in Ws, worker[w].at \in {"parse", "paths", "load"} \/ InStage(w, "module")
    PROVE  NoneAbove(Context(w), 1)
<1>1. IsList(module_hiera_parse_config(site, Context(w).key.module))
  BY InModule
<1> QED
  BY <1>1 DEF NoneAbove, IsList

\* The place of a worker, with its level as it is.
LEMMA SameLevel ==
    ASSUME TypeInv, NEW w \in Ws, NEW at
    PROVE  [worker[w] EXCEPT !.at = at] = [worker[w] EXCEPT !.at = at, !.level = worker[w].level]
  BY Lookups DEF Workers

LEMMA FindConfigStep ==
    ASSUME IndInv, NEW w \in Ws, FindConfig(w)
    PROVE  IndInv'
<1> DEFINE to == IF Key(w).module \in DOMAIN configs THEN "paths" ELSE "parse"
           l == worker[w].level
<1>1. /\ InStage(w, "module") /\ worker[w].at = "stage" /\ mutex = None
      /\ Continue(w, [worker[w] EXCEPT !.at = to])
      /\ mutex' = IF to = "paths" THEN mutex ELSE w
      /\ UNCHANGED <<input, requests, cache, configs, loaded, handed, answers>>
  BY DEF FindConfig, InStage
<1>2. to \in {"paths", "parse"} /\ (to = "paths" => Key(w).module \in DOMAIN configs)
  OBVIOUS
<1> HIDE DEF to, l
<1>3. edits = 0 => l = 1
  BY <1>1, InModule DEF IndInv, SearchInv, Searched, l
<1>4. edits = 0 => NoneAbove(Context(w), l)
  BY <1>1, <1>3, NoneAboveFirst
<1>5. l \in Nat \ {0} /\ Continue(w, [worker[w] EXCEPT !.at = to, !.level = l])
  <2>1. l \in Nat \ {0}
    BY Lookups DEF IndInv, Workers, l
  <2>2. [worker[w] EXCEPT !.at = to] = [worker[w] EXCEPT !.at = to, !.level = l]
    BY SameLevel DEF IndInv, l
  <2> QED
    BY <1>1, <2>1, <2>2
<1>6. /\ TypeInv' /\ SearchInv' /\ CacheInv' /\ AnswersInv' /\ Others(w)
      /\ worker'[w].at = to /\ Key(w)' = Key(w)
  BY <1>1, <1>2, <1>3, <1>4, <1>5, MoveOk
<1>7. \A v \in Ws : v = w \/ (worker'[v] = worker[v] /\ worker[v].at \notin {"parse", "load"})
  BY <1>1, <1>6, Alone DEF Others
<1>8. site' = site /\ edits' = edits /\ files' = files
  BY <1>1 DEF input
<1>9. MutexInv'
  BY <1>1, <1>2, <1>6, <1>7, NoneAssumption DEF MutexInv
<1>10. ConfigsInv'
  <2>1. \A v \in Ws : worker'[v].at \in {"paths", "load"} => Key(v)'.module \in DOMAIN configs
    BY <1>2, <1>6, <1>7, <1>8, SameWorker DEF IndInv, LoaderInv, ConfigsInv
  <2> QED
    BY <1>1, <1>8, <2>1 DEF IndInv, LoaderInv, ConfigsInv
<1>11. HandedInv'
  <2>1. \A v \in Ws : worker'[v].at # "load"
    BY <1>2, <1>6, <1>7
  <2> QED
    BY <1>1, <2>1 DEF IndInv, LoaderInv, HandedInv
<1>12. FilesInv'
  BY <1>1, <1>8 DEF IndInv, FilesInv
<1> QED
  BY <1>6, <1>9, <1>10, <1>11, <1>12 DEF IndInv, LoaderInv

LEMMA ParseConfigStep ==
    ASSUME IndInv, NEW w \in Ws, ParseConfig(w)
    PROVE  IndInv'
<1> DEFINE l == worker[w].level
           m == Key(w).module
           new == [n \in DOMAIN configs \cup {m} |->
                     IF n = m THEN module_hiera_parse_config(site, n) ELSE configs[n]]
<1>1. /\ worker[w].at = "parse" /\ mutex' = None /\ configs' = new
      /\ Continue(w, [worker[w] EXCEPT !.at = "paths"])
      /\ UNCHANGED <<input, requests, cache, loaded, handed, answers>>
  BY DEF ParseConfig, Release
<1>2. mutex = w
  BY <1>1 DEF IndInv, LoaderInv, MutexInv
<1> HIDE DEF l
<1>3. edits = 0 => NoneAbove(Context(w), l)
  <2>1. edits = 0 => l = 1
    BY <1>1, InModule DEF IndInv, SearchInv, Searched, l
  <2> QED
    BY <1>1, <2>1, NoneAboveFirst
<1>4. l \in Nat \ {0} /\ Continue(w, [worker[w] EXCEPT !.at = "paths", !.level = l])
  <2>1. l \in Nat \ {0}
    BY Lookups DEF IndInv, Workers, l
  <2>2. [worker[w] EXCEPT !.at = "paths"] = [worker[w] EXCEPT !.at = "paths", !.level = l]
    BY SameLevel DEF IndInv, l
  <2> QED
    BY <1>1, <2>1, <2>2
<1>5. /\ TypeInv' /\ SearchInv' /\ CacheInv' /\ AnswersInv' /\ Others(w)
      /\ worker'[w].at = "paths" /\ Key(w)' = Key(w)
  BY <1>1, <1>3, <1>4, MoveOk
<1>6. \A v \in Ws : v = w \/ (worker'[v] = worker[v] /\ worker[v].at \notin {"parse", "load"})
  BY <1>2, <1>5, Alone DEF Others
<1>7. site' = site /\ edits' = edits /\ files' = files
  BY <1>1 DEF input
<1>8. MutexInv'
  BY <1>1, <1>5, <1>6, NoneAssumption DEF MutexInv
<1>9. /\ DOMAIN configs' = DOMAIN configs \cup {m}
      /\ \A n \in DOMAIN configs' : configs'[n] = module_hiera_parse_config(site, n)
  BY <1>1 DEF IndInv, LoaderInv, ConfigsInv
<1> HIDE DEF new
<1>10. ConfigsInv'
  <2>1. \A v \in Ws : worker'[v].at \in {"paths", "load"} => Key(v)'.module \in DOMAIN configs'
    BY <1>5, <1>6, <1>7, <1>9, SameWorker DEF IndInv, LoaderInv, ConfigsInv
  <2> QED
    BY <1>7, <1>9, <2>1 DEF ConfigsInv
<1>11. HandedInv'
  <2>1. \A v \in Ws : worker'[v].at # "load"
    BY <1>5, <1>6
  <2> QED
    BY <1>1, <2>1 DEF IndInv, LoaderInv, HandedInv
<1>12. FilesInv'
  BY <1>1, <1>7 DEF IndInv, FilesInv
<1> QED
  BY <1>5, <1>8, <1>10, <1>11, <1>12 DEF IndInv, LoaderInv

\* The levels of the module whose data a worker is in.
LEMMA ModuleLevels ==
    ASSUME IndInv, NEW w \in Ws, worker[w].at \in {"paths", "load"}
    PROVE  /\ Levels(w) = module_hiera_parse_config(site, Context(w).key.module)
           /\ IsList(Levels(w)) /\ worker[w].level \in Nat \ {0}
           /\ edits = 0 => NoneAbove(Context(w), worker[w].level)
<1>1. Context(w).key = Key(w) /\ IsList(module_hiera_parse_config(site, Context(w).key.module))
      /\ Looking(w) /\ worker[w] \in Workers
  BY InModule
<1>2. Levels(w) = module_hiera_parse_config(site, Context(w).key.module)
  BY <1>1 DEF IndInv, LoaderInv, ConfigsInv, Levels
<1> QED
  BY <1>1, <1>2 DEF IndInv, SearchInv, Searched, Workers

LEMMA EndPathsStep ==
    ASSUME IndInv, NEW w \in Ws, EndPaths(w)
    PROVE  IndInv'
<1>1. /\ worker[w].at = "paths" /\ worker[w].level > Len(Levels(w)) /\ Continue(w, NextStage(w))
      /\ UNCHANGED <<input, requests, cache, loader, answers>> /\ site' = site
  BY DEF EndPaths, input
<1>2. edits = 0 => FromModule(Context(w)) = None
  <2>1. \A l \in DOMAIN Levels(w) : l < worker[w].level
    BY <1>1, ModuleLevels DEF IsList
  <2>2. edits = 0 => \A l \in DOMAIN module_hiera_parse_config(site, Context(w).key.module) :
                        ~ ModuleHit(Context(w), l)
    BY <1>1, <2>1, ModuleLevels DEF NoneAbove
  <2> QED
    BY <2>2, ModuleMiss
<1>3. edits = 0 => From("module", Context(w)) = None
  BY <1>2 DEF From
<1>4. /\ NextStage(w) \in Workers /\ NextStage(w).at = "stage"
      /\ NextStage(w).provider \in DOMAIN Providers(site)
      /\ NextStage(w).request \in Requests
      /\ edits = 0 => Searched(w)'
  BY <1>1, <1>3, InModule, NextStageOk
<1> QED
  BY <1>1, <1>4, OnwardStep

\* The data of a file of the module: an answer, or one level further.
LEMMA TakeOk ==
    ASSUME IndInv, NEW w \in Ws, worker[w].at \in {"paths", "load"},
           worker[w].level <= Len(Levels(w)), NEW data, Take(w, data),
           UNCHANGED <<input, requests, cache>>,
           edits = 0 => data = IF Path(w) \in DOMAIN files THEN files[Path(w)] ELSE None
    PROVE  /\ TypeInv' /\ SearchInv' /\ CacheInv' /\ AnswersInv' /\ Others(w)
           /\ worker'[w].at \in {"run", "paths"}
           /\ worker'[w].at = "paths" => Key(w)' = Key(w)
           /\ handed' = handed \cup {[path |-> Path(w), data |-> data]}
<1> DEFINE c == Context(w)
           l == worker[w].level
           found == data # None /\ Key(w) \in data.keys
           value == <<Path(w), data.version>>
<1>1. /\ handed' = handed \cup {[path |-> Path(w), data |-> data]}
      /\ \/ found /\ Answer(w, value)
         \/ /\ ~ found /\ Continue(w, [worker[w] EXCEPT !.at = "paths", !.level = l + 1])
            /\ UNCHANGED answers
  BY DEF Take
<1>2. /\ Levels(w) = module_hiera_parse_config(site, c.key.module) /\ IsList(Levels(w))
      /\ l \in Nat \ {0} /\ l \in DOMAIN Levels(w)
      /\ edits = 0 => NoneAbove(c, l)
  BY ModuleLevels DEF IsList
<1>3. c.key = Key(w) /\ (edits = 0 => Expected(c) = FromModule(c))
  BY InModule
<1>4. Path(w) = module_hiera_interpolate_path(Levels(w)[l], c)
  BY DEF Path
<1>5. site \in Sites /\ (edits = 0 => files = site.files)
  BY DEF IndInv, TypeInv, FilesInv
<1> HIDE DEF c, l
<1>6. ASSUME edits = 0
      PROVE  /\ found <=> ModuleHit(c, l)
             /\ found => value = Value(site.files, Path(w)) /\ value # None
  <2>1. Path(w) \in DOMAIN site.files => site.files[Path(w)] # None
                                         /\ Value(site.files, Path(w)) # None
    BY <1>5, NoneAssumption
  <2>2. ModuleHit(c, l) <=> Holds(site.files, Path(w), Key(w))
    BY <1>2, <1>3, <1>4 DEF ModuleHit
  <2>3. found <=> Path(w) \in DOMAIN site.files /\ Key(w) \in site.files[Path(w)].keys
    BY <1>5, <1>6, <2>1
  <2>4. found => data = site.files[Path(w)]
    BY <1>5, <1>6
  <2> QED
    BY <2>1, <2>2, <2>3, <2>4 DEF Holds, Value
<1>7. CASE found /\ Answer(w, value)
  <2>1. ASSUME edits = 0 PROVE FromModule(c) = value
    <3>1. FromModule(c) = Value(site.files, Path(w))
      BY <1>2, <1>4, <1>6, <1>7, <2>1, ModuleHits
    <3> QED
      BY <1>6, <1>7, <2>1, <3>1
  <2> HIDE DEF value, found
  <2>2. edits = 0 => Right(Context(w), value)
    BY <1>3, <2>1 DEF Right, c
  <2>3. /\ TypeInv' /\ SearchInv' /\ AnswersInv' /\ Others(w) /\ worker'[w].at = "run"
        /\ \A j \in DOMAIN answers : j \in DOMAIN answers' /\ answers'[j] = answers[j]
    BY <1>7, <2>2, AnswerOk
  <2>4. CacheInv'
    BY <2>3, CacheFrame DEF IndInv
  <2> QED
    BY <1>1, <2>3, <2>4
<1>8. CASE /\ ~ found /\ Continue(w, [worker[w] EXCEPT !.at = "paths", !.level = l + 1])
           /\ UNCHANGED answers
  <2>1. edits = 0 => NoneAbove(c, l + 1)
    <3>1. edits = 0 => ~ ModuleHit(c, l) /\ NoneAbove(c, l)
      BY <1>2, <1>6, <1>8
    <3>2. \A k \in DOMAIN Levels(w) : k \in Int
      BY <1>2 DEF IsList
    <3> QED
      BY <1>2, <3>1, <3>2 DEF NoneAbove
  <2>2. l + 1 \in Nat \ {0}
    BY <1>2
  <2> HIDE DEF found, value
  <2>3. /\ TypeInv' /\ SearchInv' /\ CacheInv' /\ AnswersInv' /\ Others(w)
        /\ worker'[w].at = "paths" /\ Key(w)' = Key(w)
    BY <1>8, <2>1, <2>2, MoveOk DEF c
  <2> QED
    BY <1>1, <2>3
<1> QED
  BY <1>1, <1>7, <1>8

LEMMA FindFileStep ==
    ASSUME IndInv, NEW w \in Ws, FindFile(w)
    PROVE  IndInv'
<1>1. /\ worker[w].at = "paths" /\ worker[w].level <= Len(Levels(w)) /\ mutex = None
      /\ \/ /\ Path(w) \in DOMAIN loaded /\ Take(w, loaded[Path(w)]) /\ UNCHANGED mutex
         \/ /\ Path(w) \notin DOMAIN loaded
            /\ Continue(w, [worker[w] EXCEPT !.at = "load"]) /\ mutex' = w
            /\ UNCHANGED <<handed, answers>>
      /\ UNCHANGED <<input, requests, cache, configs, loaded>>
  BY DEF FindFile
<1>2. site' = site /\ edits' = edits /\ files' = files
  BY <1>1 DEF input
<1>3. FilesInv'
  BY <1>1, <1>2 DEF IndInv, FilesInv
<1>4. \A v \in Ws : worker[v].at \notin {"parse", "load"}
  BY <1>1, Alone
<1>5. Key(w).module \in DOMAIN configs
  BY <1>1 DEF IndInv, LoaderInv, ConfigsInv
<1>6. CASE Path(w) \in DOMAIN loaded /\ Take(w, loaded[Path(w)]) /\ UNCHANGED mutex
  <2> DEFINE data == loaded[Path(w)]
  <2>1. edits = 0 => data = IF Path(w) \in DOMAIN files THEN files[Path(w)] ELSE None
    BY <1>6 DEF IndInv, FilesInv
  <2>2. Path(w) \in DOMAIN loaded /\ data = loaded[Path(w)] /\ Take(w, data)
    BY <1>6
  <2> HIDE DEF data
  <2>3. /\ TypeInv' /\ SearchInv' /\ CacheInv' /\ AnswersInv' /\ Others(w)
        /\ worker'[w].at \in {"run", "paths"}
        /\ worker'[w].at = "paths" => Key(w)' = Key(w)
        /\ handed' = handed \cup {[path |-> Path(w), data |-> data]}
    BY <1>1, <2>1, <2>2, TakeOk
  <2>4. \A v \in Ws : v = w \/ worker'[v] = worker[v]
    BY <2>3 DEF Others
  <2>5. \A v \in Ws : worker'[v].at \notin {"parse", "load"}
    BY <1>4, <2>3, <2>4
  <2>6. MutexInv'
    BY <1>1, <1>6, <2>5, NoneAssumption DEF MutexInv
  <2>7. ConfigsInv'
    <3>1. \A v \in Ws : worker'[v].at \in {"paths", "load"} => Key(v)'.module \in DOMAIN configs
      BY <1>2, <1>5, <2>3, <2>4, <2>5, SameWorker DEF IndInv, LoaderInv, ConfigsInv
    <3> QED
      BY <1>1, <1>2, <3>1 DEF IndInv, LoaderInv, ConfigsInv
  <2>8. HandedInv'
    <3> DEFINE new == [path |-> Path(w), data |-> data]
    <3>1. /\ new = [path |-> new.path, data |-> new.data]
          /\ new.path \in DOMAIN loaded /\ new.data = loaded[new.path]
      BY <2>2
    <3>2. handed' = handed \cup {new}
      BY <2>3
    <3> HIDE DEF new
    <3>3. \A x \in handed' : /\ x = [path |-> x.path, data |-> x.data]
                             /\ x.path \in DOMAIN loaded /\ x.data = loaded[x.path]
      BY <3>1, <3>2 DEF IndInv, LoaderInv, HandedInv
    <3> QED
      BY <1>1, <2>5, <3>3 DEF HandedInv
  <2> QED
    BY <1>3, <2>3, <2>6, <2>7, <2>8 DEF IndInv, LoaderInv
<1>7. CASE /\ Path(w) \notin DOMAIN loaded
           /\ Continue(w, [worker[w] EXCEPT !.at = "load"]) /\ mutex' = w
           /\ UNCHANGED <<handed, answers>>
  <2> DEFINE l == worker[w].level
  <2>1. l \in Nat \ {0} /\ (edits = 0 => NoneAbove(Context(w), l))
    BY <1>1, ModuleLevels
  <2>2. Continue(w, [worker[w] EXCEPT !.at = "load", !.level = l])
    <3>1. [worker[w] EXCEPT !.at = "load"] = [worker[w] EXCEPT !.at = "load", !.level = l]
      BY SameLevel DEF IndInv
    <3> QED
      BY <1>7, <3>1
  <2> HIDE DEF l
  <2>3. /\ TypeInv' /\ SearchInv' /\ CacheInv' /\ AnswersInv' /\ Others(w)
        /\ worker'[w].at = "load" /\ Key(w)' = Key(w) /\ Context(w)' = Context(w)
        /\ worker'[w].level = l
    BY <1>1, <1>7, <2>1, <2>2, MoveOk
  <2>4. \A v \in Ws : v = w \/ (worker'[v] = worker[v] /\ worker[v].at \notin {"parse", "load"})
    BY <1>4, <2>3 DEF Others
  <2>5. MutexInv'
    BY <1>7, <2>3, <2>4 DEF MutexInv
  <2>6. ConfigsInv'
    <3>1. \A v \in Ws : worker'[v].at \in {"paths", "load"} => Key(v)'.module \in DOMAIN configs
      BY <1>2, <1>5, <2>3, <2>4, SameWorker DEF IndInv, LoaderInv, ConfigsInv
    <3> QED
      BY <1>1, <1>2, <3>1 DEF IndInv, LoaderInv, ConfigsInv
  <2>7. HandedInv'
    <3>1. Path(w)' = Path(w) /\ worker'[w].level <= Len(Levels(w)')
      BY <1>1, <2>3 DEF Path, Levels, l
    <3>2. \A v \in Ws : worker'[v].at = "load" => v = w
      BY <2>4
    <3>3. \A v \in Ws : worker'[v].at = "load" =>
             Path(v)' \notin DOMAIN loaded /\ worker'[v].level <= Len(Levels(v)')
      BY <1>7, <3>1, <3>2
    <3> QED
      BY <1>1, <1>7, <3>3 DEF IndInv, LoaderInv, HandedInv
  <2> QED
    BY <1>3, <2>3, <2>5, <2>6, <2>7 DEF IndInv, LoaderInv
<1> QED
  BY <1>1, <1>6, <1>7

LEMMA LoadFileStep ==
    ASSUME IndInv, NEW w \in Ws, LoadFile(w)
    PROVE  IndInv'
<1> DEFINE data == IF Path(w) \in DOMAIN files THEN files[Path(w)] ELSE None
           new == [path |-> Path(w), data |-> data]
<1>1. /\ worker[w].at = "load" /\ mutex' = None /\ Take(w, data)
      /\ loaded' = [p \in DOMAIN loaded \cup {Path(w)} |-> IF p = Path(w) THEN data ELSE loaded[p]]
      /\ UNCHANGED <<input, requests, cache, configs>>
  BY DEF LoadFile, Release
<1>2. site' = site /\ edits' = edits /\ files' = files
  BY <1>1 DEF input
<1>3. mutex = w /\ Key(w).module \in DOMAIN configs /\ Path(w) \notin DOMAIN loaded
  BY <1>1 DEF IndInv, LoaderInv, MutexInv, ConfigsInv, HandedInv
<1>4. \A v \in Ws : v # w => worker[v].at \notin {"parse", "load"}
  BY <1>3, Alone
<1>5. edits = 0 => data = IF Path(w) \in DOMAIN files THEN files[Path(w)] ELSE None
  OBVIOUS
<1>6. /\ DOMAIN loaded' = DOMAIN loaded \cup {Path(w)} /\ loaded'[Path(w)] = data
      /\ \A p \in DOMAIN loaded : loaded'[p] = loaded[p]
  BY <1>1, <1>3
<1>7. new = [path |-> new.path, data |-> new.data] /\ new.path = Path(w) /\ new.data = data
  OBVIOUS
<1> HIDE DEF data
<1>8. worker[w].level <= Len(Levels(w))
  BY <1>1 DEF IndInv, LoaderInv, HandedInv
<1>9. /\ TypeInv' /\ SearchInv' /\ CacheInv' /\ AnswersInv' /\ Others(w)
      /\ worker'[w].at \in {"run", "paths"}
      /\ worker'[w].at = "paths" => Key(w)' = Key(w)
      /\ handed' = handed \cup {new}
  BY <1>1, <1>5, <1>8, TakeOk
<1> HIDE DEF new
<1>10. \A v \in Ws : v = w \/ worker'[v] = worker[v]
  BY <1>9 DEF Others
<1>11. \A v \in Ws : worker'[v].at \notin {"parse", "load"}
  BY <1>4, <1>9, <1>10
<1>12. MutexInv'
  BY <1>1, <1>11, NoneAssumption DEF MutexInv
<1>13. ConfigsInv'
  <2>1. \A v \in Ws : worker'[v].at \in {"paths", "load"} => Key(v)'.module \in DOMAIN configs
    BY <1>2, <1>3, <1>9, <1>10, <1>11, SameWorker DEF IndInv, LoaderInv, ConfigsInv
  <2> QED
    BY <1>1, <1>2, <2>1 DEF IndInv, LoaderInv, ConfigsInv
<1>14. HandedInv'
  <2>1. \A x \in handed : /\ x = [path |-> x.path, data |-> x.data]
                          /\ x.path \in DOMAIN loaded' /\ x.data = loaded'[x.path]
    BY <1>6 DEF IndInv, LoaderInv, HandedInv
  <2>2. \A x \in handed' : /\ x = [path |-> x.path, data |-> x.data]
                           /\ x.path \in DOMAIN loaded' /\ x.data = loaded'[x.path]
    BY <1>6, <1>7, <1>9, <2>1
  <2> QED
    BY <1>11, <2>2 DEF HandedInv
<1>15. FilesInv'
  <2>1. ASSUME edits = 0, NEW p \in DOMAIN loaded'
        PROVE  loaded'[p] = IF p \in DOMAIN files THEN files[p] ELSE None
    <3>1. CASE p = Path(w)
      BY <1>5, <1>6, <2>1, <3>1
    <3>2. CASE p # Path(w)
      BY <1>6, <2>1, <3>2 DEF IndInv, FilesInv
    <3> QED
      BY <3>1, <3>2
  <2> QED
    BY <1>2, <2>1 DEF IndInv, FilesInv
<1> QED
  BY <1>9, <1>12, <1>13, <1>14, <1>15 DEF IndInv, LoaderInv
-----------------------------------------------------------------------------
(* The invariant, and what follows.                                        *)

LEMMA EditFileStep ==
    ASSUME IndInv, EditFile
    PROVE  IndInv'
<1>1. /\ edits < MaxEdits /\ edits' = edits + 1
      /\ UNCHANGED <<site, mode, requests, cache, loader, worker, answers>>
  BY DEF EditFile
<1>2. edits' \in 0 .. MaxEdits /\ edits' # 0
  BY <1>1, BoundsAssumption DEF IndInv, TypeInv
<1>3. TypeInv'
  BY <1>1, <1>2 DEF IndInv, TypeInv, Looking
<1>4. LoaderInv'
  BY <1>1 DEF IndInv, LoaderInv, MutexInv, ConfigsInv, HandedInv, loader, Key, Path, Levels, Context
<1>5. FilesInv' /\ SearchInv'
  BY <1>2 DEF FilesInv, SearchInv
<1>6. CacheInv'
  BY <1>1, <1>2 DEF IndInv, CacheInv
<1>7. AnswersInv'
  BY <1>1, <1>2 DEF IndInv, AnswersInv
<1> QED
  BY <1>3, <1>4, <1>5, <1>6, <1>7 DEF IndInv

LEMMA InitIndInv == Init => IndInv
<1> SUFFICES ASSUME Init PROVE IndInv
  OBVIOUS
<1>1. /\ site \in Sites /\ files = site.files /\ edits = 0 /\ requests = 0
      /\ configs = <<>> /\ loaded = <<>> /\ mutex = None /\ answers = <<>> /\ handed = {}
      /\ cache = [p \in DOMAIN Providers(site) |-> <<>>]
      /\ worker = [w \in Ws |-> Idle]
  BY DEF Init
<1>2. /\ Idle \in [at : {"run"}, variables : {<<>>}, request : {None}, stages : {<<>>},
                   provider : {1}, level : {1}]
      /\ Idle \in Workers /\ Idle.at = "run" /\ Idle.provider = 1
  <2>1. <<>> \in StageLists
    BY DEF StageLists
  <2> QED
    BY <2>1 DEF Idle, Workers
<1>3. \A w \in Ws : worker[w] = Idle
  BY <1>1
<1>4. 1 \in DOMAIN Providers(site)
  BY <1>1 DEF Providers
<1>5. DOMAIN <<>> = {}
  OBVIOUS
<1>6. TypeInv
  BY <1>1, <1>2, <1>3, <1>4, BoundsAssumption DEF TypeInv, Looking
<1>7. LoaderInv
  BY <1>1, <1>2, <1>3, <1>5, NoneAssumption DEF LoaderInv, MutexInv, ConfigsInv, HandedInv
<1>8. FilesInv /\ SearchInv
  BY <1>1, <1>2, <1>3, <1>5 DEF FilesInv, SearchInv, Looking
<1>9. CacheInv
  BY <1>1, <1>5 DEF CacheInv
<1>10. AnswersInv
  <2>1. \A S : <<>> \in Seq(S)
    OBVIOUS
  <2> QED
    BY <1>1, <1>5, <2>1 DEF AnswersInv
<1> QED
  BY <1>6, <1>7, <1>8, <1>9, <1>10 DEF IndInv

LEMMA StutterStep ==
    ASSUME IndInv, UNCHANGED vars
    PROVE  IndInv'
<1>1. /\ UNCHANGED <<site, mode, files, edits, requests, cache, configs, loaded, mutex, worker,
                    answers, handed>>
      /\ UNCHANGED input
  BY DEF vars, input
<1>2. TypeInv' /\ FilesInv'
  BY <1>1 DEF IndInv, TypeInv, Looking, FilesInv
<1>3. LoaderInv'
  BY <1>1 DEF IndInv, LoaderInv, MutexInv, ConfigsInv, HandedInv, Key, Path, Levels, Context
<1>4. SearchInv'
  BY <1>1, SameWorker DEF IndInv, SearchInv
<1>5. CacheInv' /\ AnswersInv'
  BY <1>1, Unanswered
<1> QED
  BY <1>2, <1>3, <1>4, <1>5 DEF IndInv

LEMMA StepIndInv == IndInv /\ [Next]_vars => IndInv'
<1> SUFFICES ASSUME IndInv, [Next]_vars PROVE IndInv'
  OBVIOUS
<1>1. ASSUME NEW w \in Ws, AssignVariable(w) \/ Ask(w) \/ EndNode(w)
      PROVE  IndInv'
  BY <1>1, AssignVariableStep, AskStep, EndNodeStep
<1>2. ASSUME NEW w \in Ws,
             NotFound(w) \/ LookUpVariable(w) \/ AnswerFromCache(w) \/ ReadLevel(w) \/ EndLevels(w)
      PROVE  IndInv'
  BY <1>2, NotFoundStep, LookUpVariableStep, AnswerFromCacheStep, ReadLevelStep, EndLevelsStep
<1>3. ASSUME NEW w \in Ws,
             FindConfig(w) \/ ParseConfig(w) \/ EndPaths(w) \/ FindFile(w) \/ LoadFile(w)
      PROVE  IndInv'
  BY <1>3, FindConfigStep, ParseConfigStep, EndPathsStep, FindFileStep, LoadFileStep
<1>4. CASE EditFile
  BY <1>4, EditFileStep
<1>5. CASE UNCHANGED vars
  BY <1>5, StutterStep
<1> QED
  BY <1>1, <1>2, <1>3, <1>4, <1>5 DEF Next, Evaluate

LEMMA SpecIndInv == Spec => []IndInv
<1> QED
  BY InitIndInv, StepIndInv, PTL DEF Spec

LEMMA IndInvImplies == IndInv => AnswersExplained /\ OneVersion
<1> SUFFICES ASSUME IndInv PROVE AnswersExplained /\ OneVersion
  OBVIOUS
<1>1. TypeOK
  BY DEF IndInv, TypeInv, LoaderInv, MutexInv, ConfigsInv, CacheInv, TypeOK, Workers
<1>2. FirstMatch /\ SequentialExplained /\ MissesNotCached
  <2>1. edits = 0 => \A i \in DOMAIN answers : Explained(i)
    BY DEF IndInv, AnswersInv
  <2>2. FirstMatch
    BY <2>1 DEF FirstMatch, Explained
  <2>3. SequentialExplained
    BY <2>1 DEF SequentialExplained, Explained
  <2>4. MissesNotCached
    BY <2>1 DEF MissesNotCached, Explained
  <2> QED
    BY <2>2, <2>3, <2>4
<1>3. OneVersion
  <2> SUFFICES ASSUME NEW x \in handed, NEW y \in handed, x.path = y.path PROVE x = y
    BY DEF OneVersion
  <2>1. /\ x = [path |-> x.path, data |-> x.data] /\ x.data = loaded[x.path]
        /\ y = [path |-> y.path, data |-> y.data] /\ y.data = loaded[y.path]
    BY DEF IndInv, LoaderInv, HandedInv
  <2> QED
    BY <2>1
<1> QED
  BY <1>1, <1>2, <1>3 DEF AnswersExplained

\* While nobody edits the files, every lookup is answered with the first match of
\* the hierarchies for its own node, variables and module, or, when nodes are
\* evaluated one after the other, with what an earlier lookup of the key found for
\* its own; and what was not found hides nothing.
THEOREM LookupsAreExplained == Spec => []AnswersExplained
<1> QED
  BY SpecIndInv, IndInvImplies, PTL

\* Whatever is edited and however the threads race for cache_mutex, a module's data
\* file is seen in one version.
THEOREM FilesHaveOneVersion == Spec => []OneVersion
<1> QED
  BY SpecIndInv, IndInvImplies, PTL
=============================================================================
