---------------------------- MODULE HieraLookup ----------------------------
(***************************************************************************)
(* Hiera: the hierarchies that the environment's and the modules'          *)
(* hiera.yaml come to, and lookups in them while a node is evaluated.      *)
(* Nodes are evaluated one after the other in one environment, whose       *)
(* provider keeps a cache of answers, or by a thread each without it; the  *)
(* caches of module data are the loader's and belong to all threads.       *)
(*                                                                         *)
(* A file holds a set of keys; the value of a key is the path of the file  *)
(* and its version, so that an answer tells where it comes from.  A key is *)
(* [module, name] with module "" if it is unqualified; "" also stands for  *)
(* an empty segment of a path.                                             *)
(***************************************************************************)
EXTENDS Integers, Sequences, FiniteSets

CONSTANTS
    Nodes,        \* in the order of the facts file
    Facts,        \* [set of Nodes -> [fact -> value]]
    Roles,        \* the values a manifest may assign to $role
    Requests,     \* [kind, key, caller]: what a manifest may look up, in which module
    Sites,        \* [datadir, hiera, modules, files]: the command line and the directory
    Modes,        \* subset of {"sequential", "parallel"}
    MaxRequests,  \* bound: lookups of a run
    MaxEdits,     \* bound: data files edited during a run
    None          \* no such option, file or value

VARIABLES
    site,      \* what the program was started with
    mode,      \* with -P or without
    files,     \* the data files: [keys, version]
    edits,     \* how many were edited
    requests,  \* how many lookups were made
    cache,     \* config->cache of each provider
    configs,   \* loader->module_hiera
    loaded,    \* loader->module_hiera_files
    mutex,     \* loader->cache_mutex
    worker,    \* what the evaluation of each node is doing
    answers,   \* for the properties: the lookups that were answered, in order
    handed     \* for the properties: what was taken from a module's file

vars == <<site, mode, files, edits, requests, cache, configs, loaded, mutex,
          worker, answers, handed>>

Ws == DOMAIN Nodes

-----------------------------------------------------------------------------
(* hiera.yaml is [version, datadir, levels], a level [backend, datadir,    *)
(* path], a path a sequence of segments <<"text" | "module" | "fact" |     *)
(* "var", name>>                                                           *)

Or(v, otherwise) == IF v = None THEN otherwise ELSE v

Readable(level) == level.backend = "yaml_data"

\* Levels of other backends are reported and left out
hiera_v5_walk(doc, fallback) ==
    LET levels == SelectSeq(doc.levels, Readable)
    IN  [i \in DOMAIN levels |->
            [datadir |-> Or(levels[i].datadir, Or(doc.datadir, fallback)),
             path    |-> levels[i].path]]

puppet_hiera_config_create_default(datadir) ==
    <<[datadir |-> datadir, path |-> <<<<"text", "common">>>>]>>

puppet_hiera_config_create(doc) ==
    CASE doc.version = "none" -> puppet_hiera_config_create_default("data")
      [] doc.version = "5"    -> hiera_v5_walk(doc, "data")
      [] doc.version = "3"    -> [i \in DOMAIN doc.levels |->
                                    [datadir |-> Or(doc.datadir, "hieradata"),
                                     path    |-> doc.levels[i].path]]
      [] OTHER                -> <<>>

\* -D names a directory; a hiera.yaml beside it keeps its levels and loses its datadirs
puppet_hiera_data_provider_init(datadir, doc) ==
    IF doc = None THEN puppet_hiera_config_create_default(datadir)
    ELSE LET levels == puppet_hiera_config_create(doc)
         IN  [i \in DOMAIN levels |-> [levels[i] EXCEPT !.datadir = datadir]]

\* Every environment begins with a provider of its own; the one that was asked for
\* comes second
Providers(s) ==
    <<puppet_hiera_config_create_default("data")>> \o
    (CASE s.datadir # None -> <<puppet_hiera_data_provider_init(s.datadir, s.hiera)>>
       [] s.datadir = None /\ s.hiera # None -> <<puppet_hiera_config_create(s.hiera)>>
       [] OTHER -> <<>>)

\* A module's hiera.yaml has to be of version 5; without a level it is as good as none
module_hiera_parse_config(s, module) ==
    IF module \in DOMAIN s.modules /\ s.modules[module].version = "5"
    THEN hiera_v5_walk(s.modules[module], "data")
    ELSE <<>>

\* The module a lookup is made for: the key's, or the one that calls
ModuleName(key, caller) == IF key.module # "" THEN key.module ELSE caller

At(f, k) == IF k \in DOMAIN f THEN f[k] ELSE ""

\* A variable that is not set is not asked of Hiera again (in_hiera_interpolation)
Segment(segment, c) ==
    CASE segment[1] = "text"   -> segment[2]
      [] segment[1] = "module" -> ModuleName(c.key, c.caller)
      [] segment[1] = "fact"   -> At(Facts[c.node], segment[2])
      [] segment[1] = "var"    -> At(c.variables, segment[2])

puppet_hiera_interpolate(level, c) ==
    <<level.datadir>> \o [i \in DOMAIN level.path |-> Segment(level.path[i], c)]

\* The paths of a module know facts and nothing else
module_hiera_interpolate_path(level, c) ==
    <<"modules", c.key.module, level.datadir>> \o
    [i \in DOMAIN level.path |->
        IF level.path[i][1] \in {"text", "fact"} THEN Segment(level.path[i], c) ELSE ""]

Holds(fs, path, key) == path \in DOMAIN fs /\ key \in fs[path].keys

Value(fs, path) == <<path, fs[path].version>>

VariableValue(name, value) == <<<<"variable", name, value>>, 0>>

ASSUME BoundsAssumption == MaxRequests \in Nat /\ MaxEdits \in Nat

ASSUME RequestsAssumption ==
    \A request \in Requests : request.kind \in {"lookup", "hiera", "variable", "apl"}

\* A thread, a file and a value are none of them None
ASSUME NoneAssumption ==
    /\ None \notin Ws
    /\ \A s \in Sites : \A path \in DOMAIN s.files :
          s.files[path] # None /\ Value(s.files, path) # None
    /\ \A role \in Roles : VariableValue("role", role) # None

IsList(s) == Len(s) \in Nat /\ DOMAIN s = 1 .. Len(s)

\* What a hiera.yaml comes to is a list of levels
ASSUME HierarchiesAssumption ==
    \A s \in Sites :
        /\ \A p \in DOMAIN Providers(s) : IsList(Providers(s)[p])
        /\ \A request \in Requests : IsList(module_hiera_parse_config(s, request.key.module))

-----------------------------------------------------------------------------
(* A lookup goes through stages; the first that finds something answers    *)

Stages(kind) ==
    CASE kind = "lookup"   -> <<"providers", "variable", "providers">>
      [] kind = "hiera"    -> <<"providers">>
      [] kind = "variable" -> <<"variable", "providers">>
      [] kind = "apl"      -> <<"providers", "module">>

Context(w) == [node |-> Nodes[w], variables |-> worker[w].variables,
               kind |-> worker[w].request.kind, key |-> worker[w].request.key,
               caller |-> worker[w].request.caller]

Key(w)    == worker[w].request.key
Stage(w)  == IF worker[w].stages = <<>> THEN "none" ELSE Head(worker[w].stages)
InStage(w, stage) == worker[w].at = "stage" /\ Stage(w) = stage
Config(w) == Providers(site)[worker[w].provider]

loader == <<configs, loaded, mutex, handed>>
input  == <<site, mode, files, edits>>

Continue(w, state) == worker' = [worker EXCEPT ![w] = state]

\* The next stage begins with the first provider and the first level
NextStage(w) == [worker[w] EXCEPT !.at = "stage", !.stages = Tail(@), !.provider = 1, !.level = 1]

NextProvider(w) ==
    IF worker[w].provider < Len(Providers(site))
    THEN [worker[w] EXCEPT !.provider = @ + 1, !.level = 1]
    ELSE NextStage(w)

Answer(w, value) ==
    /\ Continue(w, [worker[w] EXCEPT !.at = "run", !.stages = <<>>])
    /\ answers' = Append(answers, [context |-> Context(w), value |-> value])

Running(w) ==
    /\ worker[w].at = "run"
    /\ mode = "sequential" => \A v \in Ws : v < w => worker[v].at = "done"

AssignVariable(w) ==
    /\ Running(w)
    /\ worker[w].variables = <<>>
    /\ \E role \in Roles : Continue(w, [worker[w] EXCEPT !.variables = [r \in {"role"} |-> role]])
    /\ UNCHANGED <<input, requests, cache, loader, answers>>

Ask(w) ==
    /\ Running(w)
    /\ requests < MaxRequests
    /\ \E request \in Requests :
         Continue(w, [worker[w] EXCEPT !.at = "stage", !.request = request, !.provider = 1,
                                       !.level = 1, !.stages = Stages(request.kind)])
    /\ requests' = requests + 1
    /\ UNCHANGED <<input, cache, loader, answers>>

EndNode(w) ==
    /\ Running(w)
    /\ Continue(w, [worker[w] EXCEPT !.at = "done"])
    /\ UNCHANGED <<input, requests, cache, loader, answers>>

\* Nothing was found
NotFound(w) ==
    /\ InStage(w, "none")
    /\ Answer(w, None)
    /\ UNCHANGED <<input, requests, cache, loader>>

LookUpVariable(w) ==
    /\ InStage(w, "variable")
    /\ IF Key(w).module = "" /\ Key(w).name \in DOMAIN worker[w].variables
       THEN Answer(w, VariableValue(Key(w).name, worker[w].variables[Key(w).name]))
       ELSE Continue(w, NextStage(w)) /\ UNCHANGED answers
    /\ UNCHANGED <<input, requests, cache, loader>>

-----------------------------------------------------------------------------
(* puppet_hiera_lookup: the cache, then level by level                     *)

\* What an answer is cached under: not the node, nor the module that calls
CacheKey(key) == key

\* Mutant: the threads use the cache as well
UseCache_Always == TRUE

UseCache == mode = "sequential"

Cached(w) ==
    UseCache /\ worker[w].level = 1 /\ CacheKey(Key(w)) \in DOMAIN cache[worker[w].provider]

AnswerFromCache(w) ==
    /\ InStage(w, "providers")
    /\ Cached(w)
    /\ Answer(w, cache[worker[w].provider][CacheKey(Key(w))])
    /\ UNCHANGED <<input, requests, cache, loader>>

Keep(provider, key, value) ==
    cache' = IF UseCache
             THEN [cache EXCEPT ![provider] =
                     [k \in DOMAIN @ \cup {CacheKey(key)} |-> IF k = CacheKey(key) THEN value ELSE @[k]]]
             ELSE cache

\* Mutant: a variable that is not set is looked up in Hiera, which comes to the
\* same path again
ReadLevel_AsksAgain(w) ==
    /\ InStage(w, "providers")
    /\ ~ Cached(w)
    /\ worker[w].level <= Len(Config(w))
    /\ LET path == puppet_hiera_interpolate(Config(w)[worker[w].level], Context(w))
       IN  CASE \E i \in DOMAIN path : path[i] = "" -> UNCHANGED <<worker, cache, answers>>
             [] (\A i \in DOMAIN path : path[i] # "") /\ Holds(files, path, Key(w)) ->
                    /\ Answer(w, Value(files, path))
                    /\ Keep(worker[w].provider, Key(w), Value(files, path))
             [] OTHER -> /\ Continue(w, [worker[w] EXCEPT !.level = @ + 1])
                         /\ UNCHANGED <<cache, answers>>
    /\ UNCHANGED <<input, requests, loader>>

ReadLevel(w) ==
    /\ InStage(w, "providers")
    /\ ~ Cached(w)
    /\ worker[w].level <= Len(Config(w))
    /\ LET path == puppet_hiera_interpolate(Config(w)[worker[w].level], Context(w))
       IN  IF Holds(files, path, Key(w))
           THEN /\ Answer(w, Value(files, path))
                /\ Keep(worker[w].provider, Key(w), Value(files, path))
           ELSE /\ Continue(w, [worker[w] EXCEPT !.level = @ + 1])
                /\ UNCHANGED <<cache, answers>>
    /\ UNCHANGED <<input, requests, loader>>

EndLevels(w) ==
    /\ InStage(w, "providers")
    /\ ~ Cached(w)
    /\ worker[w].level > Len(Config(w))
    /\ Continue(w, NextProvider(w))
    /\ UNCHANGED <<input, requests, cache, loader, answers>>

-----------------------------------------------------------------------------
(* puppet_hiera_module_lookup: the caches are searched and filled with     *)
(* cache_mutex held                                                        *)

Release(w) == mutex' = None

FindConfig(w) ==
    /\ InStage(w, "module")
    /\ mutex = None
    /\ IF Key(w).module \in DOMAIN configs
       THEN Continue(w, [worker[w] EXCEPT !.at = "paths"]) /\ UNCHANGED mutex
       ELSE Continue(w, [worker[w] EXCEPT !.at = "parse"]) /\ mutex' = w
    /\ UNCHANGED <<input, requests, cache, configs, loaded, handed, answers>>

ParseConfig(w) ==
    /\ worker[w].at = "parse"
    /\ configs' = [m \in DOMAIN configs \cup {Key(w).module} |->
                      IF m = Key(w).module THEN module_hiera_parse_config(site, m) ELSE configs[m]]
    /\ Continue(w, [worker[w] EXCEPT !.at = "paths"])
    /\ Release(w)
    /\ UNCHANGED <<input, requests, cache, loaded, handed, answers>>

Levels(w) == configs[Key(w).module]
Path(w)   == module_hiera_interpolate_path(Levels(w)[worker[w].level], Context(w))

EndPaths(w) ==
    /\ worker[w].at = "paths"
    /\ worker[w].level > Len(Levels(w))
    /\ Continue(w, NextStage(w))
    /\ UNCHANGED <<input, requests, cache, loader, answers>>

\* What is done with the data of a file: the first that holds the key answers
Take(w, data) ==
    /\ handed' = handed \cup {[path |-> Path(w), data |-> data]}
    /\ IF data # None /\ Key(w) \in data.keys
       THEN Answer(w, <<Path(w), data.version>>)
       ELSE /\ Continue(w, [worker[w] EXCEPT !.at = "paths", !.level = @ + 1])
            /\ UNCHANGED answers

\* Mutant: the file is loaded after the mutex was released
FindFile_Unlocked(w) ==
    /\ worker[w].at = "paths"
    /\ worker[w].level <= Len(Levels(w))
    /\ mutex = None
    /\ IF Path(w) \in DOMAIN loaded
       THEN Take(w, loaded[Path(w)])
       ELSE Continue(w, [worker[w] EXCEPT !.at = "load"]) /\ UNCHANGED <<handed, answers>>
    /\ UNCHANGED <<input, requests, cache, configs, loaded, mutex>>

FindFile(w) ==
    /\ worker[w].at = "paths"
    /\ worker[w].level <= Len(Levels(w))
    /\ mutex = None
    /\ IF Path(w) \in DOMAIN loaded
       THEN Take(w, loaded[Path(w)]) /\ UNCHANGED mutex
       ELSE /\ Continue(w, [worker[w] EXCEPT !.at = "load"]) /\ mutex' = w
            /\ UNCHANGED <<handed, answers>>
    /\ UNCHANGED <<input, requests, cache, configs, loaded>>

\* A file that is not there is remembered too
LoadFile(w) ==
    /\ worker[w].at = "load"
    /\ LET data == IF Path(w) \in DOMAIN files THEN files[Path(w)] ELSE None
       IN  /\ loaded' = [p \in DOMAIN loaded \cup {Path(w)} |->
                            IF p = Path(w) THEN data ELSE loaded[p]]
           /\ Take(w, data)
    /\ Release(w)
    /\ UNCHANGED <<input, requests, cache, configs>>

-----------------------------------------------------------------------------
\* Somebody deploys another version of a data file, or removes one
EditFile ==
    /\ edits < MaxEdits
    /\ edits' = edits + 1
    /\ \E path \in DOMAIN files :
         \/ files' = [files EXCEPT ![path].version = @ + 1]
         \/ files' = [p \in DOMAIN files \ {path} |-> files[p]]
    /\ UNCHANGED <<site, mode, requests, cache, loader, worker, answers>>

Idle == [at |-> "run", variables |-> <<>>, request |-> None, stages |-> <<>>,
         provider |-> 1, level |-> 1]

Init ==
    /\ site \in Sites
    /\ mode \in Modes
    /\ files = site.files
    /\ edits = 0
    /\ requests = 0
    /\ cache = [p \in DOMAIN Providers(site) |-> <<>>]
    /\ configs = <<>>
    /\ loaded = <<>>
    /\ mutex = None
    /\ worker = [w \in Ws |-> Idle]
    /\ answers = <<>>
    /\ handed = {}

Evaluate(w) ==
    \/ NotFound(w)
    \/ LookUpVariable(w)
    \/ AnswerFromCache(w)
    \/ ReadLevel(w)
    \/ EndLevels(w)
    \/ FindConfig(w)
    \/ ParseConfig(w)
    \/ EndPaths(w)
    \/ FindFile(w)
    \/ LoadFile(w)
    \/ EndNode(w)

Finished == \A w \in Ws : worker[w].at = "done"

Next ==
    \/ \E w \in Ws : AssignVariable(w) \/ Ask(w) \/ Evaluate(w)
    \/ EditFile
    \/ Finished /\ UNCHANGED vars

Spec == Init /\ [][Next]_vars /\ \A w \in Ws : WF_vars(Evaluate(w))

-----------------------------------------------------------------------------
(* Properties *)

\* The mutex is held by the worker that fills a cache and by no other, a lookup that
\* is under way has a place in the hierarchies, and parallel evaluation leaves the
\* providers' caches empty.
TypeOK ==
    /\ edits \in 0 .. MaxEdits /\ requests \in 0 .. MaxRequests
    /\ \A w \in Ws :
         /\ worker[w].at \in {"run", "stage", "parse", "paths", "load", "done"}
         /\ worker[w].provider \in DOMAIN Providers(site)
         /\ worker[w].at \in {"parse", "load"} <=> mutex = w
         /\ worker[w].at \in {"paths", "load"} => Key(w).module \in DOMAIN configs
    /\ mode = "parallel" => \A p \in DOMAIN cache : cache[p] = <<>>

\* What a lookup comes to, said without the way it is made: the value in the first
\* level of the first provider that has one, then the variable or the module's data,
\* in the order of the kind of lookup.
First(hits) == CHOOSE x \in hits : \A y \in hits : x[1] < y[1] \/ (x[1] = y[1] /\ x[2] <= y[2])

FromHierarchies(hierarchies, Interpolate(_, _), c) ==
    LET hits == {x \in UNION {{p} \X DOMAIN hierarchies[p] : p \in DOMAIN hierarchies} :
                    Holds(site.files, Interpolate(hierarchies[x[1]][x[2]], c), c.key)}
        best == First(hits)
    IN  IF hits = {} THEN None
        ELSE Value(site.files, Interpolate(hierarchies[best[1]][best[2]], c))

FromProviders(c) == FromHierarchies(Providers(site), puppet_hiera_interpolate, c)

FromModule(c) ==
    FromHierarchies(<<module_hiera_parse_config(site, c.key.module)>>,
                    module_hiera_interpolate_path, c)

FromVariable(c) ==
    IF c.key.module = "" /\ c.key.name \in DOMAIN c.variables
    THEN VariableValue(c.key.name, c.variables[c.key.name]) ELSE None

Expected(c) ==
    CASE c.kind = "lookup"   -> Or(FromProviders(c), FromVariable(c))
      [] c.kind = "hiera"    -> FromProviders(c)
      [] c.kind = "variable" -> Or(FromVariable(c), FromProviders(c))
      [] c.kind = "apl"      -> Or(FromProviders(c), FromModule(c))

\* With a thread for each node every lookup is answered from the files as they are,
\* for the facts, the variables and the module of its own node, whatever the other
\* threads look up meanwhile.
FirstMatch ==
    (mode = "parallel" /\ edits = 0) =>
        \A i \in DOMAIN answers : answers[i].value = Expected(answers[i].context)

\* One after the other, an answer is either the node's own or one that an earlier
\* lookup of the same key found for its own node, variables and module.
SequentialExplained ==
    (mode = "sequential" /\ edits = 0) =>
        \A i \in DOMAIN answers :
            \/ answers[i].value = Expected(answers[i].context)
            \/ \E j \in 1 .. i - 1 :
                  /\ answers[j].context.key = answers[i].context.key
                  /\ answers[i].value = FromProviders(answers[j].context)

\* That a node has no value for a key never hides the value of another node: what
\* is not found is not cached.
MissesNotCached ==
    edits = 0 =>
        \A i \in DOMAIN answers :
            answers[i].value = None => Expected(answers[i].context) = None

\* All lookups of a run see one version of a module's data file, also when the file
\* is replaced while two threads ask for it first.
OneVersion == \A x, y \in handed : x.path = y.path => x = y

\* Evaluation ends, also when a path needs a variable that is not set.
Terminates == <>Finished

\* Each node is answered as if it were evaluated alone, in whatever mode
\* (tests/test_parallel_consistency.sh:2-3).
SameAsAlone ==
    edits = 0 => \A i \in DOMAIN answers : answers[i].value = Expected(answers[i].context)

\* Each lookup is answered with the first match for its node, or in sequential mode
\* with an earlier lookup's, and nothing found by nobody hides a value.
AnswersExplained == TypeOK /\ FirstMatch /\ SequentialExplained /\ MissesNotCached
=============================================================================
