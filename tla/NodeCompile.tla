---------------------------- MODULE NodeCompile ----------------------------
(***************************************************************************)
(* puppetc-compile --all-nodes with a facts file, one node after the other *)
(* or with -P one thread per node: puppet_exec_program,                    *)
(* puppet_exec_node_for_certname and puppet_exec_nodes_parallel of         *)
(* compiler/puppet_interpreter.c, the manifest and class caches of         *)
(* compiler/puppet_loader.c that the threads share, the registries of the  *)
(* program state, and the exit status main.c derives.                      *)
(*                                                                         *)
(* Environment 0 is the one main.c creates; node n compiled by a thread    *)
(* has the clone n.  A statement stands for its effects: an include, a     *)
(* resource declaration or a call of fail().  Every critical section, and  *)
(* every read or write of shared state outside one, is a step.             *)
(***************************************************************************)
EXTENDS Naturals, Sequences, FiniteSets, FiniteSetsExt, SequencesExt

CONSTANTS
    N,             \* nodes of the facts file
    Classes,       \* classes the loader finds in module manifests
    BodyOf,        \* their statements
    ModuleOf,      \* the module each belongs to
    Missing,       \* classes without a manifest that can be parsed
    Incompatible,  \* modules whose metadata.json excludes Puppet 8
    Legacy,        \* number of errors the legacy-fact lint finds in a manifest
    Resources,
    TypeOf,        \* type of a resource
    Builtin,       \* types puppet_type_is_builtin knows
    RubyTypes,     \* types under lib/puppet/type of the modules
    RefersTo,      \* what the relationship parameters of a resource name
    Policy,        \* entries of .puppetc-policy.json, in file order
    PolicyErrors,  \* entries with level error
    Sites,         \* site manifests: top-level statements (0) and node blocks
    NoBlock,       \* in place of a node block when none matches the node
    NoProgram,     \* NULL in place of a parsed manifest
    Nobody,        \* reg_mutex is free
    Modes,         \* values of -P
    Summaries,     \* values of -s
    MaxLost        \* bound: threads that pthread_create fails to start

Envs  == 0..N
Nodes == 1..N

Statements ==
         [op : {"include"}, name : Classes]
    \cup [op : {"resource"}, name : Resources]
    \cup [op : {"fail"}]

\* A parsed manifest, told apart by who parsed it; a file is parsed at most once
\* by each environment, for the result is in the cache from then on.
Programs == Envs \X Classes

\* A class body in progress ends by leaving the class; the statement keeps the
\* program that owns the body.
Frames == Statements \cup [op : {"leave"}, name : Classes, program : Programs]

ASSUME NodesAssumption == N \in Nat /\ MaxLost \in Nat
ASSUME SitesAssumption ==
    \A site \in Sites :
        /\ site[0] \in Seq(Statements)
        /\ \A n \in Nodes : site[n] \in Seq(Statements) \cup {NoBlock}
ASSUME OptionsAssumption == Modes \subseteq BOOLEAN /\ Summaries \subseteq BOOLEAN
ASSUME ManifestsAssumption ==
    /\ IsFiniteSet(Classes) /\ IsFiniteSet(Resources)
    /\ BodyOf \in [Classes -> Seq(Statements)]
    /\ Legacy \in [Classes -> Nat]
    /\ RefersTo \in [Resources -> SUBSET (Resources \cup Classes)]
ASSUME PolicyAssumption == Policy \in Seq(Resources)
ASSUME NullAssumption ==
    NoProgram \notin Programs /\ Nobody \notin Envs /\ NoBlock \notin Seq(Statements)

VARIABLES
    site, parallel, summary,      \* the manifest, -P and -s
    main,                         \* where main's thread is
    next,                         \* next node of the facts file
    started, joined,              \* threads created, number of them joined
    report,                       \* node sections written to stderr
    exit_code,
    lost,                         \* nodes whose thread could not be created
    pc, todo,                     \* an environment's position and statements left
    env,                          \* its per-node tables and counters
    held,                         \* the program load_manifest or load_class returned
    catalog,                      \* env->catalog of environment 0
    parsed_manifests, loaded_classes, destroyed, lints,
    reg_mutex,
    ruby_types, ruby_types_initialized,
    policy_loaded, policy_entry_count, policy_filled, policy_warned, flagged

optVars      == <<site, parallel, summary>>
mainVars     == <<main, next, started, joined, report, exit_code, lost>>
loaderVars   == <<held, parsed_manifests, loaded_classes, destroyed, lints>>
typeVars     == <<ruby_types, ruby_types_initialized>>
policyVars   == <<policy_loaded, policy_entry_count, policy_filled, policy_warned, flagged>>
registryVars == <<reg_mutex, typeVars, policyVars>>
vars == <<optVars, mainVars, pc, todo, env, catalog, loaderVars, registryVars>>

\* The part of puppet_env_t that belongs to one node, and its counters.
FreshEnv ==
    [resource_catalog |-> {}, class_scopes |-> {}, modules_p8_checked |-> {},
     errors_count |-> 0, warnings_count |-> 0, nodes_processed |-> 0, nodes_failed |-> 0,
     current_node_failed |-> FALSE, stop_on_error |-> FALSE, compilation_failed |-> FALSE,
     printed |-> 0]

Init ==
    /\ site \in Sites
    /\ parallel \in Modes
    /\ summary \in Summaries
    /\ main = "top"
    /\ next = 1
    /\ started = <<>>
    /\ joined = 0
    /\ report = <<>>
    /\ exit_code = 0
    /\ lost = {}
    /\ pc = [e \in Envs |-> IF e = 0 THEN "stmt" ELSE "off"]
    /\ todo = [e \in Envs |-> IF e = 0 THEN site[0] ELSE <<>>]
    /\ env = [e \in Envs |-> FreshEnv]
    /\ held = [e \in Envs |-> NoProgram]
    /\ catalog = {}
    /\ parsed_manifests = [c \in Classes |-> NoProgram]
    /\ loaded_classes = [c \in Classes |-> NoProgram]
    /\ destroyed = {}
    /\ lints = [c \in Classes |-> 0]
    /\ reg_mutex = Nobody
    /\ ruby_types = {}
    /\ ruby_types_initialized = FALSE
    /\ policy_loaded = FALSE
    /\ policy_entry_count = 0
    /\ policy_filled = 0
    /\ policy_warned = {}
    /\ flagged = [r \in Resources |-> 0]
-----------------------------------------------------------------------------
(* Diagnostics.  "printed" counts the error diagnostics an environment     *)
(* wrote, to its buffer or to stderr.                                      *)

puppet_env_increment_error(v) ==
    [v EXCEPT !.errors_count = @ + 1, !.current_node_failed = TRUE]

puppet_error_at(v) ==
    [puppet_env_increment_error(v) EXCEPT !.printed = @ + 1]

puppet_warning_at(v) == [v EXCEPT !.warnings_count = @ + 1]

\* fail(), a duplicate, an unknown type and a missing class are logged, which
\* counts them, and then counted by the caller.
ErrorTwice(v) == puppet_env_increment_error(puppet_error_at(v))

Goto(e, label) == pc' = [pc EXCEPT ![e] = label]

\* The statement being executed, and what it is about.
At(e, label, op) == pc[e] = label /\ todo[e] # <<>> /\ Head(todo[e]).op = op
Name(e) == Head(todo[e]).name

\* env->build_catalog: puppet_env_clone_for_node leaves it off.
BuildCatalog(e) == e = 0 /\ summary

NextStmt(e) ==
    /\ Goto(e, "stmt")
    /\ todo' = [todo EXCEPT ![e] = Tail(@)]
-----------------------------------------------------------------------------
(* include: compiler/puppet_loader.c.                                      *)

\* The metadata of the class's module is looked at once per node.
CheckModule(v, module) ==
    IF module \in v.modules_p8_checked THEN v
    ELSE LET checked == [v EXCEPT !.modules_p8_checked = @ \cup {module}]
         IN  IF module \in Incompatible THEN puppet_error_at(checked) ELSE checked

puppet_exec_include(e) ==
    /\ At(e, "stmt", "include")
    /\ env' = [env EXCEPT ![e] = CheckModule(@, ModuleOf[Name(e)])]
    /\ IF Name(e) \in env[e].class_scopes
       THEN NextStmt(e)
       ELSE Goto(e, "load_class") /\ UNCHANGED todo
    /\ UNCHANGED <<optVars, mainVars, catalog, loaderVars, registryVars>>

LoadClass(e) ==
    /\ At(e, "load_class", "include")
    /\ held' = [held EXCEPT ![e] = loaded_classes[Name(e)]]
    /\ Goto(e, IF loaded_classes[Name(e)] # NoProgram THEN "enter" ELSE "load_manifest")
    /\ UNCHANGED <<optVars, mainVars, todo, env, catalog, parsed_manifests, loaded_classes,
                   destroyed, lints, registryVars>>

LoadManifest(e) ==
    /\ At(e, "load_manifest", "include")
    /\ held' = [held EXCEPT ![e] = parsed_manifests[Name(e)]]
    /\ Goto(e, IF parsed_manifests[Name(e)] # NoProgram THEN "register" ELSE "parse")
    /\ UNCHANGED <<optVars, mainVars, todo, env, catalog, parsed_manifests, loaded_classes,
                   destroyed, lints, registryVars>>

\* The file is parsed without a lock; a failure comes back to
\* puppet_exec_include, which reports it.
ParseManifest(e) ==
    /\ At(e, "parse", "include")
    /\ IF Name(e) \in Missing
       THEN /\ env' = [env EXCEPT ![e] = ErrorTwice(@)]
            /\ NextStmt(e)
            /\ UNCHANGED held
       ELSE /\ held' = [held EXCEPT ![e] = <<e, Name(e)>>]
            /\ Goto(e, "insert")
            /\ UNCHANGED <<todo, env>>
    /\ UNCHANGED <<optVars, mainVars, catalog, parsed_manifests, loaded_classes, destroyed,
                   lints, registryVars>>

\* Mutant: the loser goes on with the program it destroyed.
InsertManifest_KeepsOwn(e) ==
    /\ At(e, "insert", "include")
    /\ IF parsed_manifests[Name(e)] # NoProgram
       THEN /\ destroyed' = destroyed \cup {held[e]}
            /\ Goto(e, "register")
            /\ UNCHANGED parsed_manifests
       ELSE /\ parsed_manifests' = [parsed_manifests EXCEPT ![Name(e)] = held[e]]
            /\ Goto(e, "lint")
            /\ UNCHANGED destroyed
    /\ UNCHANGED <<optVars, mainVars, todo, env, catalog, held, loaded_classes, lints, registryVars>>

\* The loser of a race destroys its own program and uses the cached one.
InsertManifest(e) ==
    LET cached == parsed_manifests[Name(e)]
    IN  /\ At(e, "insert", "include")
        /\ IF cached # NoProgram
           THEN /\ destroyed' = destroyed \cup {held[e]}
                /\ held' = [held EXCEPT ![e] = cached]
                /\ Goto(e, "register")
                /\ UNCHANGED parsed_manifests
           ELSE /\ parsed_manifests' = [parsed_manifests EXCEPT ![Name(e)] = held[e]]
                /\ Goto(e, "lint")
                /\ UNCHANGED <<destroyed, held>>
        /\ UNCHANGED <<optVars, mainVars, todo, env, catalog, loaded_classes, lints, registryVars>>

\* The lint's findings go to the environment of the thread that won.
LintManifest(e) ==
    LET found == Legacy[Name(e)]
    IN  /\ At(e, "lint", "include")
        /\ lints' = [lints EXCEPT ![Name(e)] = @ + 1]
        /\ env' = [env EXCEPT ![e].errors_count = @ + found,
                              ![e].printed = @ + found,
                              ![e].current_node_failed = @ \/ found > 0]
        /\ Goto(e, "register")
        /\ UNCHANGED <<optVars, mainVars, todo, catalog, held, parsed_manifests, loaded_classes,
                       destroyed, registryVars>>

RegisterClass(e) ==
    LET cached == loaded_classes[Name(e)]
    IN  /\ At(e, "register", "include")
        /\ IF cached # NoProgram
           THEN held' = [held EXCEPT ![e] = cached] /\ UNCHANGED loaded_classes
           ELSE loaded_classes' = [loaded_classes EXCEPT ![Name(e)] = held[e]] /\ UNCHANGED held
        /\ Goto(e, "enter")
        /\ UNCHANGED <<optVars, mainVars, todo, env, catalog, parsed_manifests, destroyed, lints,
                       registryVars>>

\* The class counts as included before its body runs, so that classes may
\* include each other.
EnterClass(e) ==
    /\ At(e, "enter", "include")
    /\ env' = [env EXCEPT ![e].class_scopes = @ \cup {Name(e)}]
    /\ todo' = [todo EXCEPT ![e] =
                  BodyOf[Name(e)]
                  \o <<[op |-> "leave", name |-> Name(e), program |-> held[e]]>>
                  \o Tail(@)]
    /\ held' = [held EXCEPT ![e] = NoProgram]
    /\ Goto(e, "stmt")
    /\ UNCHANGED <<optVars, mainVars, catalog, parsed_manifests, loaded_classes, destroyed, lints,
                   registryVars>>

LeaveClass(e) ==
    /\ At(e, "stmt", "leave")
    /\ catalog' = IF BuildCatalog(e) THEN catalog \cup {Name(e)} ELSE catalog
    /\ NextStmt(e)
    /\ UNCHANGED <<optVars, mainVars, env, loaderVars, registryVars>>
-----------------------------------------------------------------------------
(* fail() and resource declarations: compiler/puppet_interpreter.c.        *)

puppet_func_fail(e) ==
    /\ At(e, "stmt", "fail")
    /\ env' = [env EXCEPT ![e] = [ErrorTwice(@) EXCEPT !.compilation_failed = TRUE]]
    /\ NextStmt(e)
    /\ UNCHANGED <<optVars, mainVars, catalog, loaderVars, registryVars>>

\* puppet_type_is_known: built-in types need no registry; the flag is read
\* without the lock.
ExecResource(e) ==
    /\ At(e, "stmt", "resource")
    /\ Goto(e, CASE TypeOf[Name(e)] \in Builtin -> "declare"
                 [] TypeOf[Name(e)] \notin Builtin /\ ruby_types_initialized -> "lookup_type"
                 [] OTHER -> "types_lock")
    /\ UNCHANGED <<optVars, mainVars, todo, env, catalog, loaderVars, registryVars>>

\* puppet_init_ruby_types: one thread scans, the flag is set after the scan.
LockTypes(e) ==
    /\ pc[e] = "types_lock"
    /\ reg_mutex = Nobody
    /\ IF ruby_types_initialized
       THEN Goto(e, "lookup_type") /\ UNCHANGED reg_mutex
       ELSE Goto(e, "types_scan") /\ reg_mutex' = e
    /\ UNCHANGED <<optVars, mainVars, todo, env, catalog, loaderVars, typeVars, policyVars>>

ScanType(e) ==
    /\ pc[e] = "types_scan"
    /\ \E t \in RubyTypes \ ruby_types : ruby_types' = ruby_types \cup {t}
    /\ UNCHANGED <<optVars, mainVars, pc, todo, env, catalog, loaderVars, reg_mutex,
                   ruby_types_initialized, policyVars>>

FinishScan(e) ==
    /\ pc[e] = "types_scan"
    /\ ruby_types = RubyTypes
    /\ ruby_types_initialized' = TRUE
    /\ reg_mutex' = Nobody
    /\ Goto(e, "lookup_type")
    /\ UNCHANGED <<optVars, mainVars, todo, env, catalog, loaderVars, ruby_types, policyVars>>

LookupType(e) ==
    /\ At(e, "lookup_type", "resource")
    /\ IF TypeOf[Name(e)] \in ruby_types
       THEN Goto(e, "declare") /\ UNCHANGED <<todo, env>>
       ELSE /\ env' = [env EXCEPT ![e] = ErrorTwice(@)]
            /\ NextStmt(e)
    /\ UNCHANGED <<optVars, mainVars, catalog, loaderVars, registryVars>>

Declare(e) ==
    /\ At(e, "declare", "resource")
    /\ IF Name(e) \in env[e].resource_catalog
       THEN /\ env' = [env EXCEPT ![e] = ErrorTwice(@)]
            /\ NextStmt(e)
       ELSE /\ env' = [env EXCEPT ![e].resource_catalog = @ \cup {Name(e)}]
            /\ Goto(e, IF policy_loaded THEN "match" ELSE "policy_lock")
            /\ UNCHANGED todo
    /\ UNCHANGED <<optVars, mainVars, catalog, loaderVars, registryVars>>

\* puppet_policy_check_resource: the flag is set before the file is read.
LockPolicy(e) ==
    /\ pc[e] = "policy_lock"
    /\ reg_mutex = Nobody
    /\ policy_loaded' = TRUE
    /\ IF policy_loaded
       THEN Goto(e, "match") /\ UNCHANGED reg_mutex
       ELSE Goto(e, "policy_load") /\ reg_mutex' = e
    /\ UNCHANGED <<optVars, mainVars, todo, env, catalog, loaderVars, typeVars,
                   policy_entry_count, policy_filled, policy_warned, flagged>>

\* puppet_policy_load_locked: an entry is counted, then filled in.
CountEntry(e) ==
    /\ pc[e] = "policy_load"
    /\ policy_entry_count < Len(Policy)
    /\ policy_filled = policy_entry_count
    /\ policy_entry_count' = policy_entry_count + 1
    /\ UNCHANGED <<optVars, mainVars, pc, todo, env, catalog, loaderVars, reg_mutex, typeVars,
                   policy_loaded, policy_filled, policy_warned, flagged>>

FillEntry(e) ==
    /\ pc[e] = "policy_load"
    /\ policy_filled < policy_entry_count
    /\ policy_filled' = policy_entry_count
    /\ UNCHANGED <<optVars, mainVars, pc, todo, env, catalog, loaderVars, reg_mutex, typeVars,
                   policy_loaded, policy_entry_count, policy_warned, flagged>>

\* Mutant: a return that leaves reg_mutex locked.
FinishPolicy_KeepsLock(e) ==
    /\ pc[e] = "policy_load"
    /\ policy_filled = Len(Policy)
    /\ Goto(e, "match")
    /\ UNCHANGED <<optVars, mainVars, todo, env, catalog, loaderVars, reg_mutex, typeVars, policyVars>>

FinishPolicy(e) ==
    /\ pc[e] = "policy_load"
    /\ policy_filled = Len(Policy)
    /\ reg_mutex' = Nobody
    /\ Goto(e, "match")
    /\ UNCHANGED <<optVars, mainVars, todo, env, catalog, loaderVars, typeVars, policyVars>>

\* The entries are read without the lock.  Comparing with an entry that is
\* counted and not yet filled in reads a null pointer, or finds the entry
\* filled half and does not match.
MatchPolicy(e) ==
    /\ At(e, "match", "resource")
    /\ \/ /\ \E i \in 1..policy_filled : Policy[i] = Name(e)
          /\ Goto(e, "dedup")
       \/ /\ \A i \in 1..policy_filled : Policy[i] # Name(e)
          /\ Goto(e, "add")
       \/ /\ \A i \in 1..policy_filled : Policy[i] # Name(e)
          /\ policy_filled < policy_entry_count
          /\ Goto(e, "crashed")
    /\ UNCHANGED <<optVars, mainVars, todo, env, catalog, loaderVars, registryVars>>

\* One diagnostic for each resource: whoever enters it first reports it.
ReportPolicy(e) ==
    /\ At(e, "dedup", "resource")
    /\ reg_mutex = Nobody
    /\ IF Name(e) \in policy_warned
       THEN UNCHANGED <<env, policy_warned, flagged>>
       ELSE /\ policy_warned' = policy_warned \cup {Name(e)}
            /\ flagged' = [flagged EXCEPT ![Name(e)] = @ + 1]
            /\ env' = [env EXCEPT ![e] =
                         IF Name(e) \in PolicyErrors THEN puppet_error_at(@)
                         ELSE puppet_warning_at(@)]
    /\ Goto(e, "add")
    /\ UNCHANGED <<optVars, mainVars, todo, catalog, loaderVars, reg_mutex, typeVars,
                   policy_loaded, policy_entry_count, policy_filled>>

AddResource(e) ==
    /\ At(e, "add", "resource")
    /\ catalog' = IF BuildCatalog(e) THEN catalog \cup {Name(e)} ELSE catalog
    /\ NextStmt(e)
    /\ UNCHANGED <<optVars, mainVars, env, loaderVars, registryVars>>
-----------------------------------------------------------------------------
(* The life of a node: puppet_exec_node_for_certname.                      *)

HasBlock(n) == site[n] # NoBlock

\* The environment is counted for a new node and its tables are emptied;
\* env->catalog is not among them.
EnterNode(v) ==
    [v EXCEPT !.nodes_processed = @ + 1, !.current_node_failed = FALSE,
              !.resource_catalog = {}, !.class_scopes = {}, !.modules_p8_checked = {}]

\* References of the catalog's resources to what the catalog does not hold.
Dangling ==
    {ref \in (catalog \cap Resources) \X (Resources \cup Classes) :
        ref[2] \in RefersTo[ref[1]] \ catalog}

\* Mutant: what dangles is counted and the node is not marked.
puppet_catalog_validate_refs_Counts(v) ==
    LET n == Cardinality(Dangling)
    IN  [v EXCEPT !.errors_count = @ + n, !.printed = @ + n]

puppet_catalog_validate_refs(v) ==
    LET n == Cardinality(Dangling)
    IN  [v EXCEPT !.errors_count = @ + n, !.printed = @ + n,
                  !.current_node_failed = @ \/ n > 0]

\* End of the node's body; the first failure stops later nodes of this
\* environment.
LeaveNode(e) ==
    LET v == IF BuildCatalog(e) THEN puppet_catalog_validate_refs(env[e]) ELSE env[e]
    IN  IF v.current_node_failed
        THEN [v EXCEPT !.nodes_failed = @ + 1, !.stop_on_error = TRUE]
        ELSE v

\* A thread leaves its results in its work item.
FinishWorker(e) ==
    /\ pc[e] = "stmt"
    /\ todo[e] = <<>>
    /\ e # 0
    /\ env' = [env EXCEPT ![e] = LeaveNode(e)]
    /\ Goto(e, "done")
    /\ UNCHANGED <<optVars, mainVars, todo, catalog, loaderVars, registryVars>>
-----------------------------------------------------------------------------
(* The thread of main.                                                     *)

FinishTopLevel ==
    /\ main = "top"
    /\ pc[0] = "stmt" /\ todo[0] = <<>>
    /\ main' = "nodes"
    /\ Goto(0, "off")
    /\ UNCHANGED <<optVars, next, started, joined, report, exit_code, lost, todo, env, catalog,
                   loaderVars, registryVars>>

\* No node block matches: a warning, which is not counted.  After an error the
\* sequential loop goes through the remaining nodes without compiling them.
SkipNode ==
    /\ main = "nodes"
    /\ next <= N
    /\ HasBlock(next) => ~parallel /\ env[0].stop_on_error
    /\ next' = next + 1
    /\ UNCHANGED <<optVars, main, started, joined, report, exit_code, lost, pc, todo, env, catalog,
                   loaderVars, registryVars>>

StartNode ==
    /\ main = "nodes" /\ ~parallel
    /\ next <= N /\ HasBlock(next)
    /\ ~env[0].stop_on_error
    /\ main' = "node"
    /\ report' = Append(report, next)
    /\ env' = [env EXCEPT ![0] = EnterNode(@)]
    /\ todo' = [todo EXCEPT ![0] = site[next]]
    /\ Goto(0, "stmt")
    /\ UNCHANGED <<optVars, next, started, joined, exit_code, lost, catalog, loaderVars, registryVars>>

\* The end of a node compiled by main's own thread.
FinishNode ==
    /\ main = "node"
    /\ pc[0] = "stmt" /\ todo[0] = <<>>
    /\ env' = [env EXCEPT ![0] = LeaveNode(0)]
    /\ main' = "nodes"
    /\ next' = next + 1
    /\ Goto(0, "off")
    /\ UNCHANGED <<optVars, started, joined, report, exit_code, lost, todo, catalog, loaderVars,
                   registryVars>>

\* parallel_node_worker works on a clone made by puppet_env_clone_for_node.
StartWorker ==
    /\ main = "nodes" /\ parallel
    /\ next <= N /\ HasBlock(next)
    /\ started' = Append(started, next)
    /\ next' = next + 1
    /\ env' = [env EXCEPT ![next] = EnterNode(FreshEnv)]
    /\ todo' = [todo EXCEPT ![next] = site[next]]
    /\ Goto(next, "stmt")
    /\ UNCHANGED <<optVars, main, joined, report, exit_code, lost, catalog, loaderVars, registryVars>>

\* pthread_create fails: an error is printed, and not counted.
LoseWorker ==
    /\ main = "nodes" /\ parallel
    /\ next <= N /\ HasBlock(next)
    /\ Cardinality(lost) < MaxLost
    /\ lost' = lost \cup {next}
    /\ next' = next + 1
    /\ env' = [env EXCEPT ![0].printed = @ + 1]
    /\ UNCHANGED <<optVars, main, started, joined, report, exit_code, pc, todo, catalog, loaderVars,
                   registryVars>>

JoinWorker ==
    /\ main = "nodes" /\ parallel
    /\ next > N
    /\ joined < Len(started)
    /\ pc[started[joined + 1]] = "done"
    /\ joined' = joined + 1
    /\ UNCHANGED <<optVars, main, next, started, report, exit_code, lost, pc, todo, env, catalog,
                   loaderVars, registryVars>>

\* Mutant: the errors of a work item are printed and not added up.
Aggregate_Forgets ==
    LET done == Len(report)
        item == env[started[done + 1]]
    IN  /\ main = "nodes" /\ parallel
        /\ next > N
        /\ joined = Len(started) /\ done < joined
        /\ report' = Append(report, started[done + 1])
        /\ env' = [env EXCEPT ![0].nodes_processed = @ + item.nodes_processed]
        /\ UNCHANGED <<optVars, main, next, started, joined, exit_code, lost, pc, todo, catalog,
                       loaderVars, registryVars>>

\* The next work item is printed and added up.
Aggregate ==
    LET done == Len(report)
        item == env[started[done + 1]]
    IN  /\ main = "nodes" /\ parallel
        /\ next > N
        /\ joined = Len(started) /\ done < joined
        /\ report' = Append(report, started[done + 1])
        /\ env' = [env EXCEPT ![0].nodes_processed = @ + item.nodes_processed,
                              ![0].nodes_failed = @ + item.nodes_failed,
                              ![0].errors_count = @ + item.errors_count,
                              ![0].warnings_count = @ + item.warnings_count]
        /\ UNCHANGED <<optVars, main, next, started, joined, exit_code, lost, pc, todo, catalog,
                       loaderVars, registryVars>>

\* Mutant: the failures of the threads do not reach the exit status.
ExitCode_OwnFailures(v) == IF v.compilation_failed \/ (summary /\ v.errors_count > 0) THEN 1 ELSE 0

ExitCode(v) ==
    IF \/ v.compilation_failed
       \/ v.nodes_failed > 0
       \/ summary /\ v.errors_count > 0
    THEN 1 ELSE 0

Exit ==
    /\ main = "nodes"
    /\ next > N
    /\ parallel => joined = Len(started) /\ Len(report) = joined
    /\ main' = "exited"
    /\ exit_code' = ExitCode(env[0])
    /\ UNCHANGED <<optVars, next, started, joined, report, lost, pc, todo, env, catalog, loaderVars,
                   registryVars>>
-----------------------------------------------------------------------------
Step(e) ==
    \/ puppet_exec_include(e) \/ LoadClass(e) \/ LoadManifest(e) \/ ParseManifest(e)
    \/ InsertManifest(e) \/ LintManifest(e) \/ RegisterClass(e) \/ EnterClass(e) \/ LeaveClass(e)
    \/ puppet_func_fail(e)
    \/ ExecResource(e) \/ LockTypes(e) \/ ScanType(e) \/ FinishScan(e) \/ LookupType(e)
    \/ Declare(e) \/ LockPolicy(e) \/ CountEntry(e) \/ FillEntry(e) \/ FinishPolicy(e)
    \/ MatchPolicy(e) \/ ReportPolicy(e) \/ AddResource(e)
    \/ FinishWorker(e)

Main ==
    \/ FinishTopLevel \/ SkipNode \/ StartNode \/ FinishNode
    \/ StartWorker \/ LoseWorker \/ JoinWorker \/ Aggregate \/ Exit

\* A null pointer ends the process, every thread of it.
Alive == \A e \in Envs : pc[e] # "crashed"

Next == Alive /\ (Main \/ \E e \in Envs : Step(e))

Fairness == WF_vars(Alive /\ Main) /\ \A e \in Envs : WF_vars(Alive /\ Step(e))

Spec == Init /\ [][Next]_vars /\ Fairness
-----------------------------------------------------------------------------
(* Properties.                                                             *)

Labels ==
    {"off", "stmt", "load_class", "load_manifest", "parse", "insert", "lint", "register", "enter",
     "types_lock", "types_scan", "lookup_type", "declare", "policy_lock", "policy_load", "match",
     "dedup", "add", "done", "crashed"}

\* Types of the variables.  Only nodes with a matching block are compiled, so
\* every environment works on a list of statements, and a thread that holds
\* reg_mutex is inside one of the two critical sections that span steps.
TypeOK ==
    /\ site \in Sites /\ parallel \in BOOLEAN /\ summary \in BOOLEAN
    /\ main \in {"top", "nodes", "node", "exited"}
    /\ next \in 1..(N + 1)
    /\ started \in Seq(Nodes) /\ joined \in 0..Len(started)
    /\ report \in Seq(Nodes)
    /\ exit_code \in {0, 1}
    /\ lost \subseteq Nodes
    /\ pc \in [Envs -> Labels]
    /\ todo \in [Envs -> Seq(Frames)]
    /\ env \in [Envs ->
         [resource_catalog : SUBSET Resources, class_scopes : SUBSET Classes,
          modules_p8_checked : SUBSET {ModuleOf[c] : c \in Classes},
          errors_count : Nat, warnings_count : Nat, nodes_processed : Nat, nodes_failed : Nat,
          current_node_failed : BOOLEAN, stop_on_error : BOOLEAN, compilation_failed : BOOLEAN,
          printed : Nat]]
    /\ held \in [Envs -> Programs \cup {NoProgram}]
    /\ catalog \subseteq Resources \cup Classes
    /\ parsed_manifests \in [Classes -> Programs \cup {NoProgram}]
    /\ loaded_classes \in [Classes -> Programs \cup {NoProgram}]
    /\ destroyed \subseteq Programs
    /\ lints \in [Classes -> Nat]
    /\ reg_mutex \in Envs \cup {Nobody}
    /\ \A e \in Envs : reg_mutex = e <=> pc[e] \in {"types_scan", "policy_load"}
    /\ ruby_types \subseteq RubyTypes /\ ruby_types_initialized \in BOOLEAN
    /\ policy_loaded \in BOOLEAN
    /\ policy_entry_count \in 0..Len(Policy) /\ policy_filled \in 0..policy_entry_count
    /\ policy_warned \subseteq Resources
    /\ flagged \in [Resources -> Nat]

\* puppet_loader_load_manifest destroys the loser's program: no class body is
\* executed out of a destroyed program, and no cache hands one out.
ProgramsAlive ==
    /\ \A c \in Classes : parsed_manifests[c] \notin destroyed /\ loaded_classes[c] \notin destroyed
    /\ \A e \in Envs :
          /\ held[e] \notin destroyed
          /\ \A i \in DOMAIN todo[e] : todo[e][i].op = "leave" => todo[e][i].program \notin destroyed

\* "Run the facts-only lint once per parsed file": however many threads parse a
\* manifest, the one that caches it lints it, exactly once.
LintedOnce ==
    \A c \in Classes :
        lints[c] + Cardinality({e \in Envs : At(e, "lint", "include") /\ Name(e) = c})
            = IF parsed_manifests[c] = NoProgram THEN 0 ELSE 1

\* The reason for puppet_init_ruby_types' lock: a thread that consults the
\* registry of Ruby types finds it complete.
RegistryComplete ==
    \A e \in Envs : pc[e] = "lookup_type" => ruby_types = RubyTypes

\* Node sections are printed in the order of the facts file, none twice, and
\* with -P every node whose thread was created has one.
SectionsInOrder ==
    /\ \A i, j \in DOMAIN report : i < j => report[i] < report[j]
    /\ main = "exited" /\ parallel =>
          \A n \in Nodes : HasBlock(n) /\ n \notin lost => \E i \in DOMAIN report : report[i] = n

Known(r) == TypeOf[r] \in Builtin \cup RubyTypes

\* A declaration at top level has the policy read before any thread starts, if
\* its type is known (that of another is reported before the policy is looked at).
PolicyReadEarly == \E i \in DOMAIN site[0] : site[0][i].op = "resource" /\ Known(site[0][i].name)

\* One policy diagnostic per resource per run: every resource a thread declared
\* and the policy names has been reported exactly once, if the threads do not
\* race to read the policy itself.
PolicyOnce ==
    PolicyReadEarly /\ (main = "exited" \/ ~Alive) =>
        \A e \in Envs : \A r \in env[e].resource_catalog \cap ToSet(Policy) : flagged[r] = 1

\* Nothing outside the nodes is an error: resources of known types, each declared
\* once, and none that the policy calls an error.
QuietTop ==
    /\ \A i \in DOMAIN site[0] : /\ site[0][i].op = "resource" /\ Known(site[0][i].name)
                                 /\ site[0][i].name \notin PolicyErrors
    /\ \A i, j \in DOMAIN site[0] : site[0][i].name = site[0][j].name => i = j

\* The exit status is 1 exactly when an error was reported (by threads that ran;
\* without -s, in a node).
ExitReflectsErrors ==
    main = "exited" /\ lost = {} /\ (summary \/ QuietTop) =>
        (exit_code = 1 <=> \E e \in Envs : env[e].printed > 0)

\* Every thread is joined and the compiler exits, unless threads that race to read
\* the policy have brought the process down.
Terminates == <>(main = "exited" \/ (~PolicyReadEarly /\ ~Alive))

\* A node that names what it does not declare is reported as failed: the first
\* node of a sequential run with -s, whose catalog no other node has filled.
ReferencesChecked ==
    [][LET own == env[0].resource_catalog \cup env[0].class_scopes \cup catalog
       IN  /\ ~parallel /\ summary /\ FinishNode
           /\ env[0].nodes_processed = 1
           /\ \E r \in env[0].resource_catalog : ~(RefersTo[r] \subseteq own)
           => env'[0].nodes_failed = 1 /\ env'[0].stop_on_error]_vars

(* What a parallel run must count, whatever the schedule.                  *)

\* Classes whose bodies run when these statements do.
Loadable(seq) == {c \in Classes \ Missing : Contains(seq, [op |-> "include", name |-> c])}
Reached(seq) ==
    LET Within[k \in 0..Cardinality(Classes)] ==
            IF k = 0 THEN Loadable(seq)
            ELSE UNION {Loadable(BodyOf[c]) : c \in Within[k - 1]} \cup Within[k - 1]
    IN  Within[Cardinality(Classes)]

\* How often a statement is executed.
Times(seq, s) ==
    LET Count(q) == Cardinality({i \in DOMAIN q : q[i] = s})
    IN  Count(seq) + MapThenSumSet(LAMBDA c : Count(BodyOf[c]), Reached(seq))

Declares(seq, r) == Known(r) /\ Times(seq, [op |-> "resource", name |-> r]) > 0

\* Errors one environment meets whatever the others do.
OwnErrors(seq) ==
    LET Includes(c) == Times(seq, [op |-> "include", name |-> c])
        Occurs(r)   == Times(seq, [op |-> "resource", name |-> r])
    IN  2 * Times(seq, [op |-> "fail"])
        + 2 * MapThenSumSet(Includes, Missing)
        + Cardinality({ModuleOf[c] : c \in {d \in Classes : Includes(d) > 0}} \cap Incompatible)
        + 2 * MapThenSumSet(LAMBDA r : IF Known(r) /\ Occurs(r) > 0 THEN Occurs(r) - 1 ELSE Occurs(r),
                            Resources)

\* With -P the totals of the summary do not depend on the schedule: what each
\* node meets itself, what the lint finds in each manifest loaded by anyone, and
\* (the policy read early) one diagnostic for each resource of the policy.
TotalsAgree ==
    LET Parts  == {site[e] : e \in {d \in Envs : site[d] # NoBlock}}
        Loaded == UNION {Reached(seq) : seq \in Parts}
        Listed == {r \in ToSet(Policy) : \E seq \in Parts : Declares(seq, r)}
    IN  main = "exited" /\ parallel /\ lost = {} /\ PolicyReadEarly =>
          /\ env[0].errors_count =
               MapThenSumSet(LAMBDA e : OwnErrors(site[e]), {d \in Envs : site[d] # NoBlock})
               + MapThenSumSet(LAMBDA c : Legacy[c], Loaded)
               + Cardinality(Listed \cap PolicyErrors)
          /\ env[0].warnings_count = Cardinality(Listed \ PolicyErrors)

\* The caches the threads fill lazily: no program is used after it was destroyed,
\* no manifest linted twice, and the Ruby types are complete when they are read.
CachesSafe == TypeOK /\ ProgramsAlive /\ LintedOnce /\ RegistryComplete

\* What main reports does not depend on the schedule: the sections come in order,
\* each policy entry is reported once, and the exit status is that of the errors.
ReportRight == SectionsInOrder /\ PolicyOnce /\ ExitReflectsErrors
=============================================================================
