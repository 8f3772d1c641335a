------------------------- MODULE NodeCompile_proofs -------------------------
(***************************************************************************)
(* Proofs about NodeCompile, for any number of nodes and threads, any      *)
(* classes, site manifests and policy: the caches the threads share, and   *)
(* the report: the order of its sections, the policy, the exit status.     *)
(***************************************************************************)
EXTENDS NodeCompile, FiniteSetTheorems, SequenceTheorems, TLAPS

\* The tables and counters of an environment.
EnvRecords ==
    [resource_catalog : SUBSET Resources, class_scopes : SUBSET Classes,
     modules_p8_checked : SUBSET {ModuleOf[c] : c \in Classes},
     errors_count : Nat, warnings_count : Nat, nodes_processed : Nat, nodes_failed : Nat,
     current_node_failed : BOOLEAN, stop_on_error : BOOLEAN, compilation_failed : BOOLEAN,
     printed : Nat]

\* Where main and the threads may be: a node has no thread before its turn, and
\* main's own environment works on statements only before the loop over the nodes
\* and inside a node of a sequential run.
MainInv ==
    /\ main = "node" => next <= N
    /\ main \in {"nodes", "exited"} => pc[0] = "off"
    /\ \A n \in Nodes : n >= next => pc[n] = "off"

\* The program is the one that the manifest cache has for its class.
InCache(cache, p) == p \in Programs /\ cache[p[2]] = p

\* So are those that own the class bodies in progress.
OwnersCached(cache, list) ==
    \A i \in DOMAIN list : list[i].op = "leave" => InCache(cache, list[i].program)

\* What caches, threads and class bodies refer to is cached, but for a program that
\* its thread has just parsed.
UseInv ==
    /\ \A c \in Classes : parsed_manifests[c] # NoProgram => InCache(parsed_manifests, parsed_manifests[c])
    /\ \A c \in Classes : loaded_classes[c] # NoProgram => InCache(parsed_manifests, loaded_classes[c])
    /\ \A e \in Envs :
          /\ pc[e] = "insert" => held[e] = <<e, Name(e)>>
          /\ pc[e] \in {"lint", "register", "enter"} => held[e] # NoProgram
          /\ pc[e] # "insert" /\ held[e] # NoProgram => InCache(parsed_manifests, held[e])
          /\ OwnersCached(parsed_manifests, todo[e])

\* What is destroyed lost to another program of its class; a thread destroys
\* nothing but what it parsed, and a program it is about to insert is new.
DestroyedInv ==
    /\ \A p \in destroyed : parsed_manifests[p[2]] \notin {NoProgram, p}
    /\ \A e \in Envs : pc[e] \in {"parse", "insert"} =>
          <<e, Name(e)>> \notin destroyed /\ parsed_manifests[Name(e)] # <<e, Name(e)>>

\* The registry is complete from the moment the flag is set.
RegistryInv ==
    /\ ruby_types_initialized => ruby_types = RubyTypes
    /\ RegistryComplete

IndInv == TypeOK /\ MainInv /\ UseInv /\ DestroyedInv /\ LintedOnce /\ RegistryInv
-----------------------------------------------------------------------------
(* Types.                                                                  *)

\* A record of that kind remains one when fields are replaced by others of their type.
LEMMA EnvFields ==
    ASSUME NEW v \in EnvRecords, NEW n \in Nat, NEW m \in Nat, NEW b \in BOOLEAN
    PROVE  /\ [v EXCEPT !.warnings_count = n] \in EnvRecords
           /\ [v EXCEPT !.printed = n] \in EnvRecords
           /\ [v EXCEPT !.compilation_failed = b] \in EnvRecords
           /\ [v EXCEPT !.errors_count = n, !.current_node_failed = b] \in EnvRecords
           /\ [v EXCEPT !.nodes_failed = n, !.stop_on_error = b] \in EnvRecords
           /\ [v EXCEPT !.errors_count = n, !.printed = m, !.current_node_failed = b]
                 \in EnvRecords
           /\ \A r \in SUBSET Resources, c \in SUBSET Classes,
                k \in SUBSET {ModuleOf[d] : d \in Classes} :
                [v EXCEPT !.nodes_processed = n, !.current_node_failed = b,
                          !.resource_catalog = r, !.class_scopes = c, !.modules_p8_checked = k]
                  \in EnvRecords
           /\ v.errors_count + n \in Nat /\ v.warnings_count + n \in Nat
           /\ v.nodes_processed + n \in Nat /\ v.nodes_failed + n \in Nat
           /\ v.printed + n \in Nat
<1>1. /\ [v EXCEPT !.warnings_count = n] \in EnvRecords
      /\ [v EXCEPT !.printed = n] \in EnvRecords
      /\ [v EXCEPT !.compilation_failed = b] \in EnvRecords
  BY DEF EnvRecords
<1>2. /\ [v EXCEPT !.errors_count = n, !.current_node_failed = b] \in EnvRecords
      /\ [v EXCEPT !.nodes_failed = n, !.stop_on_error = b] \in EnvRecords
  BY DEF EnvRecords
<1>3. [v EXCEPT !.errors_count = n, !.printed = m, !.current_node_failed = b] \in EnvRecords
  BY DEF EnvRecords
<1>4. \A r \in SUBSET Resources, c \in SUBSET Classes,
         k \in SUBSET {ModuleOf[d] : d \in Classes} :
         [v EXCEPT !.nodes_processed = n, !.current_node_failed = b,
                   !.resource_catalog = r, !.class_scopes = c, !.modules_p8_checked = k]
           \in EnvRecords
  BY DEF EnvRecords
<1>5. /\ v.errors_count + n \in Nat /\ v.warnings_count + n \in Nat
      /\ v.nodes_processed + n \in Nat /\ v.nodes_failed + n \in Nat
      /\ v.printed + n \in Nat
  BY DEF EnvRecords
<1> QED
  BY <1>1, <1>2, <1>3, <1>4, <1>5

\* Every counter diagnostics touch stays a counter.
LEMMA EnvTypes ==
    ASSUME NEW v \in EnvRecords
    PROVE  /\ puppet_env_increment_error(v) \in EnvRecords
           /\ puppet_error_at(v) \in EnvRecords
           /\ ErrorTwice(v) \in EnvRecords
           /\ [ErrorTwice(v) EXCEPT !.compilation_failed = TRUE] \in EnvRecords
           /\ EnterNode(v) \in EnvRecords
           /\ puppet_warning_at(v) \in EnvRecords
           /\ [v EXCEPT !.nodes_failed = @ + 1, !.stop_on_error = TRUE] \in EnvRecords
           /\ [v EXCEPT !.printed = @ + 1] \in EnvRecords
<1>0. 1 \in Nat /\ TRUE \in BOOLEAN /\ FALSE \in BOOLEAN
  OBVIOUS
<1>1. ASSUME NEW w \in EnvRecords PROVE puppet_env_increment_error(w) \in EnvRecords
  <2>1. w.errors_count + 1 \in Nat
    BY <1>0, EnvFields
  <2> QED
    BY <1>0, <2>1, EnvFields, Zenon DEF puppet_env_increment_error
<1>2. ASSUME NEW w \in EnvRecords PROVE puppet_error_at(w) \in EnvRecords
  <2>1. puppet_env_increment_error(w).printed + 1 \in Nat
    BY <1>0, <1>1, EnvFields
  <2> QED
    BY <1>1, <2>1, EnvFields, Zenon DEF puppet_error_at
<1>3. ErrorTwice(v) \in EnvRecords
  BY <1>1, <1>2 DEF ErrorTwice
<1>4. [ErrorTwice(v) EXCEPT !.compilation_failed = TRUE] \in EnvRecords
  BY <1>0, <1>3, EnvFields, Zenon
<1>5. EnterNode(v) \in EnvRecords
  <2>1. v.nodes_processed + 1 \in Nat
    BY <1>0, EnvFields
  <2>2. /\ {} \in SUBSET Resources /\ {} \in SUBSET Classes
        /\ {} \in SUBSET {ModuleOf[d] : d \in Classes}
    OBVIOUS
  <2> QED
    BY <1>0, <2>1, <2>2, EnvFields, Zenon DEF EnterNode
<1>6. puppet_warning_at(v) \in EnvRecords
  <2>1. v.warnings_count + 1 \in Nat
    BY <1>0, EnvFields
  <2> QED
    BY <2>1, EnvFields, Zenon DEF puppet_warning_at
<1>7. [v EXCEPT !.nodes_failed = @ + 1, !.stop_on_error = TRUE] \in EnvRecords
  <2>1. v.nodes_failed + 1 \in Nat
    BY <1>0, EnvFields
  <2> QED
    BY <1>0, <2>1, EnvFields, Zenon
<1>8. [v EXCEPT !.printed = @ + 1] \in EnvRecords
  <2>1. v.printed + 1 \in Nat
    BY <1>0, EnvFields
  <2> QED
    BY <2>1, EnvFields, Zenon
<1> QED
  BY <1>1, <1>2, <1>3, <1>4, <1>5, <1>6, <1>7, <1>8

LEMMA FreshEnvType == FreshEnv \in EnvRecords
BY DEF FreshEnv, EnvRecords

\* What dangles is counted.
LEMMA DanglingFinite == Cardinality(Dangling) \in Nat
<1> DEFINE pairs == (catalog \cap Resources) \X (Resources \cup Classes)
<1>1. IsFiniteSet(catalog \cap Resources) /\ IsFiniteSet(Resources \cup Classes)
  BY ManifestsAssumption, FS_Subset, FS_Union
<1>2. IsFiniteSet(pairs)
  BY <1>1, FS_Product
<1>3. Dangling \subseteq pairs
  BY DEF Dangling
<1> QED
  BY <1>2, <1>3, FS_Subset, FS_CardinalityType

LEMMA LeaveNodeType ==
    ASSUME NEW e, env[e] \in EnvRecords
    PROVE  LeaveNode(e) \in EnvRecords
<1> DEFINE v == IF BuildCatalog(e) THEN puppet_catalog_validate_refs(env[e]) ELSE env[e]
<1>1. puppet_catalog_validate_refs(env[e]) \in EnvRecords
  <2> DEFINE n == Cardinality(Dangling)
  <2>1. n \in Nat
    BY DanglingFinite
  <2> HIDE DEF n
  <2>2. /\ env[e].errors_count + n \in Nat /\ env[e].printed + n \in Nat
        /\ (env[e].current_node_failed \/ n > 0) \in BOOLEAN
    BY <2>1 DEF EnvRecords
  <2>3. [env[e] EXCEPT !.errors_count = @ + n, !.printed = @ + n,
                       !.current_node_failed = @ \/ n > 0] \in EnvRecords
    BY <2>2, EnvFields, Zenon
  <2> QED
    BY <2>3 DEF puppet_catalog_validate_refs, n
<1>2. v \in EnvRecords
  BY <1>1
<1>3. LeaveNode(e) = IF v.current_node_failed
                     THEN [v EXCEPT !.nodes_failed = @ + 1, !.stop_on_error = TRUE] ELSE v
  BY DEF LeaveNode
<1> HIDE DEF v
<1> QED
  BY <1>2, <1>3, EnvTypes
-----------------------------------------------------------------------------
(* What the steps have in common.                                          *)

\* The statement at the head of a list, and the lists it is taken from.
LEMMA Lists ==
    ASSUME TypeOK, NEW e \in Envs
    PROVE  /\ todo[e] \in Seq(Frames) /\ DOMAIN todo[e] = 1 .. Len(todo[e])
           /\ \A i \in DOMAIN todo[e] : todo[e][i] \in Frames
           /\ todo[e] # <<>> =>
                /\ Head(todo[e]) = todo[e][1] /\ 1 \in DOMAIN todo[e]
                /\ Head(todo[e]) \in Frames
                /\ Tail(todo[e]) \in Seq(Frames)
                /\ \A i \in DOMAIN Tail(todo[e]) :
                      i + 1 \in DOMAIN todo[e] /\ Tail(todo[e])[i] = todo[e][i + 1]
                /\ Head(todo[e]).op \in {"include", "leave"} => Name(e) \in Classes
                /\ Head(todo[e]).op = "resource" => Name(e) \in Resources
<1>1. todo[e] \in Seq(Frames) /\ Len(todo[e]) \in Nat /\ DOMAIN todo[e] = 1 .. Len(todo[e])
  BY DEF TypeOK
<1>2. \A i \in DOMAIN todo[e] : todo[e][i] \in Frames
  BY <1>1
<1>3. ASSUME todo[e] # <<>>
      PROVE  /\ Head(todo[e]) = todo[e][1] /\ 1 \in DOMAIN todo[e]
             /\ Tail(todo[e]) \in Seq(Frames)
             /\ \A i \in DOMAIN Tail(todo[e]) :
                   i + 1 \in DOMAIN todo[e] /\ Tail(todo[e])[i] = todo[e][i + 1]
  BY <1>1, <1>3
<1>4. \A f \in Frames : /\ f.op \in {"include", "leave"} => f.name \in Classes
                        /\ f.op = "resource" => f.name \in Resources
  BY DEF Frames, Statements
<1> QED
  BY <1>1, <1>2, <1>3, <1>4 DEF Name

\* The threads about to lint the manifest of c.
Linting(c) == {e \in Envs : At(e, "lint", "include") /\ Name(e) = c}

LEMMA LintingFinite ==
    ASSUME NEW c
    PROVE  IsFiniteSet(Linting(c)) /\ Cardinality(Linting(c)) \in Nat
<1>1. IsFiniteSet(Envs)
  BY NodesAssumption, FS_Interval DEF Envs
<1>2. Linting(c) \subseteq Envs
  BY DEF Linting
<1> QED
  BY <1>1, <1>2, FS_Subset, FS_CardinalityType

\* A step of e that leaves the caches alone disturbs nothing about them, unless e
\* is at one of the steps that cannot be skipped.
LEMMA CachesKept ==
    ASSUME IndInv, NEW e \in Envs, UNCHANGED loaderVars,
           \A f \in Envs \ {e} : pc'[f] = pc[f] /\ todo'[f] = todo[f],
           pc[e] \notin {"insert", "lint"},
           pc'[e] \notin {"parse", "insert", "lint", "register", "enter"},
           OwnersCached(parsed_manifests, todo'[e])
    PROVE  UseInv' /\ DestroyedInv' /\ LintedOnce'
<1>1. UNCHANGED <<held, parsed_manifests, loaded_classes, destroyed, lints>>
  BY DEF loaderVars
<1>3. \A f \in Envs \ {e} : Name(f)' = Name(f)
  BY DEF Name
<1>4. UseInv'
  <2>1. \A c \in Classes :
           /\ parsed_manifests'[c] # NoProgram => InCache(parsed_manifests', parsed_manifests'[c])
           /\ loaded_classes'[c] # NoProgram => InCache(parsed_manifests', loaded_classes'[c])
    BY <1>1 DEF IndInv, UseInv
  <2>2. ASSUME NEW f \in Envs \ {e}
        PROVE  /\ pc'[f] = "insert" => held'[f] = <<f, Name(f)'>>
               /\ pc'[f] \in {"lint", "register", "enter"} => held'[f] # NoProgram
               /\ pc'[f] # "insert" /\ held'[f] # NoProgram => InCache(parsed_manifests', held'[f])
               /\ OwnersCached(parsed_manifests', todo'[f])
    BY <1>1, <1>3 DEF IndInv, UseInv
  <2>3. /\ pc'[e] # "insert" /\ held'[e] # NoProgram => InCache(parsed_manifests', held'[e])
        /\ OwnersCached(parsed_manifests', todo'[e])
    BY <1>1 DEF IndInv, UseInv
  <2> QED
    BY <2>1, <2>2, <2>3 DEF UseInv
<1>5. DestroyedInv'
  BY <1>1, <1>3 DEF IndInv, DestroyedInv
<1>6. LintedOnce'
  <2>1. \A c : Linting(c)' = Linting(c)
    BY <1>3 DEF Linting, At, Name
  <2> QED
    BY <1>1, <2>1 DEF IndInv, LintedOnce, Linting
<1> QED
  BY <1>4, <1>5, <1>6

\* The list of statements is as it was, or without its first.
LEMMA ListKept ==
    ASSUME IndInv, NEW e \in Envs, UNCHANGED loaderVars,
           \/ todo' = todo
           \/ todo[e] # <<>> /\ todo' = [todo EXCEPT ![e] = Tail(@)]
    PROVE  /\ todo' \in [Envs -> Seq(Frames)]
           /\ \A f \in Envs \ {e} : todo'[f] = todo[f]
           /\ OwnersCached(parsed_manifests, todo'[e])
<1>1. TypeOK /\ todo \in [Envs -> Seq(Frames)]
  BY DEF IndInv, TypeOK
<1>2. OwnersCached(parsed_manifests, todo[e])
  BY DEF IndInv, UseInv
<1>3. CASE todo' = todo
  BY <1>1, <1>2, <1>3 DEF OwnersCached
<1>4. CASE todo[e] # <<>> /\ todo' = [todo EXCEPT ![e] = Tail(@)]
  <2>1. todo'[e] = Tail(todo[e]) /\ \A f \in Envs \ {e} : todo'[f] = todo[f]
    BY <1>1, <1>4
  <2>2. todo' \in [Envs -> Seq(Frames)]
    BY <1>1, <1>4, Lists
  <2> QED
    BY <1>1, <1>2, <1>4, <2>1, <2>2, Lists DEF OwnersCached
<1> QED
  BY <1>3, <1>4

\* A step of e inside a statement: the caches and the registry stay, and so does
\* where main is.
LEMMA PartsKept ==
    ASSUME IndInv, NEW e \in Envs, NEW l \in Labels,
           UNCHANGED <<optVars, mainVars, loaderVars>>,
           pc' = [pc EXCEPT ![e] = l],
           pc[e] \notin {"off", "insert", "lint"},
           l \notin {"parse", "insert", "lint", "register", "enter"},
           \/ todo' = todo
           \/ todo[e] # <<>> /\ todo' = [todo EXCEPT ![e] = Tail(@)]
    PROVE  /\ MainInv' /\ UseInv' /\ DestroyedInv' /\ LintedOnce'
           /\ pc' \in [Envs -> Labels] /\ pc'[e] = l
           /\ \A f \in Envs \ {e} : pc'[f] = pc[f]
           /\ todo' \in [Envs -> Seq(Frames)]
<1>1. pc \in [Envs -> Labels]
  BY DEF IndInv, TypeOK
<1>2. /\ pc' \in [Envs -> Labels] /\ pc'[e] = l
      /\ \A f \in Envs \ {e} : pc'[f] = pc[f]
  BY <1>1
<1>3. /\ todo' \in [Envs -> Seq(Frames)]
      /\ \A f \in Envs \ {e} : todo'[f] = todo[f]
      /\ OwnersCached(parsed_manifests, todo'[e])
  BY ListKept
<1>4. UseInv' /\ DestroyedInv' /\ LintedOnce'
  BY <1>2, <1>3, CachesKept
<1>5. MainInv'
  <2>1. \A n \in Nodes : n \in Envs
    BY DEF Nodes, Envs
  <2>2. main' = main /\ next' = next
    BY DEF mainVars
  <2>3. 0 \in Envs
    BY NodesAssumption DEF Envs
  <2> QED
    BY <1>2, <2>1, <2>2, <2>3 DEF IndInv, MainInv
<1> QED
  BY <1>2, <1>3, <1>4, <1>5

\* A step of e that leaves the registries alone too.
LEMMA LocalStep ==
    ASSUME IndInv, NEW e \in Envs, NEW l \in Labels,
           UNCHANGED <<optVars, mainVars, loaderVars, registryVars>>,
           pc' = [pc EXCEPT ![e] = l],
           pc[e] \notin {"off", "insert", "lint", "types_scan", "policy_load"},
           l \notin {"parse", "insert", "lint", "register", "enter", "types_scan", "policy_load"},
           l = "lookup_type" => ruby_types = RubyTypes,
           \/ todo' = todo
           \/ todo[e] # <<>> /\ todo' = [todo EXCEPT ![e] = Tail(@)],
           env' = env \/ \E v \in EnvRecords : env' = [env EXCEPT ![e] = v],
           catalog' \subseteq Resources \cup Classes
    PROVE  IndInv'
<1>1. /\ MainInv' /\ UseInv' /\ DestroyedInv' /\ LintedOnce'
      /\ pc' \in [Envs -> Labels] /\ pc'[e] = l
      /\ \A f \in Envs \ {e} : pc'[f] = pc[f]
      /\ todo' \in [Envs -> Seq(Frames)]
  BY PartsKept
<1>2. env' \in [Envs -> EnvRecords]
  <2>1. env \in [Envs -> EnvRecords]
    BY DEF IndInv, TypeOK, EnvRecords
  <2> QED
    BY <2>1
<1>3. \A f \in Envs : reg_mutex = f <=> pc'[f] \in {"types_scan", "policy_load"}
  BY <1>1 DEF IndInv, TypeOK
<1>4. TypeOK'
  <2>1. /\ site' \in Sites /\ parallel' \in BOOLEAN /\ summary' \in BOOLEAN
        /\ main' \in {"top", "nodes", "node", "exited"} /\ next' \in 1 .. (N + 1)
        /\ started' \in Seq(Nodes) /\ joined' \in 0 .. Len(started') /\ report' \in Seq(Nodes)
        /\ exit_code' \in {0, 1} /\ lost' \subseteq Nodes
    BY DEF IndInv, TypeOK, optVars, mainVars
  <2>2. /\ held' \in [Envs -> Programs \cup {NoProgram}] /\ destroyed' \subseteq Programs
        /\ parsed_manifests' \in [Classes -> Programs \cup {NoProgram}]
        /\ loaded_classes' \in [Classes -> Programs \cup {NoProgram}] /\ lints' \in [Classes -> Nat]
    BY DEF IndInv, TypeOK, loaderVars
  <2>3. /\ reg_mutex' \in Envs \cup {Nobody} /\ reg_mutex' = reg_mutex
        /\ ruby_types' \subseteq RubyTypes /\ ruby_types_initialized' \in BOOLEAN
        /\ policy_loaded' \in BOOLEAN /\ policy_entry_count' \in 0 .. Len(Policy)
        /\ policy_filled' \in 0 .. policy_entry_count'
        /\ policy_warned' \subseteq Resources /\ flagged' \in [Resources -> Nat]
    BY DEF IndInv, TypeOK, registryVars, typeVars, policyVars
  <2> QED
    BY <1>1, <1>2, <1>3, <2>1, <2>2, <2>3 DEF TypeOK, EnvRecords
<1>5. RegistryInv'
  BY <1>1 DEF IndInv, RegistryInv, RegistryComplete, registryVars, typeVars
<1> QED
  BY <1>1, <1>4, <1>5 DEF IndInv

\* What an action that looks at a statement knows of it.
LEMMA Looking ==
    ASSUME IndInv, NEW e \in Envs, NEW l, NEW op, At(e, l, op)
    PROVE  /\ pc[e] = l /\ todo[e] # <<>> /\ env[e] \in EnvRecords
           /\ op \in {"include", "leave"} => Name(e) \in Classes
           /\ op = "resource" => Name(e) \in Resources
<1>1. env[e] \in EnvRecords
  BY DEF IndInv, TypeOK, EnvRecords
<1> QED
  BY <1>1, Lists DEF IndInv, At

-----------------------------------------------------------------------------
(* The statements, but for the loading of classes.                         *)

LEMMA IncludeStep ==
    ASSUME IndInv, NEW e \in Envs, puppet_exec_include(e)
    PROVE  IndInv'
<1>1. /\ UNCHANGED <<optVars, mainVars, catalog, loaderVars, registryVars>>
      /\ At(e, "stmt", "include")
      /\ env' = [env EXCEPT ![e] = CheckModule(@, ModuleOf[Name(e)])]
  BY DEF puppet_exec_include
<1>2. pc[e] = "stmt" /\ todo[e] # <<>> /\ env[e] \in EnvRecords /\ Name(e) \in Classes
  BY <1>1, Looking
<1>3. CheckModule(env[e], ModuleOf[Name(e)]) \in EnvRecords
  <2> DEFINE module  == ModuleOf[Name(e)]
             checked == [env[e] EXCEPT !.modules_p8_checked = @ \cup {module}]
  <2>1. module \in {ModuleOf[c] : c \in Classes}
    BY <1>2
  <2>2. checked \in EnvRecords
    BY <1>2, <2>1 DEF EnvRecords
  <2> HIDE DEF module
  <2>3. puppet_error_at(checked) \in EnvRecords
    BY <2>2, EnvTypes
  <2> QED
    BY <1>2, <2>2, <2>3 DEF CheckModule, module
<1>4. catalog' \subseteq Resources \cup Classes
  BY <1>1 DEF IndInv, TypeOK
<1>5. env' = env \/ \E v \in EnvRecords : env' = [env EXCEPT ![e] = v]
  BY <1>1, <1>3
<1>6. CASE NextStmt(e)
  BY <1>1, <1>2, <1>4, <1>5, <1>6, LocalStep DEF NextStmt, Goto, Labels
<1>7. CASE Goto(e, "load_class") /\ UNCHANGED todo
  BY <1>1, <1>2, <1>4, <1>5, <1>7, LocalStep DEF Goto, Labels
<1> QED
  BY <1>6, <1>7 DEF puppet_exec_include

LEMMA LeaveClassStep ==
    ASSUME IndInv, NEW e \in Envs, LeaveClass(e)
    PROVE  IndInv'
<1>1. pc[e] = "stmt" /\ todo[e] # <<>> /\ Name(e) \in Classes
  BY Looking DEF LeaveClass
<1>2. catalog' \subseteq Resources \cup Classes
  BY <1>1 DEF IndInv, TypeOK, LeaveClass
<1> QED
  BY <1>1, <1>2, LocalStep DEF LeaveClass, NextStmt, Goto, Labels

LEMMA FailStep ==
    ASSUME IndInv, NEW e \in Envs, puppet_func_fail(e)
    PROVE  IndInv'
<1>1. pc[e] = "stmt" /\ todo[e] # <<>> /\ env[e] \in EnvRecords
  BY Looking DEF puppet_func_fail
<1>2. catalog' \subseteq Resources \cup Classes
  BY DEF IndInv, TypeOK, puppet_func_fail
<1>3. \E v \in EnvRecords : env' = [env EXCEPT ![e] = v]
  BY <1>1, EnvTypes DEF puppet_func_fail
<1> QED
  BY <1>1, <1>2, <1>3, LocalStep DEF puppet_func_fail, NextStmt, Goto, Labels

LEMMA ExecResourceStep ==
    ASSUME IndInv, NEW e \in Envs, ExecResource(e)
    PROVE  IndInv'
<1>1. pc[e] = "stmt" /\ todo[e] # <<>>
  BY Looking DEF ExecResource
<1>2. catalog' \subseteq Resources \cup Classes
  BY DEF IndInv, TypeOK, ExecResource
<1>3. \/ Goto(e, "declare") \/ Goto(e, "types_lock")
      \/ Goto(e, "lookup_type") /\ ruby_types_initialized
  BY DEF ExecResource
<1>4. ruby_types_initialized => ruby_types = RubyTypes
  BY DEF IndInv, RegistryInv
<1> QED
  BY <1>1, <1>2, <1>3, <1>4, LocalStep DEF ExecResource, Goto, Labels

LEMMA LookupTypeStep ==
    ASSUME IndInv, NEW e \in Envs, LookupType(e)
    PROVE  IndInv'
<1>1. pc[e] = "lookup_type" /\ todo[e] # <<>> /\ env[e] \in EnvRecords
  BY Looking DEF LookupType
<1>2. catalog' \subseteq Resources \cup Classes
  BY DEF IndInv, TypeOK, LookupType
<1>3. ErrorTwice(env[e]) \in EnvRecords
  BY <1>1, EnvTypes
<1>4. \/ Goto(e, "declare") /\ UNCHANGED <<todo, env>>
      \/ env' = [env EXCEPT ![e] = ErrorTwice(@)] /\ NextStmt(e)
  BY DEF LookupType
<1> QED
  BY <1>1, <1>2, <1>3, <1>4, LocalStep DEF LookupType, NextStmt, Goto, Labels

LEMMA DeclareStep ==
    ASSUME IndInv, NEW e \in Envs, Declare(e)
    PROVE  IndInv'
<1>1. pc[e] = "declare" /\ todo[e] # <<>> /\ env[e] \in EnvRecords /\ Name(e) \in Resources
  BY Looking DEF Declare
<1>2. catalog' \subseteq Resources \cup Classes
  BY DEF IndInv, TypeOK, Declare
<1>3. /\ ErrorTwice(env[e]) \in EnvRecords
      /\ [env[e] EXCEPT !.resource_catalog = @ \cup {Name(e)}] \in EnvRecords
  <2>1. [env[e] EXCEPT !.resource_catalog = @ \cup {Name(e)}] \in EnvRecords
    BY <1>1 DEF EnvRecords
  <2> QED
    BY <1>1, <2>1, EnvTypes
<1>4. \/ env' = [env EXCEPT ![e] = ErrorTwice(@)] /\ NextStmt(e)
      \/ /\ env' = [env EXCEPT ![e].resource_catalog = @ \cup {Name(e)}]
         /\ Goto(e, "match") \/ Goto(e, "policy_lock")
         /\ UNCHANGED todo
  BY DEF Declare
<1> QED
  BY <1>1, <1>2, <1>3, <1>4, LocalStep DEF Declare, NextStmt, Goto, Labels

LEMMA MatchPolicyStep ==
    ASSUME IndInv, NEW e \in Envs, MatchPolicy(e)
    PROVE  IndInv'
<1>1. pc[e] = "match" /\ todo[e] # <<>>
  BY Looking DEF MatchPolicy
<1>2. catalog' \subseteq Resources \cup Classes
  BY DEF IndInv, TypeOK, MatchPolicy
<1>3. Goto(e, "dedup") \/ Goto(e, "add") \/ Goto(e, "crashed")
  BY DEF MatchPolicy
<1> QED
  BY <1>1, <1>2, <1>3, LocalStep DEF MatchPolicy, Goto, Labels

LEMMA AddResourceStep ==
    ASSUME IndInv, NEW e \in Envs, AddResource(e)
    PROVE  IndInv'
<1>1. pc[e] = "add" /\ todo[e] # <<>> /\ Name(e) \in Resources
  BY Looking DEF AddResource
<1>2. catalog' \subseteq Resources \cup Classes
  BY <1>1 DEF IndInv, TypeOK, AddResource
<1> QED
  BY <1>1, <1>2, LocalStep DEF AddResource, NextStmt, Goto, Labels

LEMMA FinishWorkerStep ==
    ASSUME IndInv, NEW e \in Envs, FinishWorker(e)
    PROVE  IndInv'
<1>1. env[e] \in EnvRecords
  BY DEF IndInv, TypeOK, EnvRecords
<1>2. catalog' \subseteq Resources \cup Classes
  BY DEF IndInv, TypeOK, FinishWorker
<1>3. \E v \in EnvRecords : env' = [env EXCEPT ![e] = v]
  BY <1>1, LeaveNodeType DEF FinishWorker
<1> QED
  BY <1>2, <1>3, LocalStep DEF FinishWorker, Goto, Labels
-----------------------------------------------------------------------------
(* The registries, under reg_mutex.                                        *)

\* A step of e at a registry: the lists of statements, the catalog and the caches
\* stay.
LEMMA RegistryStep ==
    ASSUME IndInv, NEW e \in Envs, NEW l \in Labels,
           UNCHANGED <<optVars, mainVars, todo, catalog, loaderVars>>,
           pc' = [pc EXCEPT ![e] = l],
           pc[e] \in {"types_lock", "types_scan", "policy_lock", "policy_load", "dedup"},
           l \in {"types_scan", "lookup_type", "policy_load", "match", "add"},
           reg_mutex' = reg_mutex => (pc[e] \in {"types_scan", "policy_load"} <=>
                                      l \in {"types_scan", "policy_load"}),
           reg_mutex' # reg_mutex =>
               /\ pc[e] \in {"types_scan", "policy_load"} \/ reg_mutex = Nobody
               /\ reg_mutex' = IF l \in {"types_scan", "policy_load"} THEN e ELSE Nobody,
           env' = env \/ \E v \in EnvRecords : env' = [env EXCEPT ![e] = v],
           ruby_types' \subseteq RubyTypes, ruby_types \subseteq ruby_types',
           ruby_types_initialized' \in BOOLEAN,
           ruby_types_initialized' \/ l = "lookup_type" => ruby_types' = RubyTypes,
           policy_loaded' \in BOOLEAN,
           policy_entry_count' \in 0 .. Len(Policy), policy_filled' \in 0 .. policy_entry_count',
           policy_warned' \subseteq Resources, flagged' \in [Resources -> Nat]
    PROVE  IndInv'
<1>1. /\ MainInv' /\ UseInv' /\ DestroyedInv' /\ LintedOnce'
      /\ pc' \in [Envs -> Labels] /\ pc'[e] = l
      /\ \A f \in Envs \ {e} : pc'[f] = pc[f]
      /\ todo' \in [Envs -> Seq(Frames)]
  BY PartsKept
<1>2. env' \in [Envs -> EnvRecords]
  <2>1. env \in [Envs -> EnvRecords]
    BY DEF IndInv, TypeOK, EnvRecords
  <2> QED
    BY <2>1
<1>3. /\ reg_mutex' \in Envs \cup {Nobody}
      /\ \A f \in Envs : reg_mutex' = f <=> pc'[f] \in {"types_scan", "policy_load"}
  <2>1. /\ reg_mutex \in Envs \cup {Nobody}
        /\ \A f \in Envs : reg_mutex = f <=> pc[f] \in {"types_scan", "policy_load"}
    BY DEF IndInv, TypeOK
  <2>2. CASE reg_mutex' = reg_mutex
    BY <1>1, <2>1, <2>2
  <2>3. CASE reg_mutex' # reg_mutex
    BY <1>1, <2>1, <2>3, NullAssumption
  <2> QED
    BY <2>2, <2>3
<1>4. TypeOK'
  <2>1. /\ site' \in Sites /\ parallel' \in BOOLEAN /\ summary' \in BOOLEAN
        /\ main' \in {"top", "nodes", "node", "exited"} /\ next' \in 1 .. (N + 1)
        /\ started' \in Seq(Nodes) /\ joined' \in 0 .. Len(started') /\ report' \in Seq(Nodes)
        /\ exit_code' \in {0, 1} /\ lost' \subseteq Nodes
    BY DEF IndInv, TypeOK, optVars, mainVars
  <2>2. /\ held' \in [Envs -> Programs \cup {NoProgram}] /\ destroyed' \subseteq Programs
        /\ parsed_manifests' \in [Classes -> Programs \cup {NoProgram}]
        /\ loaded_classes' \in [Classes -> Programs \cup {NoProgram}] /\ lints' \in [Classes -> Nat]
    BY DEF IndInv, TypeOK, loaderVars
  <2>3. catalog' \subseteq Resources \cup Classes
    BY DEF IndInv, TypeOK
  <2> QED
    BY <1>1, <1>2, <1>3, <2>1, <2>2, <2>3 DEF TypeOK, EnvRecords
<1>5. RegistryInv'
  <2>1. ASSUME NEW f \in Envs, pc'[f] = "lookup_type"
        PROVE  ruby_types' = RubyTypes
    <3>1. f # e => ruby_types = RubyTypes
      BY <1>1, <2>1 DEF IndInv, RegistryInv, RegistryComplete
    <3> QED
      BY <1>1, <2>1, <3>1
  <2> QED
    BY <2>1 DEF RegistryInv, RegistryComplete
<1> QED
  BY <1>1, <1>4, <1>5 DEF IndInv

\* Nothing of the registries is out of its type before a step.
LEMMA RegistryTypes ==
    ASSUME IndInv
    PROVE  /\ pc \in [Envs -> Labels]
           /\ \A e \in Envs : reg_mutex = e <=> pc[e] \in {"types_scan", "policy_load"}
           /\ ruby_types \subseteq RubyTypes /\ ruby_types_initialized \in BOOLEAN
           /\ ruby_types_initialized => ruby_types = RubyTypes
           /\ policy_loaded \in BOOLEAN
           /\ policy_entry_count \in 0 .. Len(Policy) /\ policy_filled \in 0 .. policy_entry_count
           /\ policy_warned \subseteq Resources /\ flagged \in [Resources -> Nat]
           /\ Len(Policy) \in Nat
           /\ env \in [Envs -> EnvRecords]
<1>1. /\ pc \in [Envs -> Labels] /\ env \in [Envs -> EnvRecords]
      /\ \A e \in Envs : reg_mutex = e <=> pc[e] \in {"types_scan", "policy_load"}
  BY DEF IndInv, TypeOK, EnvRecords
<1>2. /\ ruby_types \subseteq RubyTypes /\ ruby_types_initialized \in BOOLEAN
      /\ policy_loaded \in BOOLEAN
      /\ policy_entry_count \in 0 .. Len(Policy) /\ policy_filled \in 0 .. policy_entry_count
      /\ policy_warned \subseteq Resources /\ flagged \in [Resources -> Nat]
  BY DEF IndInv, TypeOK
<1>3. ruby_types_initialized => ruby_types = RubyTypes
  BY DEF IndInv, RegistryInv
<1>4. Len(Policy) \in Nat
  BY PolicyAssumption
<1> QED
  BY <1>1, <1>2, <1>3, <1>4

LEMMA LockTypesStep ==
    ASSUME IndInv, NEW e \in Envs, LockTypes(e)
    PROVE  IndInv'
<1>1. /\ pc[e] = "types_lock" /\ reg_mutex = Nobody
      /\ UNCHANGED <<optVars, mainVars, todo, env, catalog, loaderVars, typeVars, policyVars>>
      /\ \/ ruby_types_initialized /\ Goto(e, "lookup_type") /\ UNCHANGED reg_mutex
         \/ Goto(e, "types_scan") /\ reg_mutex' = e
  BY DEF LockTypes
<1> QED
  BY <1>1, RegistryTypes, RegistryStep, NullAssumption DEF Goto, Labels, typeVars, policyVars

LEMMA ScanTypeStep ==
    ASSUME IndInv, NEW e \in Envs, ScanType(e)
    PROVE  IndInv'
<1>1. /\ pc[e] = "types_scan"
      /\ UNCHANGED <<optVars, mainVars, pc, todo, env, catalog, loaderVars, reg_mutex,
                     ruby_types_initialized, policyVars>>
      /\ \E t \in RubyTypes \ ruby_types : ruby_types' = ruby_types \cup {t}
  BY DEF ScanType
<1>2. pc' = [pc EXCEPT ![e] = "types_scan"]
  BY <1>1, RegistryTypes
<1>3. ~ruby_types_initialized /\ ruby_types \subseteq ruby_types' /\ ruby_types' \subseteq RubyTypes
  BY <1>1, RegistryTypes
<1> QED
  BY <1>1, <1>2, <1>3, RegistryTypes, RegistryStep DEF Labels, policyVars

LEMMA FinishScanStep ==
    ASSUME IndInv, NEW e \in Envs, FinishScan(e)
    PROVE  IndInv'
<1>1. /\ pc[e] = "types_scan" /\ pc' = [pc EXCEPT ![e] = "lookup_type"]
      /\ ruby_types = RubyTypes /\ ruby_types_initialized' = TRUE /\ reg_mutex' = Nobody
      /\ UNCHANGED <<optVars, mainVars, todo, env, catalog, loaderVars, ruby_types, policyVars>>
  BY DEF FinishScan, Goto
<1>2. reg_mutex = e /\ reg_mutex' # reg_mutex
  BY <1>1, RegistryTypes, NullAssumption
<1> QED
  BY <1>1, <1>2, RegistryTypes, RegistryStep DEF Labels, policyVars

LEMMA LockPolicyStep ==
    ASSUME IndInv, NEW e \in Envs, LockPolicy(e)
    PROVE  IndInv'
<1>1. /\ pc[e] = "policy_lock" /\ reg_mutex = Nobody /\ policy_loaded' \in BOOLEAN
      /\ UNCHANGED <<optVars, mainVars, todo, env, catalog, loaderVars, typeVars,
                     policy_entry_count, policy_filled, policy_warned, flagged>>
      /\ \/ Goto(e, "match") /\ UNCHANGED reg_mutex
         \/ Goto(e, "policy_load") /\ reg_mutex' = e
  BY DEF LockPolicy
<1>2. CASE Goto(e, "match") /\ UNCHANGED reg_mutex
  BY <1>1, <1>2, RegistryTypes, RegistryStep DEF Goto, Labels, typeVars
<1>3. CASE Goto(e, "policy_load") /\ reg_mutex' = e
  BY <1>1, <1>3, RegistryTypes, RegistryStep, NullAssumption DEF Goto, Labels, typeVars
<1> QED
  BY <1>1, <1>2, <1>3

LEMMA CountEntryStep ==
    ASSUME IndInv, NEW e \in Envs, CountEntry(e)
    PROVE  IndInv'
<1>1. pc[e] = "policy_load" /\ pc' = [pc EXCEPT ![e] = "policy_load"]
  BY RegistryTypes DEF CountEntry
<1>2. policy_entry_count' \in 0 .. Len(Policy) /\ policy_filled' \in 0 .. policy_entry_count'
  BY RegistryTypes DEF CountEntry
<1> QED
  BY <1>1, <1>2, RegistryTypes, RegistryStep DEF CountEntry, Labels, typeVars

LEMMA FillEntryStep ==
    ASSUME IndInv, NEW e \in Envs, FillEntry(e)
    PROVE  IndInv'
<1>1. pc[e] = "policy_load" /\ pc' = [pc EXCEPT ![e] = "policy_load"]
  BY RegistryTypes DEF FillEntry
<1>2. policy_entry_count' \in 0 .. Len(Policy) /\ policy_filled' \in 0 .. policy_entry_count'
  BY RegistryTypes DEF FillEntry
<1> QED
  BY <1>1, <1>2, RegistryTypes, RegistryStep DEF FillEntry, Labels, typeVars

LEMMA FinishPolicyStep ==
    ASSUME IndInv, NEW e \in Envs, FinishPolicy(e)
    PROVE  IndInv'
<1>1. /\ pc[e] = "policy_load" /\ pc' = [pc EXCEPT ![e] = "match"] /\ reg_mutex' = Nobody
      /\ UNCHANGED <<optVars, mainVars, todo, env, catalog, loaderVars, typeVars, policyVars>>
  BY DEF FinishPolicy, Goto
<1>2. reg_mutex = e /\ reg_mutex' # reg_mutex
  BY <1>1, RegistryTypes, NullAssumption
<1> QED
  BY <1>1, <1>2, RegistryTypes, RegistryStep DEF Labels, typeVars, policyVars

LEMMA ReportPolicyStep ==
    ASSUME IndInv, NEW e \in Envs, ReportPolicy(e)
    PROVE  IndInv'
<1>1. pc[e] = "dedup" /\ todo[e] # <<>> /\ env[e] \in EnvRecords /\ Name(e) \in Resources
  BY Looking DEF ReportPolicy
<1>2. env' = env \/ \E v \in EnvRecords : env' = [env EXCEPT ![e] = v]
  <2>1. /\ puppet_error_at(env[e]) \in EnvRecords
        /\ puppet_warning_at(env[e]) \in EnvRecords
    BY <1>1, EnvTypes
  <2>2. \/ env' = env
        \/ env' = [env EXCEPT ![e] = puppet_error_at(@)]
        \/ env' = [env EXCEPT ![e] = puppet_warning_at(@)]
    BY DEF ReportPolicy
  <2> QED
    BY <2>1, <2>2
<1>3. policy_warned' \subseteq Resources /\ flagged' \in [Resources -> Nat]
  BY <1>1, RegistryTypes DEF ReportPolicy
<1>4. /\ pc' = [pc EXCEPT ![e] = "add"]
      /\ UNCHANGED <<optVars, mainVars, todo, catalog, loaderVars, reg_mutex, typeVars,
                     policy_loaded, policy_entry_count, policy_filled>>
  BY DEF ReportPolicy, Goto
<1> QED
  BY <1>1, <1>2, <1>3, <1>4, RegistryTypes, RegistryStep DEF Labels, typeVars
-----------------------------------------------------------------------------
(* The loading of a class.                                                 *)

\* A step of e in the loader: main, the registries and the other threads stay where
\* they are.
LEMMA LoaderStep ==
    ASSUME IndInv, NEW e \in Envs, NEW l \in Labels,
           UNCHANGED <<optVars, mainVars, catalog, registryVars>>,
           pc' = [pc EXCEPT ![e] = l],
           pc[e] \in {"load_class", "load_manifest", "parse", "insert", "lint", "register", "enter"},
           l \in {"stmt", "load_manifest", "parse", "insert", "lint", "register", "enter"},
           env' = env \/ \E v \in EnvRecords : env' = [env EXCEPT ![e] = v],
           todo' = todo \/ \E s \in Seq(Frames) : todo' = [todo EXCEPT ![e] = s],
           held' = held \/ \E p \in Programs \cup {NoProgram} : held' = [held EXCEPT ![e] = p],
           parsed_manifests' \in [Classes -> Programs \cup {NoProgram}],
           loaded_classes' \in [Classes -> Programs \cup {NoProgram}],
           destroyed' \subseteq Programs, lints' \in [Classes -> Nat]
    PROVE  /\ TypeOK' /\ MainInv' /\ RegistryInv'
           /\ pc'[e] = l
           /\ \A f \in Envs \ {e} : /\ pc'[f] = pc[f] /\ todo'[f] = todo[f] /\ Name(f)' = Name(f)
                                    /\ held'[f] = held[f]
<1>1. /\ pc \in [Envs -> Labels] /\ env \in [Envs -> EnvRecords] /\ todo \in [Envs -> Seq(Frames)]
      /\ held \in [Envs -> Programs \cup {NoProgram}]
      /\ \A f \in Envs : reg_mutex = f <=> pc[f] \in {"types_scan", "policy_load"}
  BY DEF IndInv, TypeOK, EnvRecords
<1>2. /\ pc' \in [Envs -> Labels] /\ pc'[e] = l
      /\ \A f \in Envs \ {e} : pc'[f] = pc[f]
  BY <1>1
<1>3. env' \in [Envs -> EnvRecords]
  <2>1. ASSUME NEW v \in EnvRecords, env' = [env EXCEPT ![e] = v]
        PROVE  env' \in [Envs -> EnvRecords]
    BY <1>1, <2>1
  <2>2. CASE env' = env
    BY <1>1, <2>2
  <2> QED
    BY <2>1, <2>2
<1>4. todo' \in [Envs -> Seq(Frames)] /\ \A f \in Envs \ {e} : todo'[f] = todo[f]
  <2>1. ASSUME NEW s \in Seq(Frames), todo' = [todo EXCEPT ![e] = s]
        PROVE  todo' \in [Envs -> Seq(Frames)] /\ \A f \in Envs \ {e} : todo'[f] = todo[f]
    BY <1>1, <2>1
  <2>2. CASE todo' = todo
    BY <1>1, <2>2
  <2> QED
    BY <2>1, <2>2
<1>5. held' \in [Envs -> Programs \cup {NoProgram}] /\ \A f \in Envs \ {e} : held'[f] = held[f]
  <2>1. ASSUME NEW p \in Programs \cup {NoProgram}, held' = [held EXCEPT ![e] = p]
        PROVE  /\ held' \in [Envs -> Programs \cup {NoProgram}]
               /\ \A f \in Envs \ {e} : held'[f] = held[f]
    BY <1>1, <2>1
  <2>2. CASE held' = held
    BY <1>1, <2>2
  <2> QED
    BY <2>1, <2>2
<1>6. \A f \in Envs : reg_mutex = f <=> pc'[f] \in {"types_scan", "policy_load"}
  BY <1>1, <1>2
<1>7. TypeOK'
  <2>1. /\ site' \in Sites /\ parallel' \in BOOLEAN /\ summary' \in BOOLEAN
        /\ main' \in {"top", "nodes", "node", "exited"} /\ next' \in 1 .. (N + 1)
        /\ started' \in Seq(Nodes) /\ joined' \in 0 .. Len(started') /\ report' \in Seq(Nodes)
        /\ exit_code' \in {0, 1} /\ lost' \subseteq Nodes
    BY DEF IndInv, TypeOK, optVars, mainVars
  <2>2. /\ reg_mutex' \in Envs \cup {Nobody} /\ reg_mutex' = reg_mutex
        /\ ruby_types' \subseteq RubyTypes /\ ruby_types_initialized' \in BOOLEAN
        /\ policy_loaded' \in BOOLEAN /\ policy_entry_count' \in 0 .. Len(Policy)
        /\ policy_filled' \in 0 .. policy_entry_count'
        /\ policy_warned' \subseteq Resources /\ flagged' \in [Resources -> Nat]
    BY DEF IndInv, TypeOK, registryVars, typeVars, policyVars
  <2>3. catalog' \subseteq Resources \cup Classes
    BY DEF IndInv, TypeOK
  <2> QED
    BY <1>2, <1>3, <1>4, <1>5, <1>6, <2>1, <2>2, <2>3 DEF TypeOK, EnvRecords
<1>8. MainInv'
  <2>1. \A n \in Nodes : n \in Envs
    BY DEF Nodes, Envs
  <2>2. main' = main /\ next' = next
    BY DEF mainVars
  <2>3. 0 \in Envs
    BY NodesAssumption DEF Envs
  <2> QED
    BY <1>2, <2>1, <2>2, <2>3 DEF IndInv, MainInv
<1>9. RegistryInv'
  BY <1>2 DEF IndInv, RegistryInv, RegistryComplete, registryVars, typeVars
<1> QED
  BY <1>2, <1>4, <1>5, <1>7, <1>8, <1>9 DEF Name

\* What the caches and the threads hold, by type.
LEMMA LoaderTypes ==
    ASSUME IndInv, NEW e \in Envs
    PROVE  /\ held \in [Envs -> Programs \cup {NoProgram}] /\ held[e] \in Programs \cup {NoProgram}
           /\ parsed_manifests \in [Classes -> Programs \cup {NoProgram}]
           /\ loaded_classes \in [Classes -> Programs \cup {NoProgram}]
           /\ destroyed \subseteq Programs /\ lints \in [Classes -> Nat]
           /\ env \in [Envs -> EnvRecords] /\ todo \in [Envs -> Seq(Frames)]
           /\ pc \in [Envs -> Labels]
           /\ NoProgram \notin Programs
           /\ \A c \in Classes : <<e, c>> \in Programs /\ <<e, c>>[2] = c
BY NullAssumption DEF IndInv, TypeOK, EnvRecords, Programs

\* Threads that neither begin nor end to lint leave the count as it is.
LEMMA LintsKept ==
    ASSUME IndInv, NEW e \in Envs, UNCHANGED <<parsed_manifests, lints>>,
           pc[e] # "lint", pc'[e] # "lint",
           \A f \in Envs \ {e} : pc'[f] = pc[f] /\ todo'[f] = todo[f]
    PROVE  LintedOnce'
<1>1. \A c : Linting(c)' = Linting(c)
  BY DEF Linting, At, Name
<1> QED
  BY <1>1 DEF IndInv, LintedOnce, Linting

LEMMA LoadClassStep ==
    ASSUME IndInv, NEW e \in Envs, LoadClass(e)
    PROVE  IndInv'
<1> DEFINE l == IF loaded_classes[Name(e)] # NoProgram THEN "enter" ELSE "load_manifest"
<1>1. /\ pc[e] = "load_class" /\ pc' = [pc EXCEPT ![e] = l] /\ l \in Labels
      /\ held' = [held EXCEPT ![e] = loaded_classes[Name(e)]]
      /\ UNCHANGED <<optVars, mainVars, todo, env, catalog, parsed_manifests, loaded_classes,
                     destroyed, lints, registryVars>>
      /\ Name(e) \in Classes
  BY Looking DEF LoadClass, Goto, Labels
<1>2. /\ TypeOK' /\ MainInv' /\ RegistryInv' /\ pc'[e] = l
      /\ \A f \in Envs \ {e} : /\ pc'[f] = pc[f] /\ todo'[f] = todo[f] /\ Name(f)' = Name(f)
                               /\ held'[f] = held[f]
  <2>1. /\ held' = held \/ \E p \in Programs \cup {NoProgram} : held' = [held EXCEPT ![e] = p]
        /\ parsed_manifests' \in [Classes -> Programs \cup {NoProgram}]
        /\ loaded_classes' \in [Classes -> Programs \cup {NoProgram}]
        /\ destroyed' \subseteq Programs /\ lints' \in [Classes -> Nat]
    BY <1>1, LoaderTypes
  <2> QED
    BY <1>1, <2>1, LoaderStep
<1>3. held'[e] = loaded_classes[Name(e)]
  BY <1>1, LoaderTypes
<1>4. UseInv'
  BY <1>1, <1>2, <1>3 DEF IndInv, UseInv
<1>5. DestroyedInv'
  BY <1>1, <1>2 DEF IndInv, DestroyedInv
<1>6. LintedOnce'
  BY <1>1, <1>2, LintsKept
<1> QED
  BY <1>2, <1>4, <1>5, <1>6 DEF IndInv

LEMMA LoadManifestStep ==
    ASSUME IndInv, NEW e \in Envs, LoadManifest(e)
    PROVE  IndInv'
<1> DEFINE l == IF parsed_manifests[Name(e)] # NoProgram THEN "register" ELSE "parse"
<1>1. /\ pc[e] = "load_manifest" /\ pc' = [pc EXCEPT ![e] = l] /\ l \in Labels
      /\ held' = [held EXCEPT ![e] = parsed_manifests[Name(e)]]
      /\ UNCHANGED <<optVars, mainVars, todo, env, catalog, parsed_manifests, loaded_classes,
                     destroyed, lints, registryVars>>
      /\ Name(e) \in Classes
  BY Looking DEF LoadManifest, Goto, Labels
<1>2. /\ TypeOK' /\ MainInv' /\ RegistryInv' /\ pc'[e] = l
      /\ \A f \in Envs \ {e} : /\ pc'[f] = pc[f] /\ todo'[f] = todo[f] /\ Name(f)' = Name(f)
                               /\ held'[f] = held[f]
  <2>1. /\ held' = held \/ \E p \in Programs \cup {NoProgram} : held' = [held EXCEPT ![e] = p]
        /\ parsed_manifests' \in [Classes -> Programs \cup {NoProgram}]
        /\ loaded_classes' \in [Classes -> Programs \cup {NoProgram}]
        /\ destroyed' \subseteq Programs /\ lints' \in [Classes -> Nat]
    BY <1>1, LoaderTypes
  <2> QED
    BY <1>1, <2>1, LoaderStep
<1>3. held'[e] = parsed_manifests[Name(e)] /\ Name(e)' = Name(e)
  BY <1>1, LoaderTypes DEF Name
<1>4. UseInv'
  BY <1>1, <1>2, <1>3 DEF IndInv, UseInv
<1>5. DestroyedInv'
  <2>1. ASSUME l = "parse"
        PROVE  <<e, Name(e)>> \notin destroyed /\ parsed_manifests[Name(e)] # <<e, Name(e)>>
    <3>1. parsed_manifests[Name(e)] = NoProgram
      BY <2>1
    <3>2. \A p \in destroyed : parsed_manifests[p[2]] # NoProgram
      BY DEF IndInv, DestroyedInv
    <3>3. <<e, Name(e)>> \in Programs /\ <<e, Name(e)>>[2] = Name(e)
      BY <1>1, LoaderTypes
    <3> QED
      BY <3>1, <3>2, <3>3, LoaderTypes
  <2> QED
    BY <1>1, <1>2, <1>3, <2>1 DEF IndInv, DestroyedInv
<1>6. LintedOnce'
  BY <1>1, <1>2, LintsKept
<1> QED
  BY <1>2, <1>4, <1>5, <1>6 DEF IndInv

LEMMA ParseManifestStep ==
    ASSUME IndInv, NEW e \in Envs, ParseManifest(e)
    PROVE  IndInv'
<1>1. /\ pc[e] = "parse" /\ todo[e] # <<>> /\ Name(e) \in Classes /\ env[e] \in EnvRecords
      /\ UNCHANGED <<optVars, mainVars, catalog, parsed_manifests, loaded_classes, destroyed,
                     lints, registryVars>>
  BY Looking DEF ParseManifest
<1>2. CASE Name(e) \in Missing
  <2>1. /\ env' = [env EXCEPT ![e] = ErrorTwice(@)] /\ NextStmt(e) /\ UNCHANGED held
    BY <1>2 DEF ParseManifest
  <2>2. ErrorTwice(env[e]) \in EnvRecords
    BY <1>1, EnvTypes
  <2>3. catalog' \subseteq Resources \cup Classes
    BY <1>1 DEF IndInv, TypeOK
  <2> QED
    BY <1>1, <2>1, <2>2, <2>3, LocalStep DEF NextStmt, Goto, Labels, loaderVars
<1>3. CASE Name(e) \notin Missing
  <2>1. /\ held' = [held EXCEPT ![e] = <<e, Name(e)>>] /\ pc' = [pc EXCEPT ![e] = "insert"]
        /\ UNCHANGED <<todo, env>> /\ "insert" \in Labels
    BY <1>3 DEF ParseManifest, Goto, Labels
  <2>2. /\ TypeOK' /\ MainInv' /\ RegistryInv' /\ pc'[e] = "insert"
        /\ \A f \in Envs \ {e} : /\ pc'[f] = pc[f] /\ todo'[f] = todo[f] /\ Name(f)' = Name(f)
                                 /\ held'[f] = held[f]
    BY <1>1, <2>1, LoaderTypes, LoaderStep
  <2>3. held'[e] = <<e, Name(e)>> /\ Name(e)' = Name(e)
    BY <2>1, LoaderTypes DEF Name
  <2>4. UseInv'
    BY <1>1, <2>1, <2>2, <2>3 DEF IndInv, UseInv
  <2>5. DestroyedInv'
    BY <1>1, <2>2, <2>3 DEF IndInv, DestroyedInv
  <2>6. LintedOnce'
    BY <1>1, <2>2, LintsKept
  <2> QED
    BY <2>2, <2>4, <2>5, <2>6 DEF IndInv
<1> QED
  BY <1>2, <1>3

\* The manifest is in the cache already: the loser destroys what nobody else has.
LEMMA LoseInsert ==
    ASSUME IndInv, NEW e \in Envs, InsertManifest(e),
           parsed_manifests[Name(e)] # NoProgram
    PROVE  IndInv'
<1> DEFINE own == <<e, Name(e)>>
<1>1. /\ pc[e] = "insert" /\ Name(e) \in Classes /\ held[e] = own
      /\ parsed_manifests[Name(e)] # own /\ own \in Programs /\ own[2] = Name(e)
  BY Looking, LoaderTypes DEF InsertManifest, IndInv, UseInv, DestroyedInv
<1>2. /\ destroyed' = destroyed \cup {own}
      /\ held' = [held EXCEPT ![e] = parsed_manifests[Name(e)]]
      /\ pc' = [pc EXCEPT ![e] = "register"] /\ "register" \in Labels
      /\ UNCHANGED <<optVars, mainVars, todo, env, catalog, parsed_manifests, loaded_classes,
                     lints, registryVars>>
  BY <1>1 DEF InsertManifest, Goto, Labels
<1>3. destroyed' \subseteq Programs /\ parsed_manifests[Name(e)] \in Programs
  BY <1>1, <1>2, LoaderTypes
<1>4. /\ TypeOK' /\ MainInv' /\ RegistryInv' /\ pc'[e] = "register"
      /\ \A f \in Envs \ {e} : /\ pc'[f] = pc[f] /\ todo'[f] = todo[f] /\ Name(f)' = Name(f)
                               /\ held'[f] = held[f]
  BY <1>1, <1>2, <1>3, LoaderTypes, LoaderStep
<1>5. held'[e] = parsed_manifests[Name(e)]
  BY <1>2, LoaderTypes
<1>6. UseInv'
  BY <1>1, <1>2, <1>4, <1>5 DEF IndInv, UseInv
<1>7. DestroyedInv'
  <2>1. \A p \in destroyed' : parsed_manifests'[p[2]] \notin {NoProgram, p}
    BY <1>1, <1>2 DEF IndInv, DestroyedInv
  <2>2. ASSUME NEW f \in Envs, pc'[f] \in {"parse", "insert"}
        PROVE  <<f, Name(f)'>> \notin destroyed' /\ parsed_manifests'[Name(f)'] # <<f, Name(f)'>>
    <3>1. f # e
      BY <1>4, <2>2
    <3>2. <<f, Name(f)>> # own
      BY <3>1
    <3> QED
      BY <1>2, <1>4, <2>2, <3>1, <3>2 DEF IndInv, DestroyedInv
  <2> QED
    BY <2>1, <2>2 DEF DestroyedInv
<1>8. LintedOnce'
  BY <1>1, <1>2, <1>4, LintsKept
<1> QED
  BY <1>4, <1>6, <1>7, <1>8 DEF IndInv

\* The first to insert a manifest is the one to lint it.
LEMMA WinInsert ==
    ASSUME IndInv, NEW e \in Envs, InsertManifest(e),
           parsed_manifests[Name(e)] = NoProgram
    PROVE  IndInv'
<1> DEFINE c == Name(e)
           own == <<e, c>>
<1>1. /\ pc[e] = "insert" /\ At(e, "insert", "include") /\ c \in Classes /\ held[e] = own
      /\ own \in Programs /\ own[2] = c /\ own \notin destroyed /\ own # NoProgram
  BY Looking, LoaderTypes DEF InsertManifest, IndInv, UseInv, DestroyedInv
<1>2. /\ parsed_manifests' = [parsed_manifests EXCEPT ![c] = own]
      /\ pc' = [pc EXCEPT ![e] = "lint"] /\ "lint" \in Labels
      /\ UNCHANGED <<optVars, mainVars, todo, env, catalog, held, loaded_classes, destroyed,
                     lints, registryVars>>
  BY <1>1 DEF InsertManifest, Goto, Labels
<1>3. /\ parsed_manifests' \in [Classes -> Programs \cup {NoProgram}]
      /\ parsed_manifests'[c] = own
      /\ \A d \in Classes \ {c} : parsed_manifests'[d] = parsed_manifests[d]
  BY <1>1, <1>2, LoaderTypes
<1>4. /\ TypeOK' /\ MainInv' /\ RegistryInv' /\ pc'[e] = "lint"
      /\ \A f \in Envs \ {e} : /\ pc'[f] = pc[f] /\ todo'[f] = todo[f] /\ Name(f)' = Name(f)
                               /\ held'[f] = held[f]
  BY <1>1, <1>2, <1>3, LoaderTypes, LoaderStep
<1>5. \A p \in Programs : p[2] \in Classes
  BY DEF Programs
<1>6. \A p : InCache(parsed_manifests, p) => InCache(parsed_manifests', p)
  BY <1>1, <1>3, <1>5, LoaderTypes DEF InCache
<1>7. InCache(parsed_manifests', own)
  BY <1>1, <1>3 DEF InCache
<1> HIDE DEF c, own
<1>8. UseInv'
  <2>1. \A d \in Classes : /\ parsed_manifests'[d] # NoProgram => InCache(parsed_manifests', parsed_manifests'[d])
                           /\ loaded_classes'[d] # NoProgram => InCache(parsed_manifests', loaded_classes'[d])
    BY <1>2, <1>3, <1>6, <1>7 DEF IndInv, UseInv
  <2>2. ASSUME NEW f \in Envs
        PROVE  /\ pc'[f] = "insert" => held'[f] = <<f, Name(f)'>>
               /\ pc'[f] \in {"lint", "register", "enter"} => held'[f] # NoProgram
               /\ pc'[f] # "insert" /\ held'[f] # NoProgram => InCache(parsed_manifests', held'[f])
    BY <1>1, <1>2, <1>4, <1>6, <1>7 DEF IndInv, UseInv
  <2>3. \A f \in Envs : OwnersCached(parsed_manifests', todo'[f])
    BY <1>2, <1>6 DEF IndInv, UseInv, OwnersCached
  <2> QED
    BY <2>1, <2>2, <2>3 DEF UseInv
<1>9. DestroyedInv'
  <2>1. \A p \in destroyed' : parsed_manifests'[p[2]] \notin {NoProgram, p}
    <3>1. \A p \in destroyed : p \in Programs /\ p # own
      BY <1>1, LoaderTypes
    <3> QED
      BY <1>1, <1>2, <1>3, <1>5, <3>1 DEF IndInv, DestroyedInv
  <2>2. ASSUME NEW f \in Envs, pc'[f] \in {"parse", "insert"}
        PROVE  <<f, Name(f)'>> \notin destroyed' /\ parsed_manifests'[Name(f)'] # <<f, Name(f)'>>
    <3>1. f # e
      BY <1>4, <2>2
    <3>2. <<f, Name(f)>> # own
      BY <3>1 DEF own
    <3>3. /\ <<f, Name(f)>> \notin destroyed /\ parsed_manifests[Name(f)] # <<f, Name(f)>>
      BY <1>4, <2>2, <3>1 DEF IndInv, DestroyedInv
    <3>4. parsed_manifests'[Name(f)] \in {own, parsed_manifests[Name(f)]}
      BY <1>2, LoaderTypes
    <3> QED
      BY <1>2, <1>4, <3>1, <3>2, <3>3, <3>4
  <2> QED
    BY <2>1, <2>2 DEF DestroyedInv
<1>10. LintedOnce'
  <2>0. PICK k \in Classes : k = c
    BY <1>1
  <2>1. e \notin Linting(k) /\ Linting(k)' = Linting(k) \cup {e}
    BY <2>0, <1>1, <1>2, <1>4 DEF Linting, At, Name, c
  <2>2. \A d \in Classes \ {k} : Linting(d)' = Linting(d)
    BY <2>0, <1>1, <1>2, <1>4 DEF Linting, At, Name, c
  <2>3. Cardinality(Linting(k)') = Cardinality(Linting(k)) + 1
    BY <2>1, LintingFinite, FS_AddElement
  <2>4. lints[k] + Cardinality(Linting(k)) = 0 /\ lints[k] \in Nat
    BY <2>0, <1>1, LoaderTypes DEF IndInv, LintedOnce, Linting, c
  <2>5. lints[k] + Cardinality(Linting(k)') = 1
    BY <2>3, <2>4, LintingFinite
  <2>6. \A d \in Classes \ {k} :
           lints[d] + Cardinality(Linting(d)') = IF parsed_manifests'[d] = NoProgram THEN 0 ELSE 1
    BY <2>0, <1>3, <2>2 DEF IndInv, LintedOnce, Linting
  <2> QED
    <3>1. lints' = lints
      BY <1>2
    <3>2. ASSUME NEW d \in Classes
          PROVE  lints'[d] + Cardinality(Linting(d)')
                     = IF parsed_manifests'[d] = NoProgram THEN 0 ELSE 1
      <4>1. CASE d = k
        BY <2>0, <1>1, <1>3, <2>5, <3>1, <4>1
      <4>2. CASE d # k
        BY <2>6, <3>1, <4>2
      <4> QED
        BY <4>1, <4>2
    <3> QED
      BY <3>2 DEF LintedOnce, Linting
<1> QED
  BY <1>4, <1>8, <1>9, <1>10 DEF IndInv

LEMMA LintManifestStep ==
    ASSUME IndInv, NEW e \in Envs, LintManifest(e)
    PROVE  IndInv'
<1> DEFINE c == Name(e)
           found == Legacy[c]
<1>1. /\ pc[e] = "lint" /\ At(e, "lint", "include") /\ c \in Classes /\ env[e] \in EnvRecords
      /\ lints' = [lints EXCEPT ![c] = @ + 1]
      /\ env' = [env EXCEPT ![e].errors_count = @ + found,
                            ![e].printed = @ + found,
                            ![e].current_node_failed = @ \/ found > 0]
      /\ pc' = [pc EXCEPT ![e] = "register"] /\ "register" \in Labels
      /\ UNCHANGED <<optVars, mainVars, todo, catalog, held, parsed_manifests, loaded_classes,
                     destroyed, registryVars>>
  BY Looking DEF LintManifest, Goto, Labels
<1>2. found \in Nat
  BY <1>1, ManifestsAssumption
<1>3. lints' \in [Classes -> Nat] /\ lints'[c] = lints[c] + 1 /\ \A d \in Classes \ {c} : lints'[d] = lints[d]
  BY <1>1, LoaderTypes
<1>4. \E v \in EnvRecords : env' = [env EXCEPT ![e] = v]
  <2> HIDE DEF found
  <2>1. /\ env[e].errors_count + found \in Nat /\ env[e].printed + found \in Nat
        /\ (env[e].current_node_failed \/ found > 0) \in BOOLEAN
    BY <1>1, <1>2 DEF EnvRecords
  <2> DEFINE v == [env[e] EXCEPT !.errors_count = @ + found, !.printed = @ + found,
                                 !.current_node_failed = @ \/ found > 0]
  <2>2. v \in EnvRecords
    BY <1>1, <2>1, EnvFields, Zenon
  <2>3. env' = [env EXCEPT ![e] = v]
    BY <1>1, LoaderTypes
  <2> QED
    BY <2>2, <2>3
<1> HIDE DEF found, c
<1>5. /\ TypeOK' /\ MainInv' /\ RegistryInv' /\ pc'[e] = "register"
      /\ \A f \in Envs \ {e} : /\ pc'[f] = pc[f] /\ todo'[f] = todo[f] /\ Name(f)' = Name(f)
                               /\ held'[f] = held[f]
  BY <1>1, <1>3, <1>4, LoaderTypes, LoaderStep
<1>6. UseInv'
  BY <1>1, <1>5 DEF IndInv, UseInv
<1>7. DestroyedInv'
  BY <1>1, <1>5 DEF IndInv, DestroyedInv
<1>8. LintedOnce'
  <2>0. PICK k \in Classes : k = c
    BY <1>1
  <2>1. e \in Linting(k) /\ Linting(k)' = Linting(k) \ {e}
    BY <2>0, <1>1, <1>5 DEF Linting, At, Name, c
  <2>2. \A d \in Classes \ {k} : Linting(d)' = Linting(d)
    BY <2>0, <1>1, <1>5 DEF Linting, At, Name, c
  <2>3. Cardinality(Linting(k)') = Cardinality(Linting(k)) - 1
    BY <2>1, LintingFinite, FS_RemoveElement
  <2>4. lints[k] \in Nat
    BY <2>0, <1>1, LoaderTypes DEF c
  <2>5. lints'[k] + Cardinality(Linting(k)') = lints[k] + Cardinality(Linting(k))
    BY <2>0, <1>3, <2>3, <2>4, LintingFinite
  <2>6. ASSUME NEW d \in Classes
        PROVE  lints'[d] + Cardinality(Linting(d)')
                   = IF parsed_manifests'[d] = NoProgram THEN 0 ELSE 1
    <3>1. lints[d] + Cardinality(Linting(d)) = IF parsed_manifests[d] = NoProgram THEN 0 ELSE 1
      BY DEF IndInv, LintedOnce, Linting
    <3>2. CASE d = k
      BY <2>0, <1>1, <2>5, <3>1, <3>2
    <3>3. CASE d # k
      BY <2>0, <1>1, <1>3, <2>2, <3>1, <3>3
    <3> QED
      BY <3>2, <3>3
  <2> QED
    BY <2>6 DEF LintedOnce, Linting
<1> QED
  BY <1>5, <1>6, <1>7, <1>8 DEF IndInv

LEMMA RegisterClassStep ==
    ASSUME IndInv, NEW e \in Envs, RegisterClass(e)
    PROVE  IndInv'
<1> DEFINE c == Name(e)
<1>1. /\ pc[e] = "register" /\ c \in Classes
      /\ pc' = [pc EXCEPT ![e] = "enter"] /\ "enter" \in Labels
      /\ UNCHANGED <<optVars, mainVars, todo, env, catalog, parsed_manifests, destroyed, lints,
                     registryVars>>
  BY Looking DEF RegisterClass, Goto, Labels
<1>2. held[e] # NoProgram /\ InCache(parsed_manifests, held[e]) /\ held[e] \in Programs
  BY <1>1 DEF IndInv, UseInv, InCache
<1>3. \/ /\ loaded_classes[c] # NoProgram /\ held' = [held EXCEPT ![e] = loaded_classes[c]]
         /\ loaded_classes' = loaded_classes
      \/ loaded_classes' = [loaded_classes EXCEPT ![c] = held[e]] /\ held' = held
  BY DEF RegisterClass
<1>4. /\ loaded_classes' \in [Classes -> Programs \cup {NoProgram}]
      /\ \A d \in Classes : loaded_classes'[d] \in {loaded_classes[d], held[e]}
      /\ held'[e] # NoProgram
      /\ held'[e] \in {loaded_classes[c], held[e]}
      /\ held' = held \/ \E p \in Programs \cup {NoProgram} : held' = [held EXCEPT ![e] = p]
  BY <1>1, <1>2, <1>3, LoaderTypes
<1> HIDE DEF c
<1>5. /\ TypeOK' /\ MainInv' /\ RegistryInv' /\ pc'[e] = "enter"
      /\ \A f \in Envs \ {e} : /\ pc'[f] = pc[f] /\ todo'[f] = todo[f] /\ Name(f)' = Name(f)
                               /\ held'[f] = held[f]
  BY <1>1, <1>4, LoaderTypes, LoaderStep
<1>6. UseInv'
  <2>1. \A d \in Classes : loaded_classes'[d] # NoProgram => InCache(parsed_manifests', loaded_classes'[d])
    BY <1>1, <1>2, <1>4 DEF IndInv, UseInv
  <2>2. InCache(parsed_manifests', held'[e])
    BY <1>1, <1>2, <1>4 DEF IndInv, UseInv
  <2> QED
    BY <1>1, <1>4, <1>5, <2>1, <2>2 DEF IndInv, UseInv
<1>7. DestroyedInv'
  BY <1>1, <1>5 DEF IndInv, DestroyedInv
<1>8. LintedOnce'
  BY <1>1, <1>5, LintsKept
<1> QED
  BY <1>5, <1>6, <1>7, <1>8 DEF IndInv

LEMMA EnterClassStep ==
    ASSUME IndInv, NEW e \in Envs, EnterClass(e)
    PROVE  IndInv'
<1> DEFINE c == Name(e)
           leave == [op |-> "leave", name |-> c, program |-> held[e]]
           rest == <<leave>> \o Tail(todo[e])
           list == BodyOf[c] \o rest
           v == [env[e] EXCEPT !.class_scopes = @ \cup {c}]
<1>1. /\ pc[e] = "enter" /\ todo[e] # <<>> /\ c \in Classes /\ env[e] \in EnvRecords
      /\ env' = [env EXCEPT ![e].class_scopes = @ \cup {c}]
      /\ todo' = [todo EXCEPT ![e] = BodyOf[c] \o <<leave>> \o Tail(@)]
      /\ held' = [held EXCEPT ![e] = NoProgram]
      /\ pc' = [pc EXCEPT ![e] = "stmt"] /\ "stmt" \in Labels
      /\ UNCHANGED <<optVars, mainVars, catalog, parsed_manifests, loaded_classes, destroyed, lints,
                     registryVars>>
  BY Looking DEF EnterClass, Goto, Labels
<1>2. InCache(parsed_manifests, held[e]) /\ held[e] \in Programs
  BY <1>1 DEF IndInv, UseInv, InCache
<1>3. leave \in Frames /\ leave.op = "leave" /\ leave.program = held[e]
  BY <1>1, <1>2 DEF Frames
<1>4. BodyOf[c] \in Seq(Frames) /\ \A i \in DOMAIN BodyOf[c] : BodyOf[c][i].op # "leave"
  <2>1. BodyOf[c] \in Seq(Statements)
    BY <1>1, ManifestsAssumption
  <2>2. \A s \in Statements : s \in Frames /\ s.op # "leave"
    BY DEF Frames, Statements
  <2> QED
    BY <2>1, <2>2
<1>5. Tail(todo[e]) \in Seq(Frames) /\ OwnersCached(parsed_manifests, Tail(todo[e]))
  BY <1>1, Lists DEF IndInv, UseInv, OwnersCached
<1>6. v \in EnvRecords /\ env' = [env EXCEPT ![e] = v]
  <2>1. v \in EnvRecords
    BY <1>1 DEF EnvRecords
  <2>2. env' = [env EXCEPT ![e] = v]
    BY <1>1, LoaderTypes
  <2> QED
    BY <2>1, <2>2
<1> HIDE DEF leave, v, c
<1>7. rest \in Seq(Frames) /\ OwnersCached(parsed_manifests, rest)
  <2>1. <<leave>> \in Seq(Frames)
    BY <1>3
  <2>2. rest \in Seq(Frames)
    BY <1>5, <2>1
  <2>3. /\ DOMAIN rest = 1 .. Len(Tail(todo[e])) + 1 /\ rest[1] = leave
        /\ \A i \in DOMAIN rest : i # 1 => i - 1 \in DOMAIN Tail(todo[e]) /\ rest[i] = Tail(todo[e])[i - 1]
    BY <1>5, <2>1
  <2> QED
    BY <1>2, <1>3, <1>5, <2>2, <2>3 DEF OwnersCached
<1> HIDE DEF rest
<1>8. list \in Seq(Frames) /\ OwnersCached(parsed_manifests, list)
  <2>1. list \in Seq(Frames)
    BY <1>4, <1>7
  <2>2. \A i \in DOMAIN list :
           \/ i \in DOMAIN BodyOf[c] /\ list[i] = BodyOf[c][i]
           \/ i - Len(BodyOf[c]) \in DOMAIN rest /\ list[i] = rest[i - Len(BodyOf[c])]
    BY <1>4, <1>7
  <2> QED
    BY <1>4, <1>7, <2>1, <2>2 DEF OwnersCached
<1>9. todo' = [todo EXCEPT ![e] = list]
  <2>1. (BodyOf[c] \o <<leave>>) \o Tail(todo[e]) = list
    <3>1. <<leave>> \in Seq(Frames)
      BY <1>3
    <3>2. \A s, t, u \in Seq(Frames) : (s \o t) \o u = s \o (t \o u)
      BY ConcatAssociative
    <3> QED
      BY <1>4, <1>5, <3>1, <3>2, Zenon DEF rest
  <2> QED
    BY <1>1, <2>1
<1> HIDE DEF list
<1>10. /\ TypeOK' /\ MainInv' /\ RegistryInv' /\ pc'[e] = "stmt"
       /\ \A f \in Envs \ {e} : /\ pc'[f] = pc[f] /\ todo'[f] = todo[f] /\ Name(f)' = Name(f)
                                /\ held'[f] = held[f]
  BY <1>1, <1>6, <1>8, <1>9, LoaderTypes, LoaderStep
<1>11. held'[e] = NoProgram /\ todo'[e] = list
  BY <1>1, <1>9, LoaderTypes
<1>12. UseInv'
  BY <1>1, <1>8, <1>10, <1>11 DEF IndInv, UseInv
<1>13. DestroyedInv'
  BY <1>1, <1>10 DEF IndInv, DestroyedInv
<1>14. LintedOnce'
  BY <1>1, <1>10, LintsKept
<1> QED
  BY <1>10, <1>12, <1>13, <1>14 DEF IndInv
-----------------------------------------------------------------------------
(* The thread of main.                                                     *)

\* A step of main touches at most one environment, between two statements or at
\* rest, and gives it statements only.
LEMMA MainStep ==
    ASSUME IndInv, NEW e \in Envs, NEW l \in {"off", "stmt"},
           UNCHANGED <<optVars, catalog, loaderVars, registryVars>>,
           pc' = [pc EXCEPT ![e] = l], pc[e] \in {"off", "stmt"},
           todo' = todo \/ \E s \in Seq(Statements) : todo' = [todo EXCEPT ![e] = s],
           env' \in [Envs -> EnvRecords],
           main' \in {"top", "nodes", "node", "exited"}, next' \in 1 .. (N + 1),
           started' \in Seq(Nodes), joined' \in 0 .. Len(started'), report' \in Seq(Nodes),
           exit_code' \in {0, 1}, lost' \subseteq Nodes,
           MainInv'
    PROVE  IndInv'
<1>1. /\ pc \in [Envs -> Labels] /\ todo \in [Envs -> Seq(Frames)]
      /\ \A f \in Envs : reg_mutex = f <=> pc[f] \in {"types_scan", "policy_load"}
  BY DEF IndInv, TypeOK
<1>2. /\ pc' \in [Envs -> Labels] /\ pc'[e] = l /\ \A f \in Envs \ {e} : pc'[f] = pc[f]
  BY <1>1 DEF Labels
<1>3. /\ todo' \in [Envs -> Seq(Frames)] /\ \A f \in Envs \ {e} : todo'[f] = todo[f]
      /\ OwnersCached(parsed_manifests, todo'[e])
  <2>1. \A s \in Statements : s \in Frames /\ s.op # "leave"
    BY DEF Frames, Statements
  <2>2. CASE todo' = todo
    BY <1>1, <2>2 DEF IndInv, UseInv
  <2>3. ASSUME NEW s \in Seq(Statements), todo' = [todo EXCEPT ![e] = s]
        PROVE  /\ todo' \in [Envs -> Seq(Frames)] /\ \A f \in Envs \ {e} : todo'[f] = todo[f]
               /\ OwnersCached(parsed_manifests, todo'[e])
    <3>1. s \in Seq(Frames) /\ \A i \in DOMAIN s : s[i].op # "leave"
      BY <2>1
    <3>2. todo'[e] = s /\ todo' \in [Envs -> Seq(Frames)] /\ \A f \in Envs \ {e} : todo'[f] = todo[f]
      BY <1>1, <2>3, <3>1
    <3> QED
      BY <3>1, <3>2 DEF OwnersCached
  <2> QED
    BY <2>2, <2>3
<1>4. UseInv' /\ DestroyedInv' /\ LintedOnce'
  BY <1>2, <1>3, CachesKept
<1>5. \A f \in Envs : reg_mutex = f <=> pc'[f] \in {"types_scan", "policy_load"}
  BY <1>1, <1>2
<1>6. TypeOK'
  BY <1>2, <1>3, <1>5
     DEF IndInv, TypeOK, EnvRecords, optVars, loaderVars, registryVars, typeVars, policyVars
<1>7. RegistryInv'
  BY <1>2 DEF IndInv, RegistryInv, RegistryComplete, registryVars, typeVars
<1> QED
  BY <1>4, <1>6, <1>7 DEF IndInv

\* Types of what main's thread works on.
LEMMA MainTypes ==
    ASSUME IndInv
    PROVE  /\ N \in Nat /\ 0 \in Envs /\ \A n \in Nodes : n \in Envs /\ n \in Nat /\ n # 0
           /\ pc \in [Envs -> Labels] /\ env \in [Envs -> EnvRecords]
           /\ todo \in [Envs -> Seq(Frames)]
           /\ main \in {"top", "nodes", "node", "exited"} /\ next \in 1 .. (N + 1)
           /\ started \in Seq(Nodes) /\ Len(started) \in Nat
           /\ joined \in 0 .. Len(started) /\ report \in Seq(Nodes) /\ Len(report) \in Nat
           /\ exit_code \in {0, 1} /\ lost \subseteq Nodes
           /\ main \in {"nodes", "exited"} => pc[0] = "off"
           /\ next <= N => next \in Nodes /\ pc[next] = "off" /\ next + 1 \in 1 .. (N + 1)
           /\ \A n \in Nodes : HasBlock(n) => site[n] \in Seq(Statements)
<1>1. /\ N \in Nat /\ 0 \in Envs /\ \A n \in Nodes : n \in Envs /\ n \in Nat /\ n # 0
  BY NodesAssumption DEF Envs, Nodes
<1>2. /\ pc \in [Envs -> Labels] /\ env \in [Envs -> EnvRecords]
      /\ todo \in [Envs -> Seq(Frames)]
      /\ main \in {"top", "nodes", "node", "exited"} /\ next \in 1 .. (N + 1)
      /\ started \in Seq(Nodes) /\ joined \in 0 .. Len(started) /\ report \in Seq(Nodes)
      /\ exit_code \in {0, 1} /\ lost \subseteq Nodes /\ site \in Sites
  BY DEF IndInv, TypeOK, EnvRecords
<1>3. main \in {"nodes", "exited"} => pc[0] = "off"
  BY DEF IndInv, MainInv
<1>4. next <= N => next \in Nodes /\ pc[next] = "off" /\ next + 1 \in 1 .. (N + 1)
  BY <1>1, <1>2 DEF IndInv, MainInv, Nodes
<1>5. \A n \in Nodes : HasBlock(n) => site[n] \in Seq(Statements)
  BY <1>2, SitesAssumption DEF HasBlock
<1>6. Len(started) \in Nat /\ Len(report) \in Nat
  BY <1>2
<1> QED
  BY <1>1, <1>2, <1>3, <1>4, <1>5, <1>6

LEMMA FinishTopLevelStep ==
    ASSUME IndInv, FinishTopLevel
    PROVE  IndInv'
<1>1. /\ main' = "nodes" /\ pc[0] = "stmt" /\ pc' = [pc EXCEPT ![0] = "off"]
      /\ UNCHANGED <<optVars, next, started, joined, report, exit_code, lost, todo, env, catalog,
                     loaderVars, registryVars>>
  BY DEF FinishTopLevel, Goto
<1>2. MainInv'
  BY <1>1, MainTypes DEF IndInv, MainInv
<1> QED
  BY <1>1, <1>2, MainTypes, MainStep

LEMMA SkipNodeStep ==
    ASSUME IndInv, SkipNode
    PROVE  IndInv'
<1>1. /\ main = "nodes" /\ next <= N /\ next' = next + 1
      /\ UNCHANGED <<optVars, main, started, joined, report, exit_code, lost, pc, todo, env, catalog,
                     loaderVars, registryVars>>
  BY DEF SkipNode
<1>2. pc[0] = "off" /\ pc' = [pc EXCEPT ![0] = "off"]
  BY <1>1, MainTypes
<1>3. MainInv'
  BY <1>1, MainTypes DEF IndInv, MainInv
<1> QED
  BY <1>1, <1>2, <1>3, MainTypes, MainStep

LEMMA StartNodeStep ==
    ASSUME IndInv, StartNode
    PROVE  IndInv'
<1>1. /\ main = "nodes" /\ next <= N /\ HasBlock(next) /\ main' = "node"
      /\ report' = Append(report, next)
      /\ env' = [env EXCEPT ![0] = EnterNode(@)]
      /\ todo' = [todo EXCEPT ![0] = site[next]]
      /\ pc' = [pc EXCEPT ![0] = "stmt"]
      /\ UNCHANGED <<optVars, next, started, joined, exit_code, lost, catalog, loaderVars, registryVars>>
  BY DEF StartNode, Goto
<1>2. pc[0] = "off" /\ next \in Nodes /\ site[next] \in Seq(Statements)
  BY <1>1, MainTypes
<1>3. env' \in [Envs -> EnvRecords] /\ report' \in Seq(Nodes)
  <2>1. EnterNode(env[0]) \in EnvRecords
    BY MainTypes, EnvTypes
  <2>2. report' \in Seq(Nodes)
    BY <1>1, <1>2, MainTypes
  <2> QED
    BY <1>1, <2>1, <2>2, MainTypes
<1>4. MainInv'
  BY <1>1, MainTypes DEF IndInv, MainInv
<1> QED
  BY <1>1, <1>2, <1>3, <1>4, MainTypes, MainStep

LEMMA FinishNodeStep ==
    ASSUME IndInv, FinishNode
    PROVE  IndInv'
<1>1. /\ main = "node" /\ pc[0] = "stmt" /\ main' = "nodes" /\ next' = next + 1
      /\ env' = [env EXCEPT ![0] = LeaveNode(0)]
      /\ pc' = [pc EXCEPT ![0] = "off"]
      /\ UNCHANGED <<optVars, started, joined, report, exit_code, lost, todo, catalog, loaderVars,
                     registryVars>>
  BY DEF FinishNode, Goto
<1>2. next <= N /\ next + 1 \in 1 .. (N + 1)
  BY <1>1, MainTypes DEF IndInv, MainInv
<1>3. env' \in [Envs -> EnvRecords]
  BY <1>1, MainTypes, LeaveNodeType
<1>4. MainInv'
  BY <1>1, <1>2, MainTypes DEF IndInv, MainInv
<1> QED
  BY <1>1, <1>2, <1>3, <1>4, MainTypes, MainStep

LEMMA StartWorkerStep ==
    ASSUME IndInv, StartWorker
    PROVE  IndInv'
<1>1. /\ main = "nodes" /\ next <= N /\ HasBlock(next)
      /\ started' = Append(started, next) /\ next' = next + 1
      /\ env' = [env EXCEPT ![next] = EnterNode(FreshEnv)]
      /\ todo' = [todo EXCEPT ![next] = site[next]]
      /\ pc' = [pc EXCEPT ![next] = "stmt"]
      /\ UNCHANGED <<optVars, main, joined, report, exit_code, lost, catalog, loaderVars, registryVars>>
  BY DEF StartWorker, Goto
<1>2. /\ next \in Nodes /\ next \in Envs /\ next # 0 /\ next \in Nat /\ pc[next] = "off"
      /\ site[next] \in Seq(Statements) /\ next + 1 \in 1 .. (N + 1)
  BY <1>1, MainTypes
<1>3. env' \in [Envs -> EnvRecords]
  BY <1>1, <1>2, MainTypes, EnvTypes, FreshEnvType
<1>4. started' \in Seq(Nodes) /\ joined' \in 0 .. Len(started')
  BY <1>1, <1>2, MainTypes
<1>5. MainInv'
  BY <1>1, <1>2, MainTypes DEF IndInv, MainInv
<1> QED
  BY <1>1, <1>2, <1>3, <1>4, <1>5, MainTypes, MainStep

LEMMA LoseWorkerStep ==
    ASSUME IndInv, LoseWorker
    PROVE  IndInv'
<1>1. /\ main = "nodes" /\ next <= N /\ lost' = lost \cup {next} /\ next' = next + 1
      /\ env' = [env EXCEPT ![0].printed = @ + 1]
      /\ UNCHANGED <<optVars, main, started, joined, report, exit_code, pc, todo, catalog, loaderVars,
                     registryVars>>
  BY DEF LoseWorker
<1>2. pc[0] = "off" /\ pc' = [pc EXCEPT ![0] = "off"] /\ lost' \subseteq Nodes
  BY <1>1, MainTypes
<1>3. env' \in [Envs -> EnvRecords]
  <2>1. [env[0] EXCEPT !.printed = @ + 1] \in EnvRecords
    BY MainTypes, EnvTypes
  <2> QED
    BY <1>1, <2>1, MainTypes
<1>4. MainInv'
  BY <1>1, MainTypes DEF IndInv, MainInv
<1> QED
  BY <1>1, <1>2, <1>3, <1>4, MainTypes, MainStep

LEMMA JoinWorkerStep ==
    ASSUME IndInv, JoinWorker
    PROVE  IndInv'
<1>1. /\ main = "nodes" /\ joined < Len(started) /\ joined' = joined + 1
      /\ UNCHANGED <<optVars, main, next, started, report, exit_code, lost, pc, todo, env, catalog,
                     loaderVars, registryVars>>
  BY DEF JoinWorker
<1>2. pc[0] = "off" /\ pc' = [pc EXCEPT ![0] = "off"] /\ joined' \in 0 .. Len(started')
  BY <1>1, MainTypes
<1>3. MainInv'
  BY <1>1, MainTypes DEF IndInv, MainInv
<1> QED
  BY <1>1, <1>2, <1>3, MainTypes, MainStep

LEMMA AggregateStep ==
    ASSUME IndInv, Aggregate
    PROVE  IndInv'
<1> DEFINE done == Len(report)
           n == started[done + 1]
           v == [env[0] EXCEPT !.nodes_processed = @ + env[n].nodes_processed,
                               !.nodes_failed = @ + env[n].nodes_failed,
                               !.errors_count = @ + env[n].errors_count,
                               !.warnings_count = @ + env[n].warnings_count]
<1>1. /\ main = "nodes" /\ joined = Len(started) /\ done < joined
      /\ report' = Append(report, n)
      /\ env' = [env EXCEPT ![0].nodes_processed = @ + env[n].nodes_processed,
                            ![0].nodes_failed = @ + env[n].nodes_failed,
                            ![0].errors_count = @ + env[n].errors_count,
                            ![0].warnings_count = @ + env[n].warnings_count]
      /\ UNCHANGED <<optVars, main, next, started, joined, exit_code, lost, pc, todo, catalog,
                     loaderVars, registryVars>>
  BY DEF Aggregate
<1>2. n \in Nodes /\ n \in Envs
  BY <1>1, MainTypes
<1>3. report' \in Seq(Nodes)
  BY <1>1, <1>2, MainTypes
<1>4. pc[0] = "off" /\ pc' = [pc EXCEPT ![0] = "off"]
  BY <1>1, MainTypes
<1>5. env[n] \in EnvRecords /\ env[0] \in EnvRecords
  BY <1>2, MainTypes
<1>6. env' \in [Envs -> EnvRecords]
  <2> HIDE DEF n
  <2>1. v \in EnvRecords
    <3>1. \A i, j, k, m \in Nat :
             [env[0] EXCEPT !.nodes_processed = i, !.nodes_failed = j, !.errors_count = k,
                            !.warnings_count = m] \in EnvRecords
      BY <1>5 DEF EnvRecords
    <3>2. /\ env[0].nodes_processed + env[n].nodes_processed \in Nat
          /\ env[0].nodes_failed + env[n].nodes_failed \in Nat
          /\ env[0].errors_count + env[n].errors_count \in Nat
          /\ env[0].warnings_count + env[n].warnings_count \in Nat
      BY <1>5 DEF EnvRecords
    <3> QED
      BY <3>1, <3>2, Zenon
  <2>2. env' = [env EXCEPT ![0] = v]
    BY <1>1, <1>2, MainTypes
  <2> QED
    BY <2>1, <2>2, MainTypes
<1>7. MainInv'
  BY <1>1, MainTypes DEF IndInv, MainInv
<1> QED
  BY <1>1, <1>3, <1>4, <1>6, <1>7, MainTypes, MainStep

LEMMA ExitStep ==
    ASSUME IndInv, Exit
    PROVE  IndInv'
<1>1. /\ main = "nodes" /\ main' = "exited" /\ exit_code' \in {0, 1}
      /\ UNCHANGED <<optVars, next, started, joined, report, lost, pc, todo, env, catalog, loaderVars,
                     registryVars>>
  BY DEF Exit, ExitCode
<1>2. pc[0] = "off" /\ pc' = [pc EXCEPT ![0] = "off"]
  BY <1>1, MainTypes
<1>3. MainInv'
  BY <1>1, MainTypes DEF IndInv, MainInv
<1> QED
  BY <1>1, <1>2, <1>3, MainTypes, MainStep
-----------------------------------------------------------------------------
(* The invariant, and what follows from it.                                *)

LEMMA StutterStep ==
    ASSUME IndInv, UNCHANGED vars
    PROVE  IndInv'
<1>1. UNCHANGED <<optVars, mainVars, pc, todo, env, catalog, loaderVars, registryVars>>
  BY DEF vars
<1>2. \A c : Linting(c)' = Linting(c)
  BY <1>1 DEF Linting, At, Name
<1>3. TypeOK'
  BY <1>1 DEF IndInv, TypeOK, optVars, mainVars, loaderVars, registryVars, typeVars, policyVars
<1>4. MainInv'
  BY <1>1 DEF IndInv, MainInv, mainVars
<1>5. UseInv' /\ DestroyedInv'
  BY <1>1 DEF IndInv, UseInv, DestroyedInv, OwnersCached, Name, loaderVars
<1>6. LintedOnce'
  BY <1>1, <1>2 DEF IndInv, LintedOnce, Linting, loaderVars
<1>7. RegistryInv'
  BY <1>1 DEF IndInv, RegistryInv, RegistryComplete, registryVars, typeVars
<1> QED
  BY <1>3, <1>4, <1>5, <1>6, <1>7 DEF IndInv

LEMMA InitInv == Init => IndInv
<1> SUFFICES ASSUME Init PROVE IndInv
  OBVIOUS
<1>0. /\ N \in Nat /\ 0 \in Envs /\ Len(Policy) \in Nat
      /\ \A n \in Nodes : n \in Envs /\ n # 0
  BY NodesAssumption, PolicyAssumption DEF Envs, Nodes
<1>1. site[0] \in Seq(Frames) /\ \A i \in DOMAIN site[0] : site[0][i].op # "leave"
  <2>1. site[0] \in Seq(Statements)
    BY SitesAssumption DEF Init
  <2>2. \A s \in Statements : s \in Frames /\ s.op # "leave"
    BY DEF Frames, Statements
  <2> QED
    BY <2>1, <2>2
<1>2. todo \in [Envs -> Seq(Frames)] /\ \A e \in Envs : \A i \in DOMAIN todo[e] : todo[e][i].op # "leave"
  <2>1. <<>> \in Seq(Frames) /\ DOMAIN <<>> = {}
    OBVIOUS
  <2>2. todo = [e \in Envs |-> IF e = 0 THEN site[0] ELSE <<>>]
    BY DEF Init
  <2> QED
    BY <1>1, <2>1, <2>2
<1>3. TypeOK
  <2>1. env \in [Envs -> EnvRecords]
    BY FreshEnvType DEF Init
  <2>2. pc \in [Envs -> Labels] /\ \A e \in Envs : pc[e] \in {"off", "stmt"}
    BY DEF Init, Labels
  <2>3. \A e \in Envs : reg_mutex = e <=> pc[e] \in {"types_scan", "policy_load"}
    BY <2>2, NullAssumption DEF Init
  <2>4. /\ parsed_manifests \in [Classes -> Programs \cup {NoProgram}]
        /\ loaded_classes \in [Classes -> Programs \cup {NoProgram}]
        /\ held \in [Envs -> Programs \cup {NoProgram}]
        /\ lints \in [Classes -> Nat] /\ flagged \in [Resources -> Nat]
    BY DEF Init
  <2>5. started = <<>> /\ started \in Seq(Nodes) /\ report \in Seq(Nodes) /\ joined \in 0 .. Len(started)
    BY DEF Init
  <2>6. /\ site \in Sites /\ parallel \in BOOLEAN /\ summary \in BOOLEAN
        /\ main \in {"top", "nodes", "node", "exited"} /\ next \in 1 .. (N + 1)
        /\ exit_code \in {0, 1} /\ lost \subseteq Nodes
    BY <1>0, OptionsAssumption DEF Init
  <2>7. /\ catalog \subseteq Resources \cup Classes /\ destroyed \subseteq Programs
        /\ reg_mutex \in Envs \cup {Nobody}
        /\ ruby_types \subseteq RubyTypes /\ ruby_types_initialized \in BOOLEAN
        /\ policy_loaded \in BOOLEAN
        /\ policy_entry_count \in 0 .. Len(Policy) /\ policy_filled \in 0 .. policy_entry_count
        /\ policy_warned \subseteq Resources
    BY <1>0 DEF Init
  <2> QED
    BY <1>2, <2>1, <2>2, <2>3, <2>4, <2>5, <2>6, <2>7 DEF TypeOK, EnvRecords
<1>4. MainInv
  BY <1>0 DEF Init, MainInv
<1>5. UseInv /\ DestroyedInv
  <2>1. /\ \A c \in Classes : parsed_manifests[c] = NoProgram /\ loaded_classes[c] = NoProgram
        /\ \A e \in Envs : held[e] = NoProgram /\ pc[e] \in {"off", "stmt"}
        /\ destroyed = {}
    BY DEF Init
  <2> QED
    BY <1>2, <2>1 DEF UseInv, DestroyedInv, OwnersCached
<1>6. LintedOnce
  <2>1. \A e \in Envs : pc[e] # "lint"
    BY DEF Init
  <2>2. \A c : Linting(c) = {}
    BY <2>1 DEF Linting, At
  <2>3. Cardinality({}) = 0
    BY FS_EmptySet
  <2>4. \A c \in Classes : lints[c] = 0 /\ parsed_manifests[c] = NoProgram
    BY DEF Init
  <2>5. \A c \in Classes : lints[c] + Cardinality(Linting(c)) = IF parsed_manifests[c] = NoProgram THEN 0 ELSE 1
    BY <2>2, <2>3, <2>4
  <2> QED
    BY <2>5 DEF LintedOnce, Linting
<1>7. RegistryInv
  BY DEF Init, RegistryInv, RegistryComplete
<1> QED
  BY <1>3, <1>4, <1>5, <1>6, <1>7 DEF IndInv

LEMMA NextInv == IndInv /\ [Next]_vars => IndInv'
<1> SUFFICES ASSUME IndInv, [Next]_vars PROVE IndInv'
  OBVIOUS
<1>1. ASSUME NEW e \in Envs, Step(e) PROVE IndInv'
  <2>1. CASE \/ puppet_exec_include(e) \/ LoadClass(e) \/ LoadManifest(e) \/ ParseManifest(e)
             \/ InsertManifest(e) \/ LintManifest(e) \/ RegisterClass(e) \/ EnterClass(e)
             \/ LeaveClass(e)
    BY <2>1, IncludeStep, LoadClassStep, LoadManifestStep, ParseManifestStep, LoseInsert, WinInsert,
       LintManifestStep, RegisterClassStep, EnterClassStep, LeaveClassStep
  <2>2. CASE \/ puppet_func_fail(e) \/ ExecResource(e) \/ LockTypes(e) \/ ScanType(e)
             \/ FinishScan(e) \/ LookupType(e) \/ Declare(e)
    BY <2>2, FailStep, ExecResourceStep, LockTypesStep, ScanTypeStep, FinishScanStep,
       LookupTypeStep, DeclareStep
  <2>3. CASE \/ LockPolicy(e) \/ CountEntry(e) \/ FillEntry(e) \/ FinishPolicy(e)
             \/ MatchPolicy(e) \/ ReportPolicy(e) \/ AddResource(e) \/ FinishWorker(e)
    BY <2>3, LockPolicyStep, CountEntryStep, FillEntryStep, FinishPolicyStep, MatchPolicyStep,
       ReportPolicyStep, AddResourceStep, FinishWorkerStep
  <2> QED
    BY <1>1, <2>1, <2>2, <2>3 DEF Step
<1>2. CASE Main
  BY <1>2, FinishTopLevelStep, SkipNodeStep, StartNodeStep, FinishNodeStep, StartWorkerStep,
     LoseWorkerStep, JoinWorkerStep, AggregateStep, ExitStep DEF Main
<1> QED
  BY <1>1, <1>2, StutterStep DEF Next

\* What the invariant is for: nothing that a cache, a thread or a class body in
\* progress refers to has been destroyed.
LEMMA InvAlive == IndInv => ProgramsAlive
<1> SUFFICES ASSUME IndInv PROVE ProgramsAlive
  OBVIOUS
<1>1. \A p : InCache(parsed_manifests, p) => p \notin destroyed
  BY DEF IndInv, DestroyedInv, InCache
<1>2. NoProgram \notin destroyed
  BY NullAssumption DEF IndInv, TypeOK
<1>3. \A e \in Envs : held[e] \notin destroyed
  BY <1>1, <1>2 DEF IndInv, UseInv, DestroyedInv
<1>4. \A e \in Envs : \A i \in DOMAIN todo[e] : todo[e][i].op = "leave" => todo[e][i].program \notin destroyed
  BY <1>1 DEF IndInv, UseInv, OwnersCached
<1> QED
  BY <1>1, <1>2, <1>3, <1>4 DEF IndInv, UseInv, ProgramsAlive

\* Whatever the threads do, no program is used after a thread destroyed it, a manifest
\* that is cached has been or is being linted, once, and a thread that looks a type
\* up finds the registry complete (puppet_loader_load_manifest and
\* puppet_init_ruby_types).
THEOREM CachesAreSafe == Spec => []CachesSafe
<1>1. IndInv => CachesSafe
  BY InvAlive DEF IndInv, CachesSafe, RegistryInv
<1> QED
  BY <1>1, InitInv, NextInv, PTL DEF Spec
-----------------------------------------------------------------------------
(* The order of the report.                                                *)

Rising(seq) == \A i, j \in DOMAIN seq : i < j => seq[i] < seq[j]

\* With -P the threads are created in the order of the facts file, and the report
\* follows that order up to where main has come.
ParallelInv ==
    /\ main # "node"
    /\ Rising(started) /\ \A i \in DOMAIN started : started[i] < next
    /\ Len(report) <= Len(started) /\ \A i \in DOMAIN report : report[i] = started[i]
    /\ \A n \in Nodes : n < next /\ HasBlock(n) /\ n \notin lost => \E i \in DOMAIN started : started[i] = n
    /\ main = "exited" => next > N /\ Len(report) = Len(started)

\* Otherwise a section is written when its node's turn begins.
SequentialInv ==
    Rising(report) /\ \A i \in DOMAIN report : IF main = "node" THEN report[i] <= next ELSE report[i] < next

SectionsInv == IF parallel THEN ParallelInv ELSE SequentialInv

LEMMA SectionsKept ==
    ASSUME IndInv, SectionsInv, UNCHANGED <<optVars, mainVars>>
    PROVE  SectionsInv'
BY DEF SectionsInv, ParallelInv, SequentialInv, Rising, HasBlock, optVars, mainVars

\* Appending a later node keeps a list rising.
LEMMA RisingAppend ==
    ASSUME NEW s \in Seq(Nodes), NEW n \in Nodes, Rising(s), \A i \in DOMAIN s : s[i] < n
    PROVE  /\ Rising(Append(s, n)) /\ DOMAIN Append(s, n) = 1 .. (Len(s) + 1)
           /\ DOMAIN s = 1 .. Len(s) /\ Len(s) \in Nat /\ Len(Append(s, n)) = Len(s) + 1
           /\ Append(s, n)[Len(s) + 1] = n
           /\ \A i \in DOMAIN s : i \in DOMAIN Append(s, n) /\ Append(s, n)[i] = s[i]
           /\ \A i \in DOMAIN Append(s, n) : i \in DOMAIN s \/ i = Len(s) + 1
<1>1. /\ DOMAIN Append(s, n) = 1 .. (Len(s) + 1)
      /\ DOMAIN s = 1 .. Len(s) /\ Len(s) \in Nat /\ Len(Append(s, n)) = Len(s) + 1
      /\ Append(s, n)[Len(s) + 1] = n
      /\ \A i \in DOMAIN s : i \in DOMAIN Append(s, n) /\ Append(s, n)[i] = s[i]
  OBVIOUS
<1>2. \A i \in DOMAIN Append(s, n) : i \in DOMAIN s \/ i = Len(s) + 1
  BY <1>1
<1>3. Rising(Append(s, n))
  BY <1>1, <1>2 DEF Rising
<1> QED
  BY <1>1, <1>2, <1>3

LEMMA SectionsMain ==
    ASSUME IndInv, SectionsInv, Main
    PROVE  SectionsInv'
<1> USE DEF SectionsInv
<1>0. /\ N \in Nat /\ next \in 1 .. (N + 1) /\ parallel \in BOOLEAN
      /\ started \in Seq(Nodes) /\ report \in Seq(Nodes) /\ Len(started) \in Nat /\ Len(report) \in Nat
      /\ DOMAIN started = 1 .. Len(started) /\ DOMAIN report = 1 .. Len(report)
      /\ \A i \in DOMAIN started : started[i] \in Nat
      /\ \A i \in DOMAIN report : report[i] \in Nat
      /\ \A n \in Nodes : n \in Nat
      /\ next <= N => next \in Nodes
  <2>1. started \in Seq(Nodes) /\ report \in Seq(Nodes) /\ parallel \in BOOLEAN
    BY DEF IndInv, TypeOK
  <2>2. \A n \in Nodes : n \in Nat
    BY MainTypes
  <2>3. /\ \A i \in DOMAIN started : started[i] \in Nodes
        /\ \A i \in DOMAIN report : report[i] \in Nodes
    BY <2>1
  <2> QED
    BY <2>1, <2>2, <2>3, MainTypes
<1>1. CASE FinishTopLevel
  <2>1. /\ main = "top" /\ main' = "nodes"
        /\ UNCHANGED <<site, parallel, next, started, report, lost>>
    BY <1>1 DEF FinishTopLevel, optVars
  <2> QED
    BY <2>1 DEF ParallelInv, SequentialInv, HasBlock
<1>2. CASE SkipNode
  <2>1. /\ main = "nodes" /\ next <= N /\ next' = next + 1 /\ (HasBlock(next) => ~parallel)
        /\ UNCHANGED <<site, parallel, main, started, report, lost>>
    BY <1>2 DEF SkipNode, optVars
  <2>2. CASE parallel
    <3>1. \A n \in Nodes : n < next' => n < next \/ n = next
      BY <1>0, <2>1
    <3>2. ~HasBlock(next) /\ ParallelInv
      BY <2>1, <2>2
    <3>3. \A i \in DOMAIN started : started[i] < next'
      BY <1>0, <2>1, <3>2 DEF ParallelInv
    <3>4. \A n \in Nodes : n < next' /\ HasBlock(n) /\ n \notin lost => \E i \in DOMAIN started : started[i] = n
      BY <3>1, <3>2 DEF ParallelInv
    <3> QED
      BY <2>1, <2>2, <3>2, <3>3, <3>4 DEF ParallelInv, Rising, HasBlock
  <2>3. CASE ~parallel
    <3>1. Rising(report) /\ \A i \in DOMAIN report : report[i] < next
      BY <2>1, <2>3 DEF SequentialInv
    <3>2. \A i \in DOMAIN report : report[i] < next'
      BY <1>0, <2>1, <3>1
    <3>3. ~parallel' /\ main' = main /\ report' = report
      BY <2>1, <2>3
    <3> QED
      BY <2>1, <3>1, <3>2, <3>3 DEF SequentialInv, Rising
  <2> QED
    BY <2>2, <2>3
<1>3. CASE StartNode
  <2>1. /\ main = "nodes" /\ ~parallel /\ next <= N /\ main' = "node" /\ report' = Append(report, next)
        /\ UNCHANGED <<parallel, next>>
    BY <1>3 DEF StartNode, optVars
  <2>2. \A i \in DOMAIN report : report[i] < next
    BY <2>1 DEF SequentialInv
  <2>3. Rising(report) /\ next \in Nodes
    BY <1>0, <2>1 DEF SequentialInv
  <2>4. Rising(report') /\ DOMAIN report' = 1 .. (Len(report) + 1)
    BY <1>0, <2>1, <2>2, <2>3, RisingAppend
  <2>5. \A i \in DOMAIN report' : report'[i] <= next'
    BY <1>0, <2>1, <2>2, <2>4
  <2> QED
    BY <2>1, <2>4, <2>5 DEF SequentialInv
<1>4. CASE FinishNode
  <2>1. /\ main = "node" /\ main' = "nodes" /\ next' = next + 1
        /\ UNCHANGED <<site, parallel, started, report, lost>>
    BY <1>4 DEF FinishNode, optVars
  <2>2. CASE parallel
    BY <2>1, <2>2 DEF ParallelInv
  <2>3. CASE ~parallel
    BY <1>0, <2>1, <2>3 DEF SequentialInv, Rising
  <2> QED
    BY <2>2, <2>3
<1>5. CASE StartWorker
  <2>1. /\ main = "nodes" /\ parallel /\ next <= N /\ next' = next + 1
        /\ started' = Append(started, next)
        /\ UNCHANGED <<site, parallel, main, report, lost>>
    BY <1>5 DEF StartWorker, optVars
  <2>2. /\ Rising(started) /\ (\A i \in DOMAIN started : started[i] < next) /\ next \in Nodes
        /\ Len(report) <= Len(started) /\ \A i \in DOMAIN report : report[i] = started[i]
    BY <1>0, <2>1 DEF ParallelInv
  <2>3. /\ Rising(started') /\ Len(started') = Len(started) + 1
        /\ \A i \in DOMAIN started : i \in DOMAIN started' /\ started'[i] = started[i]
        /\ \A i \in DOMAIN started' : i \in DOMAIN started \/ started'[i] = next
        /\ Len(started') \in DOMAIN started' /\ started'[Len(started')] = next
    <3> DEFINE longer == Append(started, next)
    <3>1. /\ Rising(longer) /\ DOMAIN longer = 1 .. (Len(started) + 1)
          /\ Len(longer) = Len(started) + 1 /\ longer[Len(started) + 1] = next
          /\ \A i \in DOMAIN started : i \in DOMAIN longer /\ longer[i] = started[i]
          /\ \A i \in DOMAIN longer : i \in DOMAIN started \/ i = Len(started) + 1
      BY <1>0, <2>2, RisingAppend
    <3>2. started' = longer
      BY <2>1
    <3> HIDE DEF longer
    <3> QED
      BY <1>0, <3>1, <3>2
  <2>4. \A i \in DOMAIN started' : started'[i] < next'
    BY <1>0, <2>1, <2>2, <2>3
  <2>5. Len(report') <= Len(started') /\ \A i \in DOMAIN report' : report'[i] = started'[i]
    BY <1>0, <2>1, <2>2, <2>3
  <2>6. ASSUME NEW n \in Nodes, n < next', HasBlock(n)', n \notin lost'
        PROVE  \E i \in DOMAIN started' : started'[i] = n
    <3>1. CASE n = next
      BY <2>3, <3>1
    <3>2. CASE n < next
      BY <2>1, <2>3, <2>6, <3>2 DEF ParallelInv, HasBlock
    <3> QED
      BY <1>0, <2>1, <2>6, <3>1, <3>2
  <2> QED
    BY <2>1, <2>3, <2>4, <2>5, <2>6 DEF ParallelInv
<1>6. CASE LoseWorker
  <2>1. /\ main = "nodes" /\ parallel /\ next <= N /\ next' = next + 1 /\ lost' = lost \cup {next}
        /\ UNCHANGED <<site, parallel, main, started, report>>
    BY <1>6 DEF LoseWorker, optVars
  <2>2. \A n \in Nodes : n < next' => n < next \/ n = next
    BY <1>0, <2>1
  <2> QED
    BY <1>0, <2>1, <2>2 DEF ParallelInv, Rising, HasBlock
<1>7. CASE JoinWorker
  BY <1>7 DEF JoinWorker, optVars, ParallelInv, SequentialInv, HasBlock
<1>8. CASE Aggregate
  <2>1. /\ main = "nodes" /\ parallel /\ Len(report) < Len(started)
        /\ report' = Append(report, started[Len(report) + 1])
        /\ UNCHANGED <<site, parallel, main, next, started, lost>>
    BY <1>8 DEF Aggregate, optVars
  <2>2. /\ Len(report') = Len(report) + 1
        /\ \A i \in DOMAIN report' : \/ i \in DOMAIN report /\ report'[i] = report[i]
                                     \/ i = Len(report) + 1 /\ report'[i] = started[i]
    <3>1. started[Len(report) + 1] \in Nodes
      BY <1>0, <2>1
    <3> QED
      BY <1>0, <2>1, <3>1
  <2> QED
    BY <1>0, <2>1, <2>2 DEF ParallelInv, Rising, HasBlock
<1>9. CASE Exit
  <2>1. /\ main = "nodes" /\ next > N /\ main' = "exited"
        /\ parallel => Len(report) = Len(started)
        /\ UNCHANGED <<site, parallel, next, started, report, lost>>
    BY <1>9 DEF Exit, optVars
  <2> QED
    BY <2>1 DEF ParallelInv, SequentialInv, HasBlock
<1> QED
  BY <1>1, <1>2, <1>3, <1>4, <1>5, <1>6, <1>7, <1>8, <1>9 DEF Main

LEMMA SectionsNext ==
    ASSUME IndInv, SectionsInv, [Next]_vars
    PROVE  SectionsInv'
<1>1. ASSUME NEW e \in Envs, Step(e) PROVE UNCHANGED <<optVars, mainVars>>
  BY <1>1 DEF Step, puppet_exec_include, LoadClass, LoadManifest, ParseManifest, InsertManifest,
     LintManifest, RegisterClass, EnterClass, LeaveClass, puppet_func_fail, ExecResource, LockTypes,
     ScanType, FinishScan, LookupType, Declare, LockPolicy, CountEntry, FillEntry, FinishPolicy,
     MatchPolicy, ReportPolicy, AddResource, FinishWorker
<1>2. CASE UNCHANGED vars
  BY <1>2, SectionsKept DEF vars
<1> QED
  BY <1>1, <1>2, SectionsKept, SectionsMain DEF Next

\* The report has the sections in the order of the facts file, none twice, and with
\* -P one for every node whose thread was created, however the threads finish
\* (puppet_exec_nodes_parallel joins and prints the work items one by one).
THEOREM SectionsAreOrdered == Spec => []SectionsInOrder
<1>1. Init => SectionsInv
  <2> SUFFICES ASSUME Init PROVE SectionsInv
    OBVIOUS
  <2>1. started = <<>> /\ report = <<>> /\ next = 1 /\ main = "top" /\ Len(<<>>) = 0 /\ DOMAIN <<>> = {}
    BY DEF Init
  <2>2. \A n \in Nodes : ~(n < 1)
    BY NodesAssumption DEF Nodes
  <2> QED
    BY <2>1, <2>2 DEF SectionsInv, ParallelInv, SequentialInv, Rising
<1>2. IndInv /\ SectionsInv /\ [Next]_vars => SectionsInv'
  BY SectionsNext
<1>3. IndInv /\ SectionsInv => SectionsInOrder
  <2> SUFFICES ASSUME IndInv, SectionsInv PROVE SectionsInOrder
    OBVIOUS
  <2>1. /\ DOMAIN report = 1 .. Len(report) /\ DOMAIN started = 1 .. Len(started)
        /\ Len(report) \in Nat /\ Len(started) \in Nat /\ N \in Nat /\ next \in 1 .. (N + 1)
    BY MainTypes
  <2>2. \A n \in Nodes : n \in Nat /\ n <= N
    BY NodesAssumption DEF Nodes
  <2>3. CASE parallel
    <3>1. Rising(report)
      <4>1. \A i \in DOMAIN report : i \in DOMAIN started /\ report[i] = started[i]
        <5>1. Len(report) <= Len(started) /\ \A i \in DOMAIN report : report[i] = started[i]
          BY <2>3 DEF SectionsInv, ParallelInv
        <5> QED
          BY <2>1, <5>1
      <4>2. Rising(started)
        BY <2>3 DEF SectionsInv, ParallelInv
      <4> QED
        BY <4>1, <4>2 DEF Rising
    <3>2. ASSUME main = "exited", NEW n \in Nodes, HasBlock(n), n \notin lost
          PROVE  \E i \in DOMAIN report : report[i] = n
      <4>1. n < next /\ DOMAIN report = DOMAIN started
        BY <2>1, <2>2, <2>3, <3>2 DEF SectionsInv, ParallelInv
      <4> QED
        BY <2>3, <3>2, <4>1 DEF SectionsInv, ParallelInv
    <3> QED
      BY <3>1, <3>2 DEF SectionsInOrder, Rising
  <2>4. CASE ~parallel
    BY <2>4 DEF SectionsInv, SequentialInv, SectionsInOrder, Rising
  <2> QED
    BY <2>3, <2>4
<1> QED
  BY <1>1, <1>2, <1>3, InitInv, NextInv, PTL DEF Spec
-----------------------------------------------------------------------------
(* The references of a node.                                               *)

\* Between the entry of a resource in its table and in the catalog.
Declaring == {"policy_lock", "policy_load", "match", "dedup", "add", "crashed"}

\* In a sequential run with -s main's table of resources is in the catalog, but for the
\* one being declared, and a node begins only if none has failed.
ReferenceInv ==
    summary /\ ~parallel =>
        /\ \A r \in env[0].resource_catalog : r \in catalog \/ (pc[0] \in Declaring /\ r = Name(0))
        /\ env[0].nodes_failed = 0 \/ env[0].stop_on_error
        /\ main = "node" => ~env[0].stop_on_error

\* What diagnostics do not touch.
Alike(v, w) == /\ v.resource_catalog = w.resource_catalog
               /\ v.nodes_failed = w.nodes_failed /\ v.stop_on_error = w.stop_on_error

LEMMA DiagnosticsAlike ==
    ASSUME NEW v \in EnvRecords
    PROVE  /\ Alike(puppet_error_at(v), v) /\ Alike(ErrorTwice(v), v) /\ Alike(puppet_warning_at(v), v)
           /\ Alike([ErrorTwice(v) EXCEPT !.compilation_failed = TRUE], v)
           /\ \A module : module \in {ModuleOf[c] : c \in Classes} => Alike(CheckModule(v, module), v)
<1>1. ASSUME NEW w \in EnvRecords
      PROVE  Alike(puppet_env_increment_error(w), w) /\ Alike(puppet_error_at(w), w)
  BY DEF puppet_env_increment_error, puppet_error_at, Alike, EnvRecords
<1>2. Alike(ErrorTwice(v), v)
  BY <1>1, EnvTypes DEF ErrorTwice, Alike
<1>3. Alike([ErrorTwice(v) EXCEPT !.compilation_failed = TRUE], v)
  BY <1>2, EnvTypes DEF Alike, EnvRecords
<1>4. Alike(puppet_warning_at(v), v)
  BY DEF puppet_warning_at, Alike, EnvRecords
<1>5. ASSUME NEW module \in {ModuleOf[c] : c \in Classes}
      PROVE  Alike(CheckModule(v, module), v)
  <2> DEFINE checked == [v EXCEPT !.modules_p8_checked = @ \cup {module}]
  <2>1. checked \in EnvRecords /\ Alike(checked, v)
    BY DEF EnvRecords, Alike
  <2>2. Alike(puppet_error_at(checked), checked)
    BY <1>1, <2>1
  <2>3. Alike(v, v) /\ Alike(puppet_error_at(checked), v)
    BY <2>1, <2>2 DEF Alike
  <2> QED
    BY <2>1, <2>3 DEF CheckModule
<1> QED
  BY <1>1, <1>2, <1>3, <1>4, <1>5

\* A step that leaves the table of resources alone, in a statement that is not
\* between its two entries or stays there.
LEMMA ReferencesKept ==
    ASSUME IndInv, ReferenceInv, UNCHANGED <<summary, parallel>>, Alike(env'[0], env[0]),
           catalog \subseteq catalog', main' = "node" => main = "node",
           pc[0] \in Declaring => (pc'[0] \in Declaring /\ todo'[0] = todo[0])
    PROVE  ReferenceInv'
BY DEF ReferenceInv, Alike, Name

\* A thread of -P works on an environment of its own, and builds no catalog.
LEMMA OthersApart ==
    ASSUME IndInv, NEW e \in Envs, e # 0, Step(e)
    PROVE  /\ env'[0] = env[0] /\ pc'[0] = pc[0] /\ todo'[0] = todo[0]
           /\ UNCHANGED <<catalog, optVars, mainVars>>
<1>0. 0 \in Envs /\ pc \in [Envs -> Labels] /\ env \in [Envs -> EnvRecords] /\ todo \in [Envs -> Seq(Frames)]
  BY MainTypes
<1>1. ASSUME NEW l, Goto(e, l) PROVE pc'[0] = pc[0]
  BY <1>0, <1>1 DEF Goto
<1>2. ASSUME NextStmt(e) PROVE pc'[0] = pc[0] /\ todo'[0] = todo[0]
  BY <1>0, <1>2 DEF NextStmt, Goto
<1>3. ASSUME \/ puppet_exec_include(e) \/ LoadClass(e) \/ LoadManifest(e) \/ ParseManifest(e)
             \/ InsertManifest(e) \/ RegisterClass(e)
      PROVE  /\ env'[0] = env[0] /\ pc'[0] = pc[0] /\ todo'[0] = todo[0]
             /\ UNCHANGED <<catalog, optVars, mainVars>>
  BY <1>0, <1>1, <1>2, <1>3
     DEF puppet_exec_include, LoadClass, LoadManifest, ParseManifest, InsertManifest, RegisterClass
<1>4. ASSUME LintManifest(e) \/ EnterClass(e)
      PROVE  /\ env'[0] = env[0] /\ pc'[0] = pc[0] /\ todo'[0] = todo[0]
             /\ UNCHANGED <<catalog, optVars, mainVars>>
  BY <1>0, <1>1, <1>4 DEF LintManifest, EnterClass
<1>5. ASSUME LeaveClass(e) \/ AddResource(e)
      PROVE  /\ env'[0] = env[0] /\ pc'[0] = pc[0] /\ todo'[0] = todo[0]
             /\ UNCHANGED <<catalog, optVars, mainVars>>
  BY <1>2, <1>5 DEF LeaveClass, AddResource, BuildCatalog
<1>6. ASSUME \/ puppet_func_fail(e) \/ ExecResource(e) \/ LockTypes(e) \/ ScanType(e)
             \/ FinishScan(e) \/ LookupType(e) \/ Declare(e)
      PROVE  /\ env'[0] = env[0] /\ pc'[0] = pc[0] /\ todo'[0] = todo[0]
             /\ UNCHANGED <<catalog, optVars, mainVars>>
  BY <1>0, <1>1, <1>2, <1>6
     DEF puppet_func_fail, ExecResource, LockTypes, ScanType, FinishScan, LookupType, Declare
<1>7. ASSUME \/ LockPolicy(e) \/ CountEntry(e) \/ FillEntry(e) \/ FinishPolicy(e)
             \/ MatchPolicy(e) \/ ReportPolicy(e) \/ FinishWorker(e)
      PROVE  /\ env'[0] = env[0] /\ pc'[0] = pc[0] /\ todo'[0] = todo[0]
             /\ UNCHANGED <<catalog, optVars, mainVars>>
  BY <1>0, <1>1, <1>7
     DEF LockPolicy, CountEntry, FillEntry, FinishPolicy, MatchPolicy, ReportPolicy, FinishWorker
<1> QED
  BY <1>3, <1>4, <1>5, <1>6, <1>7 DEF Step

\* The steps of main's own environment.
LEMMA OwnReferences ==
    ASSUME IndInv, ReferenceInv, Step(0)
    PROVE  ReferenceInv'
<1>0. /\ 0 \in Envs /\ pc \in [Envs -> Labels] /\ env \in [Envs -> EnvRecords]
      /\ todo \in [Envs -> Seq(Frames)] /\ env[0] \in EnvRecords
  BY MainTypes
<1>1. Alike(env[0], env[0])
  BY DEF Alike
<1>2. ASSUME NEW l, Goto(0, l) PROVE pc'[0] = l
  BY <1>0, <1>2 DEF Goto
<1>3. CASE puppet_exec_include(0)
  <2>1. env'[0] = CheckModule(env[0], ModuleOf[Name(0)]) /\ pc[0] = "stmt" /\ Name(0) \in Classes
    BY <1>0, <1>3, Looking DEF puppet_exec_include
  <2>2. Alike(env'[0], env[0])
    BY <1>0, <2>1, DiagnosticsAlike
  <2> QED
    BY <1>3, <2>1, <2>2, ReferencesKept DEF puppet_exec_include, optVars, mainVars, Declaring
<1>4. CASE \/ LoadClass(0) \/ LoadManifest(0) \/ InsertManifest(0) \/ RegisterClass(0)
  <2>1. /\ pc[0] \in {"load_class", "load_manifest", "insert", "register"}
        /\ UNCHANGED <<optVars, mainVars, env, catalog>>
    BY <1>4 DEF LoadClass, LoadManifest, InsertManifest, RegisterClass, At
  <2> QED
    BY <1>1, <2>1, ReferencesKept DEF optVars, mainVars, Declaring
<1>5. CASE ParseManifest(0) \/ LookupType(0)
  <2>1. /\ pc[0] \in {"parse", "lookup_type"} /\ UNCHANGED <<optVars, mainVars, catalog>>
        /\ env' = env \/ env' = [env EXCEPT ![0] = ErrorTwice(@)]
    BY <1>5 DEF ParseManifest, LookupType, At
  <2>2. Alike(env'[0], env[0])
    BY <1>0, <1>1, <2>1, DiagnosticsAlike
  <2> QED
    BY <2>1, <2>2, ReferencesKept DEF optVars, mainVars, Declaring
<1>6. CASE LintManifest(0)
  <2>1. /\ pc[0] = "lint" /\ UNCHANGED <<optVars, mainVars, catalog>> /\ Alike(env'[0], env[0])
    BY <1>0, <1>6 DEF LintManifest, At, Alike, EnvRecords
  <2> QED
    BY <2>1, ReferencesKept DEF optVars, mainVars, Declaring
<1>7. CASE EnterClass(0)
  <2>1. /\ pc[0] = "enter" /\ UNCHANGED <<optVars, mainVars, catalog>> /\ Alike(env'[0], env[0])
    BY <1>0, <1>7 DEF EnterClass, At, Alike, EnvRecords
  <2> QED
    BY <2>1, ReferencesKept DEF optVars, mainVars, Declaring
<1>8. CASE LeaveClass(0)
  <2>1. /\ pc[0] = "stmt" /\ UNCHANGED <<optVars, mainVars, env>> /\ catalog \subseteq catalog'
    BY <1>8 DEF LeaveClass, At
  <2> QED
    BY <1>1, <2>1, ReferencesKept DEF optVars, mainVars, Declaring
<1>9. CASE puppet_func_fail(0)
  <2>1. /\ pc[0] = "stmt" /\ UNCHANGED <<optVars, mainVars, catalog>>
        /\ env'[0] = [ErrorTwice(env[0]) EXCEPT !.compilation_failed = TRUE]
    BY <1>0, <1>9 DEF puppet_func_fail, At
  <2>2. Alike(env'[0], env[0])
    BY <1>0, <2>1, DiagnosticsAlike
  <2> QED
    BY <2>1, <2>2, ReferencesKept DEF optVars, mainVars, Declaring
<1>10. CASE ExecResource(0) \/ LockTypes(0) \/ ScanType(0) \/ FinishScan(0)
  <2>1. /\ pc[0] \in {"stmt", "types_lock", "types_scan"}
        /\ UNCHANGED <<optVars, mainVars, env, catalog>>
    BY <1>10 DEF ExecResource, LockTypes, ScanType, FinishScan, At
  <2> QED
    BY <1>1, <2>1, ReferencesKept DEF optVars, mainVars, Declaring
<1>11. CASE Declare(0)
  <2>1. pc[0] = "declare" /\ UNCHANGED <<optVars, mainVars, catalog>>
    BY <1>11 DEF Declare, At
  <2>2. CASE Name(0) \in env[0].resource_catalog
    <3>1. env' = [env EXCEPT ![0] = ErrorTwice(@)]
      BY <1>11, <2>2 DEF Declare
    <3>2. Alike(env'[0], env[0])
      BY <1>0, <3>1, DiagnosticsAlike
    <3> QED
      BY <2>1, <3>2, ReferencesKept DEF optVars, mainVars, Declaring
  <2>3. CASE Name(0) \notin env[0].resource_catalog
    <3>1. /\ env' = [env EXCEPT ![0].resource_catalog = @ \cup {Name(0)}] /\ UNCHANGED todo
          /\ pc'[0] \in {"match", "policy_lock"}
      BY <1>2, <1>11, <2>3 DEF Declare
    <3>2. /\ env'[0].resource_catalog = env[0].resource_catalog \cup {Name(0)}
          /\ env'[0].nodes_failed = env[0].nodes_failed
          /\ env'[0].stop_on_error = env[0].stop_on_error
      BY <1>0, <3>1 DEF EnvRecords
    <3> QED
      BY <2>1, <3>1, <3>2 DEF ReferenceInv, Declaring, Name, optVars, mainVars
  <2> QED
    BY <2>2, <2>3
<1>12. CASE LockPolicy(0) \/ CountEntry(0) \/ FillEntry(0) \/ FinishPolicy(0) \/ MatchPolicy(0)
  <2>1. pc'[0] \in Declaring /\ UNCHANGED <<optVars, mainVars, todo, env, catalog>>
    BY <1>2, <1>12 DEF LockPolicy, CountEntry, FillEntry, FinishPolicy, MatchPolicy, Declaring
  <2> QED
    BY <1>1, <2>1, ReferencesKept DEF optVars, mainVars
<1>13. CASE ReportPolicy(0)
  <2>1. pc'[0] \in Declaring /\ UNCHANGED <<optVars, mainVars, todo, catalog>>
    BY <1>2, <1>13 DEF ReportPolicy, Declaring
  <2>2. \/ env' = env
        \/ env' = [env EXCEPT ![0] = puppet_error_at(@)]
        \/ env' = [env EXCEPT ![0] = puppet_warning_at(@)]
    BY <1>13 DEF ReportPolicy
  <2>3. Alike(env'[0], env[0])
    BY <1>0, <1>1, <2>2, DiagnosticsAlike
  <2> QED
    BY <2>1, <2>3, ReferencesKept DEF optVars, mainVars
<1>14. CASE AddResource(0)
  <2>1. /\ UNCHANGED <<optVars, mainVars, env>>
        /\ catalog' = IF summary THEN catalog \cup {Name(0)} ELSE catalog
    BY <1>14 DEF AddResource, BuildCatalog
  <2> QED
    BY <2>1 DEF ReferenceInv, optVars, mainVars
<1>15. ~FinishWorker(0)
  BY DEF FinishWorker
<1> QED
  BY <1>3, <1>4, <1>5, <1>6, <1>7, <1>8, <1>9, <1>10, <1>11, <1>12, <1>13, <1>14, <1>15 DEF Step

\* A reference to what the catalog has not is found when main leaves the node.
LEMMA DanglingFound ==
    ASSUME IndInv, ReferenceInv, summary, ~parallel, pc[0] = "stmt", main = "node",
           NEW r \in env[0].resource_catalog, NEW x \in RefersTo[r], x \notin catalog
    PROVE  LeaveNode(0).nodes_failed = 1 /\ LeaveNode(0).stop_on_error
<1>1. env[0] \in EnvRecords /\ r \in Resources
  BY MainTypes DEF EnvRecords
<1>2. r \in catalog /\ env[0].nodes_failed = 0
  BY DEF ReferenceInv, Declaring
<1>3. x \in Resources \cup Classes
  BY <1>1, ManifestsAssumption
<1>4. <<r, x>> \in Dangling
  BY <1>1, <1>2, <1>3 DEF Dangling
<1> DEFINE n == Cardinality(Dangling)
           v == puppet_catalog_validate_refs(env[0])
<1>5. n \in Nat /\ n > 0
  <2>1. IsFiniteSet(Dangling)
    <3>1. IsFiniteSet((catalog \cap Resources) \X (Resources \cup Classes))
      BY ManifestsAssumption, FS_Subset, FS_Union, FS_Product
    <3>2. Dangling \subseteq (catalog \cap Resources) \X (Resources \cup Classes)
      BY DEF Dangling
    <3> QED
      BY <3>1, <3>2, FS_Subset
  <2>2. n \in Nat /\ n # 0
    BY <1>4, <2>1, FS_EmptySet, FS_CardinalityType
  <2> QED
    BY <2>2
<1>6. v.current_node_failed /\ v.nodes_failed = 0
  <2>1. ASSUME NEW k \in Nat, k > 0
        PROVE  LET w == [env[0] EXCEPT !.errors_count = @ + k, !.printed = @ + k,
                                       !.current_node_failed = @ \/ k > 0]
               IN  w.current_node_failed /\ w.nodes_failed = 0
    BY <1>1, <1>2, <2>1 DEF EnvRecords
  <2> QED
    BY <1>5, <2>1 DEF puppet_catalog_validate_refs
<1>7. v \in EnvRecords
  <2>1. /\ env[0].errors_count + n \in Nat /\ env[0].printed + n \in Nat
        /\ (env[0].current_node_failed \/ n > 0) \in BOOLEAN
    BY <1>1, <1>5 DEF EnvRecords
  <2> HIDE DEF n
  <2>2. [env[0] EXCEPT !.errors_count = @ + n, !.printed = @ + n,
                       !.current_node_failed = @ \/ n > 0] \in EnvRecords
    BY <1>1, <2>1, EnvFields, Zenon
  <2> QED
    BY <2>2 DEF puppet_catalog_validate_refs, n
<1>8. LeaveNode(0) = [v EXCEPT !.nodes_failed = @ + 1, !.stop_on_error = TRUE]
  BY <1>6 DEF LeaveNode, BuildCatalog
<1> HIDE DEF v, n
<1>9. \A k \in Nat, b \in BOOLEAN :
         /\ [v EXCEPT !.nodes_failed = k, !.stop_on_error = b].nodes_failed = k
         /\ [v EXCEPT !.nodes_failed = k, !.stop_on_error = b].stop_on_error = b
  BY <1>7 DEF EnvRecords
<1>10. v.nodes_failed + 1 = 1 /\ 1 \in Nat /\ TRUE \in BOOLEAN
  BY <1>6
<1> QED
  BY <1>8, <1>9, <1>10

\* Leaving a node keeps the table, and a failure stops later nodes.
LEMMA LeaveNodeAlike ==
    ASSUME NEW v \in EnvRecords, env[0] = v
    PROVE  /\ LeaveNode(0).resource_catalog = v.resource_catalog
           /\ \/ LeaveNode(0).nodes_failed = v.nodes_failed
              \/ LeaveNode(0).stop_on_error
<1> DEFINE w == IF BuildCatalog(0) THEN puppet_catalog_validate_refs(env[0]) ELSE env[0]
<1>1. w \in EnvRecords /\ Alike(w, v)
  <2>1. ASSUME NEW k \in Nat
        PROVE  LET u == [v EXCEPT !.errors_count = @ + k, !.printed = @ + k,
                                  !.current_node_failed = @ \/ k > 0]
               IN  u.resource_catalog = v.resource_catalog
                   /\ u.nodes_failed = v.nodes_failed /\ u.stop_on_error = v.stop_on_error
    BY DEF EnvRecords
  <2>2. Alike(puppet_catalog_validate_refs(env[0]), v)
    BY <2>1, DanglingFinite DEF puppet_catalog_validate_refs, Alike
  <2>3. ASSUME NEW k \in Nat
        PROVE  [v EXCEPT !.errors_count = @ + k, !.printed = @ + k,
                         !.current_node_failed = @ \/ k > 0] \in EnvRecords
    <3>1. /\ v.errors_count + k \in Nat /\ v.printed + k \in Nat
          /\ (v.current_node_failed \/ k > 0) \in BOOLEAN
      BY DEF EnvRecords
    <3> QED
      BY <3>1, EnvFields, Zenon
  <2>4. puppet_catalog_validate_refs(env[0]) \in EnvRecords
    BY <2>3, DanglingFinite DEF puppet_catalog_validate_refs
  <2> QED
    BY <2>2, <2>4 DEF Alike
<1>2. LeaveNode(0) = IF w.current_node_failed
                     THEN [w EXCEPT !.nodes_failed = @ + 1, !.stop_on_error = TRUE] ELSE w
  BY DEF LeaveNode
<1> HIDE DEF w
<1> QED
  BY <1>1, <1>2 DEF Alike, EnvRecords

LEMMA MainReferences ==
    ASSUME IndInv, ReferenceInv, Main
    PROVE  ReferenceInv'
<1>0. /\ 0 \in Envs /\ pc \in [Envs -> Labels] /\ env \in [Envs -> EnvRecords] /\ env[0] \in EnvRecords
  BY MainTypes
<1>1. Alike(env[0], env[0])
  BY DEF Alike
<1>2. CASE FinishTopLevel
  <2>1. /\ pc[0] = "stmt" /\ main' = "nodes" /\ UNCHANGED <<optVars, env, catalog>>
    BY <1>2 DEF FinishTopLevel
  <2> QED
    BY <1>1, <2>1, ReferencesKept DEF optVars, Declaring
<1>3. CASE SkipNode \/ Exit
  <2>1. /\ main = "nodes" /\ main' \in {"nodes", "exited"} /\ pc[0] = "off"
        /\ UNCHANGED <<optVars, env, catalog>>
    BY <1>3, MainTypes DEF SkipNode, Exit
  <2> QED
    BY <1>1, <2>1, ReferencesKept DEF optVars, Declaring
<1>4. CASE StartNode
  <2>1. /\ ~env[0].stop_on_error /\ env' = [env EXCEPT ![0] = EnterNode(@)]
        /\ UNCHANGED <<optVars, catalog>>
    BY <1>4 DEF StartNode
  <2>2. /\ env'[0].resource_catalog = {} /\ env'[0].nodes_failed = env[0].nodes_failed
        /\ env'[0].stop_on_error = env[0].stop_on_error
    BY <1>0, <2>1 DEF EnterNode, EnvRecords
  <2> QED
    BY <2>1, <2>2 DEF ReferenceInv, optVars
<1>5. CASE FinishNode
  <2>1. /\ pc[0] = "stmt" /\ main' = "nodes" /\ env' = [env EXCEPT ![0] = LeaveNode(0)]
        /\ main = "node" /\ UNCHANGED <<optVars, catalog>>
    BY <1>5 DEF FinishNode
  <2>2. env'[0] = LeaveNode(0)
    BY <1>0, <2>1
  <2>3. /\ env'[0].resource_catalog = env[0].resource_catalog
        /\ env'[0].nodes_failed = env[0].nodes_failed \/ env'[0].stop_on_error
    BY <1>0, <2>2, LeaveNodeAlike
  <2> QED
    BY <2>1, <2>3 DEF ReferenceInv, optVars, Declaring
<1>6. CASE StartWorker \/ LoseWorker \/ JoinWorker \/ Aggregate
  <2>1. parallel /\ UNCHANGED optVars
    BY <1>6 DEF StartWorker, LoseWorker, JoinWorker, Aggregate
  <2> QED
    BY <2>1 DEF ReferenceInv, optVars
<1> QED
  BY <1>2, <1>3, <1>4, <1>5, <1>6 DEF Main

\* When main leaves a node of a sequential run with -s and a resource of that node names
\* what the catalog has not, the node is counted as failed and the nodes after it are
\* not compiled (puppet_catalog_validate_refs, puppet_exec_node_for_certname).
THEOREM ReferencesAreChecked == Spec => ReferencesChecked
<1>1. Init => ReferenceInv
  <2> SUFFICES ASSUME Init PROVE ReferenceInv
    OBVIOUS
  <2>1. env[0] = FreshEnv /\ main = "top"
    BY NodesAssumption DEF Init, Envs
  <2> QED
    BY <2>1 DEF FreshEnv, ReferenceInv
<1>2. IndInv /\ ReferenceInv /\ [Next]_vars => ReferenceInv'
  <2> SUFFICES ASSUME IndInv, ReferenceInv, [Next]_vars PROVE ReferenceInv'
    OBVIOUS
  <2>1. ASSUME NEW e \in Envs, Step(e), e # 0 PROVE ReferenceInv'
    <3>1. /\ env'[0] = env[0] /\ pc'[0] = pc[0] /\ todo'[0] = todo[0]
          /\ UNCHANGED <<catalog, optVars, mainVars>>
      BY <2>1, OthersApart
    <3>2. Alike(env'[0], env[0])
      BY <3>1 DEF Alike
    <3> QED
      BY <3>1, <3>2, ReferencesKept DEF optVars, mainVars
  <2>2. CASE Step(0)
    BY <2>2, OwnReferences
  <2>3. CASE Main
    BY <2>3, MainReferences
  <2>4. CASE UNCHANGED vars
    BY <2>4 DEF ReferenceInv, Name, vars, optVars, mainVars
  <2> QED
    BY <2>1, <2>2, <2>3, <2>4 DEF Next
<1> DEFINE Checked ==
             LET own == env[0].resource_catalog \cup env[0].class_scopes \cup catalog
             IN  /\ ~parallel /\ summary /\ FinishNode
                 /\ env[0].nodes_processed = 1
                 /\ \E r \in env[0].resource_catalog : ~(RefersTo[r] \subseteq own)
                 => env'[0].nodes_failed = 1 /\ env'[0].stop_on_error
<1>3. IndInv /\ ReferenceInv => Checked
  <2> SUFFICES ASSUME IndInv, ReferenceInv, ~parallel, summary, FinishNode,
                      NEW r \in env[0].resource_catalog, NEW x \in RefersTo[r], x \notin catalog
               PROVE  env'[0].nodes_failed = 1 /\ env'[0].stop_on_error
    OBVIOUS
  <2>1. /\ pc[0] = "stmt" /\ main = "node" /\ env' = [env EXCEPT ![0] = LeaveNode(0)]
    BY DEF FinishNode
  <2>2. env'[0] = LeaveNode(0)
    BY <2>1, MainTypes
  <2> QED
    BY <2>1, <2>2, DanglingFound
<1>4. ReferencesChecked <=> [][Checked]_vars
  BY DEF ReferencesChecked
<1> HIDE DEF Checked
<1> QED
  BY <1>1, <1>2, <1>3, <1>4, InitInv, NextInv, PTL DEF Spec
-----------------------------------------------------------------------------
(* The threads of -P and their results.                                    *)

\* A thread that was created stays in the list, those that were joined are done, and
\* only they are in the report.
WorkersInv ==
    /\ \A n \in Nodes :
          /\ pc[n] = "off" => env[n] = FreshEnv
          /\ pc[n] # "off" => parallel /\ \E i \in DOMAIN started : started[i] = n
    /\ \A i \in 1 .. joined : pc[started[i]] = "done"
    /\ parallel => /\ main # "node" /\ Len(report) <= joined
                   /\ \A i \in DOMAIN report : report[i] = started[i]
    /\ main = "top" => next = 1
    /\ main = "exited" => /\ exit_code = ExitCode(env[0])
                          /\ parallel => joined = Len(started) /\ Len(report) = joined

Failing(v) == v.current_node_failed \/ v.nodes_failed > 0

\* A failure is a counted error, and what is counted was printed, by the environment
\* itself or by a thread whose results it has added up.
ErrorsInv ==
    /\ \A e \in Envs : Failing(env[e]) \/ env[e].compilation_failed => env[e].errors_count > 0
    /\ \A n \in Nodes : env[n].errors_count > 0 <=> env[n].printed > 0
    /\ lost = {} /\ env[0].printed > 0 => env[0].errors_count > 0
    /\ env[0].errors_count > 0 => \E e \in Envs : env[e].printed > 0
    /\ parallel => \A i \in DOMAIN report : env[report[i]].errors_count > 0 => env[0].errors_count > 0

\* Without -s an error must make its node fail to reach the exit status.
FailuresInv ==
    /\ \A n \in Nodes : env[n].errors_count > 0 =>
          IF pc[n] = "done" THEN env[n].nodes_failed > 0 ELSE env[n].current_node_failed
    /\ ~summary /\ QuietTop /\ env[0].errors_count > 0 =>
          CASE main = "top"  -> FALSE
            [] main = "node" -> Failing(env[0])
            [] OTHER         -> env[0].nodes_failed > 0

\* Types that are looked up in the registry are not built in.
LookupInv == \A e \in Envs : pc[e] \in {"types_lock", "types_scan", "lookup_type"} =>
                todo[e] # <<>> /\ Head(todo[e]).op = "resource" /\ TypeOf[Name(e)] \notin Builtin

\* The rest of the top level is like all of it: resources nobody has declared yet.
QuietInv ==
    main = "top" /\ QuietTop =>
        /\ \A i \in DOMAIN todo[0] :
              /\ todo[0][i].op = "resource" /\ Known(todo[0][i].name)
              /\ todo[0][i].name \notin PolicyErrors
              /\ todo[0][i].name \in env[0].resource_catalog => i = 1 /\ pc[0] \in Declaring
        /\ \A i, j \in DOMAIN todo[0] : todo[0][i].name = todo[0][j].name => i = j

\* The declaration that has the policy read is still to come.
Pending(list) == \E i \in DOMAIN list : list[i].op = "resource" /\ Known(list[i].name)

\* Threads that are about to look at the policy entered their resource before.
Checking == {"policy_lock", "policy_load", "match", "dedup"}

\* The file is being read by main's own thread at the top level, or has been read.
FileInv ==
    /\ main # "top" => policy_loaded /\ policy_filled = Len(Policy)
    /\ policy_loaded => policy_filled = Len(Policy) \/ pc[0] = "policy_load"
    /\ main = "top" =>
          /\ policy_loaded \/ Pending(todo[0])
          /\ env[0].resource_catalog # {} => policy_loaded \/ pc[0] = "policy_lock"
          /\ pc[0] \in {"policy_load", "match", "dedup", "add"} => policy_loaded

\* A resource of the policy is reported, or is being checked.
CheckedInv(e) ==
    /\ pc[e] = "policy_load" => main = "top" /\ e = 0
    /\ pc[e] # "crashed"
    /\ pc[e] \in Checking => todo[e] # <<>> /\ Head(todo[e]).op = "resource"
    /\ \A r \in env[e].resource_catalog :
          \/ r \notin ToSet(Policy) \/ r \in policy_warned
          \/ pc[e] \in Checking /\ r = Name(e)

PolicyInv ==
    /\ \A r \in Resources : flagged[r] = IF r \in policy_warned THEN 1 ELSE 0
    /\ PolicyReadEarly => FileInv /\ \A e \in Envs : CheckedInv(e)

MoreInv == WorkersInv /\ ErrorsInv /\ FailuresInv /\ LookupInv /\ QuietInv /\ PolicyInv
-----------------------------------------------------------------------------
(* What a step of a thread does to its environment.                        *)

Silent(v, w) ==
    /\ w.errors_count = v.errors_count /\ w.printed = v.printed
    /\ w.current_node_failed = v.current_node_failed /\ w.nodes_failed = v.nodes_failed
    /\ w.compilation_failed = v.compilation_failed

Loud(v, w) ==
    /\ w.errors_count > 0 /\ w.printed > 0
    /\ w.current_node_failed /\ w.nodes_failed = v.nodes_failed

Heard(v, w) == Silent(v, w) \/ Loud(v, w)

\* The environment reports, or does not; its table of resources stays.
Alone(v, w) == Heard(v, w) /\ w.resource_catalog = v.resource_catalog

\* What a number of findings do to it.
Found(v, k) == [v EXCEPT !.errors_count = @ + k, !.printed = @ + k,
                         !.current_node_failed = @ \/ k > 0]

LEMMA FoundAlone ==
    ASSUME NEW v \in EnvRecords, NEW k \in Nat
    PROVE  Found(v, k) \in EnvRecords /\ Alone(v, Found(v, k))
<1>1. Found(v, k) \in EnvRecords
  <2>1. /\ v.errors_count + k \in Nat /\ v.printed + k \in Nat
        /\ (v.current_node_failed \/ k > 0) \in BOOLEAN
    BY DEF EnvRecords
  <2> QED
    BY <2>1, EnvFields, Zenon DEF Found
<1>2. /\ Found(v, k).errors_count = v.errors_count + k /\ Found(v, k).printed = v.printed + k
      /\ Found(v, k).nodes_failed = v.nodes_failed
      /\ Found(v, k).compilation_failed = v.compilation_failed
      /\ Found(v, k).resource_catalog = v.resource_catalog
  BY DEF Found, EnvRecords
<1>3. Found(v, k).current_node_failed = (v.current_node_failed \/ k > 0)
  BY DEF Found, EnvRecords
<1>4. CASE k = 0
  <2>1. Found(v, k).current_node_failed = v.current_node_failed
    <3>1. ~(k > 0) /\ v.current_node_failed \in BOOLEAN /\ Found(v, k).current_node_failed \in BOOLEAN
      BY <1>1, <1>4 DEF EnvRecords
    <3>2. Found(v, k).current_node_failed <=> v.current_node_failed
      BY <1>3, <3>1
    <3> QED
      BY <3>1, <3>2
  <2>2. v.errors_count + k = v.errors_count /\ v.printed + k = v.printed
    BY <1>4 DEF EnvRecords
  <2> QED
    BY <1>1, <1>2, <2>1, <2>2 DEF Alone, Heard, Silent
<1>5. CASE k > 0
  <2>1. Found(v, k).errors_count > 0 /\ Found(v, k).printed > 0
    BY <1>2, <1>5 DEF EnvRecords
  <2> QED
    BY <1>1, <1>2, <1>3, <1>5, <2>1 DEF Alone, Heard, Loud
<1> QED
  BY <1>4, <1>5

\* A diagnostic of an error is printed, counted and marks the node.
LEMMA ErrorLoud ==
    ASSUME NEW v \in EnvRecords
    PROVE  Loud(v, puppet_error_at(v)) /\ puppet_error_at(v) \in EnvRecords
<1>1. puppet_error_at(v) \in EnvRecords
  BY EnvTypes, Zenon
<1>2. Loud(v, puppet_error_at(v))
  BY DEF puppet_error_at, puppet_env_increment_error, Loud, EnvRecords
<1> QED
  BY <1>1, <1>2

LEMMA DiagnosticsAlone ==
    ASSUME NEW v \in EnvRecords
    PROVE  /\ Alone(v, v) /\ Alone(v, puppet_error_at(v)) /\ Alone(v, ErrorTwice(v))
           /\ Alone(v, [ErrorTwice(v) EXCEPT !.compilation_failed = TRUE])
           /\ Alone(v, puppet_warning_at(v))
           /\ \A module : module \in {ModuleOf[c] : c \in Classes} => Alone(v, CheckModule(v, module))
<1>1. Loud(v, ErrorTwice(v)) /\ ErrorTwice(v) \in EnvRecords
  <2>1. ASSUME NEW u \in EnvRecords, Loud(v, u)
        PROVE  Loud(v, puppet_env_increment_error(u))
    BY <2>1 DEF puppet_env_increment_error, Loud, EnvRecords
  <2>2. Loud(v, ErrorTwice(v))
    BY <2>1, ErrorLoud, Zenon DEF ErrorTwice
  <2> QED
    BY <2>2, EnvTypes, Zenon
<1>2. Loud(v, [ErrorTwice(v) EXCEPT !.compilation_failed = TRUE])
  <2>1. ASSUME NEW u \in EnvRecords, Loud(v, u)
        PROVE  Loud(v, [u EXCEPT !.compilation_failed = TRUE])
    BY <2>1 DEF Loud, EnvRecords
  <2> QED
    BY <1>1, <2>1, Zenon
<1>3. Silent(v, puppet_warning_at(v)) /\ Silent(v, v)
  BY DEF puppet_warning_at, Silent, EnvRecords
<1>4. ASSUME NEW module \in {ModuleOf[c] : c \in Classes}
      PROVE  Heard(v, CheckModule(v, module))
  <2> DEFINE checked == [v EXCEPT !.modules_p8_checked = @ \cup {module}]
  <2>1. checked \in EnvRecords /\ Silent(v, checked)
    BY DEF EnvRecords, Silent
  <2>2. CheckModule(v, module) \in {v, checked, puppet_error_at(checked)}
    BY DEF CheckModule
  <2> HIDE DEF checked
  <2>3. Loud(v, puppet_error_at(checked))
    BY <2>1, ErrorLoud DEF Loud, Silent
  <2> QED
    BY <1>3, <2>1, <2>2, <2>3 DEF Heard
<1>5. /\ Alike(puppet_error_at(v), v) /\ Alike(ErrorTwice(v), v) /\ Alike(puppet_warning_at(v), v)
      /\ Alike([ErrorTwice(v) EXCEPT !.compilation_failed = TRUE], v)
      /\ \A module : module \in {ModuleOf[c] : c \in Classes} => Alike(CheckModule(v, module), v)
  BY DiagnosticsAlike, Zenon
<1> DEFINE failed == [ErrorTwice(v) EXCEPT !.compilation_failed = TRUE]
<1>6. Loud(v, failed) /\ Alike(failed, v)
  BY <1>2, <1>5
<1> HIDE DEF failed
<1>7. /\ Alone(v, v) /\ Alone(v, puppet_error_at(v)) /\ Alone(v, ErrorTwice(v)) /\ Alone(v, failed)
      /\ Alone(v, puppet_warning_at(v))
      /\ \A module : module \in {ModuleOf[c] : c \in Classes} => Alone(v, CheckModule(v, module))
  BY <1>1, <1>3, <1>4, <1>5, <1>6, ErrorLoud DEF Alone, Heard, Alike
<1> QED
  BY <1>7 DEF failed

\* Leaving a node may find what dangles, and then counts the node as failed if there
\* was an error.
LEMMA LeaveNodeHeard ==
    ASSUME NEW e, NEW v \in EnvRecords, env[e] = v
    PROVE  /\ LeaveNode(e).resource_catalog = v.resource_catalog
           /\ \E u \in EnvRecords :
                /\ Heard(v, u)
                /\ IF u.current_node_failed
                   THEN /\ LeaveNode(e).nodes_failed > 0
                        /\ LeaveNode(e).errors_count = u.errors_count
                        /\ LeaveNode(e).printed = u.printed
                        /\ LeaveNode(e).compilation_failed = u.compilation_failed
                   ELSE LeaveNode(e) = u
<1> DEFINE u == IF BuildCatalog(e) THEN puppet_catalog_validate_refs(env[e]) ELSE env[e]
<1>1. u \in EnvRecords /\ Alone(v, u)
  <2>1. puppet_catalog_validate_refs(v) = Found(v, Cardinality(Dangling))
    BY DEF puppet_catalog_validate_refs, Found
  <2> QED
    BY <2>1, FoundAlone, DiagnosticsAlone, DanglingFinite
<1>2. LeaveNode(e) = IF u.current_node_failed
                     THEN [u EXCEPT !.nodes_failed = @ + 1, !.stop_on_error = TRUE] ELSE u
  BY DEF LeaveNode
<1> HIDE DEF u
<1>3. LET w == [u EXCEPT !.nodes_failed = @ + 1, !.stop_on_error = TRUE]
      IN  /\ w.nodes_failed > 0 /\ w.errors_count = u.errors_count /\ w.printed = u.printed
          /\ w.compilation_failed = u.compilation_failed
          /\ w.resource_catalog = u.resource_catalog
  BY <1>1 DEF EnvRecords
<1> QED
  BY <1>1, <1>2, <1>3 DEF Alone

\* A thread at work changes its own environment only: it reports, or it ends.
LEMMA StepEffect ==
    ASSUME IndInv, NEW e \in Envs, Step(e)
    PROVE  /\ pc[e] \notin {"off", "done", "crashed"} /\ pc'[e] # "off"
           /\ \A f \in Envs \ {e} : pc'[f] = pc[f] /\ env'[f] = env[f] /\ todo'[f] = todo[f]
           /\ UNCHANGED <<optVars, mainVars>>
           /\ IF pc'[e] = "done" THEN e # 0 /\ pc[e] = "stmt" /\ env'[e] = LeaveNode(e)
                                 ELSE Heard(env[e], env'[e])
           /\ pc[e] # "declare" => env'[e].resource_catalog = env[e].resource_catalog
<1>0. /\ pc \in [Envs -> Labels] /\ env \in [Envs -> EnvRecords] /\ env[e] \in EnvRecords
      /\ todo \in [Envs -> Seq(Frames)]
  BY MainTypes
<1>1. Alone(env[e], env[e]) /\ Heard(env[e], env[e])
  BY <1>0, DiagnosticsAlone DEF Alone
<1>2. ASSUME NEW l, Goto(e, l)
      PROVE  pc'[e] = l /\ \A f \in Envs \ {e} : pc'[f] = pc[f]
  BY <1>0, <1>2 DEF Goto
<1>3. ASSUME NextStmt(e)
      PROVE  /\ pc'[e] = "stmt" /\ \A f \in Envs \ {e} : pc'[f] = pc[f]
             /\ \A f \in Envs \ {e} : todo'[f] = todo[f]
  BY <1>0, <1>3 DEF NextStmt, Goto
<1>4. ASSUME NEW v, env' = [env EXCEPT ![e] = v]
      PROVE  env'[e] = v /\ \A f \in Envs \ {e} : env'[f] = env[f]
  BY <1>0, <1>4
<1>5. CASE puppet_exec_include(e)
  <2>1. /\ pc[e] = "stmt" /\ Name(e) \in Classes /\ UNCHANGED <<optVars, mainVars>>
        /\ env' = [env EXCEPT ![e] = CheckModule(env[e], ModuleOf[Name(e)])]
        /\ NextStmt(e) \/ (Goto(e, "load_class") /\ UNCHANGED todo)
    BY <1>5, Looking DEF puppet_exec_include
  <2>2. Alone(env[e], CheckModule(env[e], ModuleOf[Name(e)]))
    BY <1>0, <2>1, DiagnosticsAlone
  <2>3. /\ pc'[e] \in {"stmt", "load_class"}
        /\ \A f \in Envs \ {e} : pc'[f] = pc[f] /\ todo'[f] = todo[f]
    BY <1>2, <1>3, <2>1
  <2> QED
    BY <1>4, <2>1, <2>2, <2>3 DEF Alone
<1>6. CASE \/ LoadClass(e) \/ LoadManifest(e) \/ InsertManifest(e) \/ RegisterClass(e)
           \/ ExecResource(e) \/ LockTypes(e) \/ ScanType(e) \/ FinishScan(e)
           \/ LockPolicy(e) \/ CountEntry(e) \/ FillEntry(e) \/ FinishPolicy(e) \/ MatchPolicy(e)
  <2>1. UNCHANGED <<optVars, mainVars, env, todo>>
    BY <1>6 DEF LoadClass, LoadManifest, InsertManifest, RegisterClass, ExecResource, LockTypes,
       ScanType, FinishScan, LockPolicy, CountEntry, FillEntry, FinishPolicy, MatchPolicy
  <2>2. /\ pc[e] \notin {"off", "done", "crashed"}
        /\ \/ UNCHANGED pc
           \/ \E l \in Labels \ {"off", "done"} : Goto(e, l)
    <3>1. CASE LoadClass(e) \/ LoadManifest(e) \/ InsertManifest(e) \/ RegisterClass(e)
      BY <3>1 DEF LoadClass, LoadManifest, InsertManifest, RegisterClass, At, Labels
    <3>2. CASE ExecResource(e) \/ LockTypes(e) \/ ScanType(e) \/ FinishScan(e)
      BY <3>2 DEF ExecResource, LockTypes, ScanType, FinishScan, At, Labels
    <3>3. CASE LockPolicy(e) \/ CountEntry(e) \/ FillEntry(e) \/ FinishPolicy(e) \/ MatchPolicy(e)
      BY <3>3 DEF LockPolicy, CountEntry, FillEntry, FinishPolicy, MatchPolicy, At, Labels
    <3> QED
      BY <1>6, <3>1, <3>2, <3>3
  <2>3. pc'[e] \notin {"off", "done"} /\ \A f \in Envs \ {e} : pc'[f] = pc[f]
    BY <1>2, <2>2
  <2> QED
    BY <1>1, <2>1, <2>2, <2>3
<1>7. CASE ParseManifest(e) \/ LookupType(e)
  <2>1. /\ pc[e] \in {"parse", "lookup_type"} /\ UNCHANGED <<optVars, mainVars>>
        /\ \/ env' = env
           \/ env' = [env EXCEPT ![e] = ErrorTwice(env[e])]
        /\ \/ NextStmt(e)
           \/ (UNCHANGED todo /\ \E l \in {"insert", "declare"} : Goto(e, l))
    BY <1>7 DEF ParseManifest, LookupType, At
  <2>2. Alone(env[e], ErrorTwice(env[e]))
    BY <1>0, DiagnosticsAlone, Zenon
  <2>3. /\ pc'[e] \in {"stmt", "insert", "declare"}
        /\ \A f \in Envs \ {e} : pc'[f] = pc[f] /\ todo'[f] = todo[f]
    BY <1>2, <1>3, <2>1
  <2>4. Alone(env[e], env'[e]) /\ \A f \in Envs \ {e} : env'[f] = env[f]
    BY <1>1, <1>4, <2>1, <2>2
  <2> QED
    BY <2>1, <2>3, <2>4 DEF Alone
<1>8. CASE LintManifest(e)
  <2>1. /\ pc[e] = "lint" /\ Name(e) \in Classes /\ UNCHANGED <<optVars, mainVars, todo>>
        /\ Goto(e, "register")
        /\ env' = [env EXCEPT ![e].errors_count = @ + Legacy[Name(e)],
                              ![e].printed = @ + Legacy[Name(e)],
                              ![e].current_node_failed = @ \/ Legacy[Name(e)] > 0]
    BY <1>8, Looking DEF LintManifest, At
  <2>2. PICK k \in Nat : k = Legacy[Name(e)]
    BY <2>1, ManifestsAssumption
  <2>3. env' = [env EXCEPT ![e].errors_count = @ + k, ![e].printed = @ + k,
                           ![e].current_node_failed = @ \/ k > 0]
    BY <2>1, <2>2
  <2>4. env'[e] = Found(env[e], k) /\ \A f \in Envs \ {e} : env'[f] = env[f]
    BY <1>0, <2>3 DEF Found
  <2>5. Heard(env[e], env'[e]) /\ env'[e].resource_catalog = env[e].resource_catalog
    BY <1>0, <2>4, FoundAlone DEF Alone
  <2>6. pc'[e] = "register" /\ \A f \in Envs \ {e} : pc'[f] = pc[f]
    BY <1>2, <2>1
  <2> QED
    BY <2>1, <2>4, <2>5, <2>6
<1>9. CASE EnterClass(e)
  <2>1. /\ pc[e] = "enter" /\ UNCHANGED <<optVars, mainVars>> /\ Goto(e, "stmt")
        /\ env' = [env EXCEPT ![e].class_scopes = @ \cup {Name(e)}]
        /\ \E s : todo' = [todo EXCEPT ![e] = s]
    BY <1>9 DEF EnterClass, At
  <2>2. /\ env'[e] = [env[e] EXCEPT !.class_scopes = @ \cup {Name(e)}]
        /\ \A f \in Envs \ {e} : env'[f] = env[f] /\ todo'[f] = todo[f]
    BY <1>0, <2>1
  <2>3. Heard(env[e], env'[e]) /\ env'[e].resource_catalog = env[e].resource_catalog
    BY <1>0, <2>2 DEF EnvRecords, Heard, Silent
  <2>4. pc'[e] = "stmt" /\ \A f \in Envs \ {e} : pc'[f] = pc[f]
    BY <1>2, <2>1
  <2> QED
    BY <2>1, <2>2, <2>3, <2>4
<1>10. CASE LeaveClass(e) \/ AddResource(e)
  <2>1. pc[e] \in {"stmt", "add"} /\ UNCHANGED <<optVars, mainVars, env>> /\ NextStmt(e)
    BY <1>10 DEF LeaveClass, AddResource, At
  <2> QED
    BY <1>1, <1>3, <2>1
<1>11. CASE puppet_func_fail(e)
  <2>1. /\ pc[e] = "stmt" /\ UNCHANGED <<optVars, mainVars>> /\ NextStmt(e)
        /\ env' = [env EXCEPT ![e] = [ErrorTwice(env[e]) EXCEPT !.compilation_failed = TRUE]]
    BY <1>11 DEF puppet_func_fail, At
  <2>2. Alone(env[e], [ErrorTwice(env[e]) EXCEPT !.compilation_failed = TRUE])
    BY <1>0, DiagnosticsAlone, Zenon
  <2>3. Alone(env[e], env'[e]) /\ \A f \in Envs \ {e} : env'[f] = env[f]
    BY <1>4, <2>1, <2>2
  <2> QED
    BY <1>3, <2>1, <2>3 DEF Alone
<1>12. CASE Declare(e)
  <2>1. /\ pc[e] = "declare" /\ UNCHANGED <<optVars, mainVars>>
        /\ \/ NextStmt(e) /\ env' = [env EXCEPT ![e] = ErrorTwice(env[e])]
           \/ /\ env' = [env EXCEPT ![e].resource_catalog = @ \cup {Name(e)}]
              /\ UNCHANGED todo
              /\ \E l \in {"match", "policy_lock"} : Goto(e, l)
    BY <1>12 DEF Declare, At
  <2>2. Heard(env[e], ErrorTwice(env[e]))
    <3>1. Alone(env[e], ErrorTwice(env[e]))
      BY <1>0, DiagnosticsAlone, Zenon
    <3> QED
      BY <3>1 DEF Alone
  <2>3. ASSUME env' = [env EXCEPT ![e].resource_catalog = @ \cup {Name(e)}]
        PROVE  Heard(env[e], env'[e]) /\ \A f \in Envs \ {e} : env'[f] = env[f]
    <3>1. /\ env'[e] = [env[e] EXCEPT !.resource_catalog = @ \cup {Name(e)}]
          /\ \A f \in Envs \ {e} : env'[f] = env[f]
      BY <1>0, <2>3
    <3> QED
      BY <1>0, <3>1 DEF EnvRecords, Heard, Silent
  <2>4. /\ pc'[e] \in {"stmt", "match", "policy_lock"}
        /\ \A f \in Envs \ {e} : pc'[f] = pc[f] /\ todo'[f] = todo[f]
    BY <1>2, <1>3, <2>1
  <2> QED
    BY <1>4, <2>1, <2>2, <2>3, <2>4
<1>13. CASE ReportPolicy(e)
  <2>1. /\ pc[e] = "dedup" /\ UNCHANGED <<optVars, mainVars, todo>> /\ Goto(e, "add")
        /\ \/ env' = env
           \/ env' = [env EXCEPT ![e] = puppet_error_at(env[e])]
           \/ env' = [env EXCEPT ![e] = puppet_warning_at(env[e])]
    BY <1>13 DEF ReportPolicy, At
  <2>2. Alone(env[e], puppet_error_at(env[e])) /\ Alone(env[e], puppet_warning_at(env[e]))
    BY <1>0, DiagnosticsAlone, Zenon
  <2>3. Alone(env[e], env'[e]) /\ \A f \in Envs \ {e} : env'[f] = env[f]
    BY <1>1, <1>4, <2>1, <2>2
  <2> QED
    BY <1>2, <2>1, <2>3 DEF Alone
<1>14. CASE FinishWorker(e)
  <2>1. /\ pc[e] = "stmt" /\ e # 0 /\ UNCHANGED <<optVars, mainVars, todo>> /\ Goto(e, "done")
        /\ env' = [env EXCEPT ![e] = LeaveNode(e)]
    BY <1>14 DEF FinishWorker
  <2>2. LeaveNode(e).resource_catalog = env[e].resource_catalog
    BY <1>0, LeaveNodeHeard
  <2>3. env'[e] = LeaveNode(e) /\ \A f \in Envs \ {e} : env'[f] = env[f]
    BY <1>4, <2>1
  <2>4. pc'[e] = "done" /\ \A f \in Envs \ {e} : pc'[f] = pc[f]
    BY <1>2, <2>1
  <2> QED
    BY <2>1, <2>2, <2>3, <2>4
<1> QED
  BY <1>5, <1>6, <1>7, <1>8, <1>9, <1>10, <1>11, <1>12, <1>13, <1>14 DEF Step
-----------------------------------------------------------------------------
(* The threads and their results.                                          *)

LEMMA WorkersStep ==
    ASSUME IndInv, WorkersInv, NEW e \in Envs, Step(e)
    PROVE  WorkersInv'
<1>1. /\ pc[e] \notin {"off", "done"} /\ pc'[e] # "off"
      /\ \A f \in Envs \ {e} : pc'[f] = pc[f] /\ env'[f] = env[f]
      /\ UNCHANGED <<optVars, mainVars>>
  BY StepEffect
<1>2. /\ \A n \in Nodes : n \in Envs /\ n # 0
      /\ 0 \in Envs /\ joined \in 0 .. Len(started) /\ Len(started) \in Nat
      /\ \A i \in 1 .. joined : started[i] \in Envs
  <2>1. started \in Seq(Nodes) /\ joined \in 0 .. Len(started) /\ \A n \in Nodes : n \in Envs
    BY MainTypes
  <2> QED
    BY <2>1, MainTypes
<1>3. UNCHANGED <<site, parallel, summary, main, next, started, joined, report, exit_code, lost>>
  BY <1>1 DEF optVars, mainVars
<1>4. ASSUME NEW n \in Nodes
      PROVE  /\ pc'[n] = "off" => env'[n] = FreshEnv
             /\ pc'[n] # "off" => parallel /\ \E i \in DOMAIN started : started[i] = n
  BY <1>1, <1>2 DEF WorkersInv
<1>5. \A i \in 1 .. joined : pc'[started[i]] = "done"
  BY <1>1, <1>2 DEF WorkersInv
<1>6. main = "exited" => env'[0] = env[0]
  <2> SUFFICES ASSUME main = "exited" PROVE e # 0
    BY <1>1, <1>2
  <2>1. pc[0] = "off"
    BY MainTypes
  <2> QED
    BY <1>1, <2>1
<1> QED
  BY <1>3, <1>4, <1>5, <1>6 DEF WorkersInv, ExitCode

\* Appending keeps what is before.
LEMMA Appended ==
    ASSUME NEW S, NEW s \in Seq(S), NEW x \in S
    PROVE  /\ Len(Append(s, x)) = Len(s) + 1 /\ DOMAIN Append(s, x) = 1 .. (Len(s) + 1)
           /\ Append(s, x)[Len(s) + 1] = x
           /\ DOMAIN s = 1 .. Len(s) /\ Len(s) \in Nat
           /\ \A i \in DOMAIN s : i \in DOMAIN Append(s, x) /\ Append(s, x)[i] = s[i]
           /\ \A i \in DOMAIN Append(s, x) : i \in DOMAIN s \/ i = Len(s) + 1
  OBVIOUS

LEMMA WorkersMain ==
    ASSUME IndInv, WorkersInv, Main
    PROVE  WorkersInv'
<1>0. /\ \A n \in Nodes : n \in Envs /\ n # 0
      /\ 0 \in Envs /\ joined \in 0 .. Len(started) /\ Len(started) \in Nat /\ Len(report) \in Nat
      /\ pc \in [Envs -> Labels] /\ env \in [Envs -> EnvRecords]
      /\ started \in Seq(Nodes) /\ report \in Seq(Nodes)
      /\ DOMAIN started = 1 .. Len(started) /\ DOMAIN report = 1 .. Len(report)
      /\ \A i \in DOMAIN started : started[i] \in Nodes
      /\ \A i \in 1 .. joined : i \in DOMAIN started
      /\ next <= N => next \in Nodes /\ pc[next] = "off"
  <2>1. /\ started \in Seq(Nodes) /\ report \in Seq(Nodes) /\ joined \in 0 .. Len(started)
    BY MainTypes
  <2> QED
    BY <2>1, MainTypes
<1>1. ASSUME NEW l, pc' = [pc EXCEPT ![0] = l]
      PROVE  \A n \in Nodes : pc'[n] = pc[n]
  BY <1>0, <1>1
<1>2. ASSUME NEW v, env' = [env EXCEPT ![0] = v]
      PROVE  env'[0] = v /\ \A n \in Nodes : env'[n] = env[n]
  BY <1>0, <1>2
<1>3. CASE FinishTopLevel
  <2>1. /\ main' = "nodes" /\ Goto(0, "off")
        /\ UNCHANGED <<parallel, next, started, joined, report, env>> /\ next = 1
    BY <1>3 DEF FinishTopLevel, optVars, WorkersInv
  <2>2. \A n \in Nodes : pc'[n] = pc[n]
    BY <1>0, <2>1 DEF Goto
  <2>3. main = "top"
    BY <1>3 DEF FinishTopLevel
  <2> QED
    BY <1>0, <2>1, <2>2, <2>3 DEF WorkersInv
<1>4. CASE SkipNode
  <2>1. main = "nodes" /\ UNCHANGED <<parallel, main, started, joined, report, pc, env>>
    BY <1>4 DEF SkipNode, optVars
  <2> QED
    BY <2>1 DEF WorkersInv
<1>5. CASE StartNode
  <2>1. /\ ~parallel /\ main' = "node" /\ Goto(0, "stmt") /\ env' = [env EXCEPT ![0] = EnterNode(env[0])]
        /\ UNCHANGED <<parallel, next, started, joined>>
    BY <1>5 DEF StartNode, optVars
  <2>2. \A n \in Nodes : pc'[n] = pc[n] /\ env'[n] = env[n]
    BY <1>1, <1>2, <2>1 DEF Goto
  <2>3. ~parallel' /\ main' = "node" /\ started' = started /\ joined' = joined
    BY <2>1
  <2>4. \A n \in Nodes : pc'[n] = "off" /\ env'[n] = FreshEnv
    BY <2>1, <2>2 DEF WorkersInv
  <2>5. \A i \in 1 .. joined : pc'[started[i]] = "done"
    <3>1. \A i \in 1 .. joined : pc[started[i]] = "done"
      BY DEF WorkersInv
    <3>2. \A i \in 1 .. joined : started[i] \in Nodes
      BY <1>0
    <3> QED
      BY <2>2, <3>1, <3>2
  <2> QED
    BY <2>3, <2>4, <2>5 DEF WorkersInv
<1>6. CASE FinishNode
  <2>1. /\ main = "node" /\ main' = "nodes" /\ Goto(0, "off") /\ env' = [env EXCEPT ![0] = LeaveNode(0)]
        /\ UNCHANGED <<parallel, started, joined, report>>
    BY <1>6 DEF FinishNode, optVars
  <2>2. \A n \in Nodes : pc'[n] = pc[n] /\ env'[n] = env[n]
    BY <1>1, <1>2, <2>1 DEF Goto
  <2> QED
    BY <1>0, <2>1, <2>2 DEF WorkersInv
<1>7. CASE StartWorker
  <2>1. /\ main = "nodes" /\ parallel /\ next <= N /\ started' = Append(started, next)
        /\ Goto(next, "stmt") /\ env' = [env EXCEPT ![next] = EnterNode(FreshEnv)]
        /\ UNCHANGED <<parallel, main, joined, report>>
    BY <1>7 DEF StartWorker, optVars
  <2>2. next \in Nodes /\ next \in Envs
    BY <1>0, <2>1
  <2>3. /\ pc'[next] = "stmt" /\ \A n \in Nodes \ {next} : pc'[n] = pc[n] /\ env'[n] = env[n]
    BY <1>0, <2>1, <2>2 DEF Goto
  <2>4. /\ \A i \in DOMAIN started : i \in DOMAIN started' /\ started'[i] = started[i]
        /\ Len(started) + 1 \in DOMAIN started' /\ started'[Len(started) + 1] = next
    BY <1>0, <2>1, <2>2, Appended
  <2>5. \A n \in Nodes : pc'[n] # "off" => \E i \in DOMAIN started' : started'[i] = n
    BY <2>1, <2>3, <2>4 DEF WorkersInv
  <2>6. \A i \in 1 .. joined : pc'[started'[i]] = "done"
    <3>0. \A i \in 1 .. joined : pc[started[i]] = "done"
      BY DEF WorkersInv
    <3>1. \A i \in 1 .. joined : started'[i] = started[i] /\ started[i] \in Nodes /\ pc[started[i]] = "done"
      BY <1>0, <2>4, <3>0
    <3>2. pc[next] = "off"
      BY <1>0, <2>1
    <3> QED
      BY <2>3, <3>1, <3>2
  <2>7. Len(report) <= joined /\ \A i \in DOMAIN report : report[i] = started'[i]
    <3>1. Len(report) <= joined /\ \A i \in DOMAIN report : report[i] = started[i]
      BY <2>1 DEF WorkersInv
    <3>2. \A i \in DOMAIN report : i \in DOMAIN started
      BY <1>0, <3>1
    <3> QED
      BY <2>4, <3>1, <3>2
  <2>8. \A n \in Nodes : pc'[n] = "off" => env'[n] = FreshEnv
    BY <2>3 DEF WorkersInv
  <2> QED
    BY <2>1, <2>5, <2>6, <2>7, <2>8 DEF WorkersInv
<1>8. CASE LoseWorker
  <2>1. /\ main = "nodes" /\ parallel /\ env' = [env EXCEPT ![0] = [env[0] EXCEPT !.printed = @ + 1]]
        /\ UNCHANGED <<parallel, main, started, joined, report, pc>>
    BY <1>8 DEF LoseWorker, optVars
  <2>2. \A n \in Nodes : env'[n] = env[n]
    BY <1>2, <2>1
  <2> QED
    BY <1>0, <2>1, <2>2 DEF WorkersInv
<1>9. CASE JoinWorker
  <2>1. /\ main = "nodes" /\ parallel /\ joined < Len(started) /\ joined' = joined + 1
        /\ pc[started[joined + 1]] = "done"
        /\ UNCHANGED <<parallel, main, started, report, pc, env>>
    BY <1>9 DEF JoinWorker, optVars
  <2>2. \A i \in 1 .. joined' : i \in 1 .. joined \/ i = joined + 1
    BY <1>0, <2>1
  <2>3. \A i \in 1 .. joined' : pc'[started[i]] = "done"
    BY <2>1, <2>2 DEF WorkersInv
  <2>4. Len(report) <= joined' /\ \A i \in DOMAIN report : report[i] = started[i]
    BY <1>0, <2>1 DEF WorkersInv
  <2> QED
    BY <2>1, <2>3, <2>4 DEF WorkersInv
<1>10. CASE Aggregate
  <2>1. /\ main = "nodes" /\ parallel /\ joined = Len(started) /\ Len(report) < joined
        /\ report' = Append(report, started[Len(report) + 1])
        /\ UNCHANGED <<parallel, main, started, joined, pc>>
    BY <1>10 DEF Aggregate, optVars
  <2>2. \A n \in Nodes : env'[n] = env[n]
    BY <1>0, <1>10 DEF Aggregate
  <2>3. started[Len(report) + 1] \in Nodes
    BY <1>0, <2>1
  <2>4. /\ Len(report') = Len(report) + 1
        /\ \A i \in DOMAIN report' : report'[i] = started[i]
    <3>1. \A i \in DOMAIN report : report[i] = started[i]
      BY <2>1 DEF WorkersInv
    <3> QED
      BY <1>0, <2>1, <2>3, <3>1, Appended
  <2>5. Len(report') <= joined
    BY <1>0, <2>1, <2>4
  <2> QED
    BY <1>0, <2>1, <2>2, <2>4, <2>5 DEF WorkersInv
<1>11. CASE Exit
  <2>1. /\ main = "nodes" /\ main' = "exited" /\ exit_code' = ExitCode(env[0])
        /\ parallel => joined = Len(started) /\ Len(report) = joined
        /\ UNCHANGED <<parallel, summary, started, joined, report, pc, env>>
    BY <1>11 DEF Exit, optVars
  <2> QED
    BY <2>1 DEF WorkersInv, ExitCode
<1> QED
  BY <1>3, <1>4, <1>5, <1>6, <1>7, <1>8, <1>9, <1>10, <1>11 DEF Main

LEMMA WorkersNext ==
    ASSUME IndInv, WorkersInv, [Next]_vars
    PROVE  WorkersInv'
<1>1. CASE UNCHANGED vars
  BY <1>1 DEF vars, optVars, mainVars, WorkersInv, ExitCode
<1> QED
  BY <1>1, WorkersStep, WorkersMain DEF Next
-----------------------------------------------------------------------------
(* Errors and the exit status.                                             *)

\* Threads whose results are in the report have ended.
LEMMA ReportedDone ==
    ASSUME IndInv, WorkersInv, parallel, NEW i \in DOMAIN report
    PROVE  report[i] \in Nodes /\ pc[report[i]] = "done"
<1>1. /\ report \in Seq(Nodes) /\ joined \in 0 .. Len(started) /\ Len(started) \in Nat
      /\ Len(report) <= joined /\ report[i] = started[i]
  BY MainTypes DEF WorkersInv
<1>2. report[i] \in Nodes /\ i \in 1 .. joined
  BY <1>1
<1> QED
  BY <1>1, <1>2 DEF WorkersInv

\* What is known of an environment that has failed.
Consistent(v) == Failing(v) \/ v.compilation_failed => v.errors_count > 0

LEMMA HeardErrors ==
    ASSUME NEW v \in EnvRecords, NEW w \in EnvRecords, Heard(v, w)
    PROVE  /\ Consistent(v) => Consistent(w)
           /\ v.errors_count > 0 => w.errors_count > 0
           /\ v.printed > 0 => w.printed > 0
           /\ (v.errors_count > 0 => v.printed > 0) => (w.errors_count > 0 => w.printed > 0)
           /\ (v.printed > 0 => v.errors_count > 0) => (w.printed > 0 => w.errors_count > 0)
           /\ (v.errors_count > 0 => v.current_node_failed) =>
                 (w.errors_count > 0 => w.current_node_failed)
           /\ (v.errors_count > 0 => Failing(v)) => (w.errors_count > 0 => Failing(w))
<1>1. CASE Silent(v, w)
  BY <1>1 DEF Silent, Consistent, Failing
<1>2. CASE Loud(v, w)
  BY <1>2 DEF Loud, Consistent, Failing
<1> QED
  BY <1>1, <1>2 DEF Heard

\* Leaving a node adds the errors found, and the failure.
LEMMA LeaveNodeErrors ==
    ASSUME NEW e, NEW v \in EnvRecords, env[e] = v
    PROVE  /\ Consistent(v) => Consistent(LeaveNode(e))
           /\ v.errors_count > 0 => LeaveNode(e).errors_count > 0
           /\ v.printed > 0 => LeaveNode(e).printed > 0
           /\ (v.errors_count > 0 => v.printed > 0) =>
                 (LeaveNode(e).errors_count > 0 => LeaveNode(e).printed > 0)
           /\ (v.printed > 0 => v.errors_count > 0) =>
                 (LeaveNode(e).printed > 0 => LeaveNode(e).errors_count > 0)
           /\ (v.errors_count > 0 => Failing(v)) =>
                 (LeaveNode(e).errors_count > 0 => LeaveNode(e).nodes_failed > 0)
<1>1. PICK u \in EnvRecords :
        /\ Heard(v, u)
        /\ IF u.current_node_failed
           THEN /\ LeaveNode(e).nodes_failed > 0 /\ LeaveNode(e).errors_count = u.errors_count
                /\ LeaveNode(e).printed = u.printed
                /\ LeaveNode(e).compilation_failed = u.compilation_failed
           ELSE LeaveNode(e) = u
  BY LeaveNodeHeard
<1>2. /\ Consistent(v) => Consistent(u)
      /\ v.errors_count > 0 => u.errors_count > 0
      /\ v.printed > 0 => u.printed > 0
      /\ (v.errors_count > 0 => v.printed > 0) => (u.errors_count > 0 => u.printed > 0)
      /\ (v.printed > 0 => v.errors_count > 0) => (u.printed > 0 => u.errors_count > 0)
      /\ (v.errors_count > 0 => Failing(v)) => (u.errors_count > 0 => Failing(u))
  BY <1>1, HeardErrors
<1> QED
  BY <1>1, <1>2 DEF Consistent, Failing

\* A thread at work keeps errors, messages and failures in step.
LEMMA StepErrors ==
    ASSUME IndInv, IndInv', NEW e \in Envs, Step(e)
    PROVE  LET v == env[e]
               w == env'[e]
           IN  /\ v \in EnvRecords /\ w \in EnvRecords
               /\ Consistent(v) => Consistent(w)
               /\ v.errors_count > 0 => w.errors_count > 0
               /\ v.printed > 0 => w.printed > 0
               /\ (v.errors_count > 0 => v.printed > 0) => (w.errors_count > 0 => w.printed > 0)
               /\ (v.printed > 0 => v.errors_count > 0) => (w.printed > 0 => w.errors_count > 0)
               /\ (v.errors_count > 0 => v.current_node_failed) =>
                     (w.errors_count > 0 =>
                         IF pc'[e] = "done" THEN w.nodes_failed > 0 ELSE w.current_node_failed)
               /\ (v.errors_count > 0 => Failing(v)) => (w.errors_count > 0 => Failing(w))
<1>1. env[e] \in EnvRecords /\ env'[e] \in EnvRecords
  <2>1. env' \in [Envs -> EnvRecords]
    BY DEF IndInv, TypeOK, EnvRecords
  <2> QED
    BY <2>1, MainTypes
<1>2. CASE pc'[e] = "done"
  <2>1. env'[e] = LeaveNode(e)
    BY <1>2, StepEffect
  <2> QED
    BY <1>1, <1>2, <2>1, LeaveNodeErrors DEF Failing
<1>3. CASE pc'[e] # "done"
  <2>1. Heard(env[e], env'[e])
    BY <1>3, StepEffect
  <2> QED
    BY <1>1, <1>3, <2>1, HeardErrors
<1> QED
  BY <1>2, <1>3

LEMMA ErrorsStep ==
    ASSUME IndInv, IndInv', WorkersInv, ErrorsInv, NEW e \in Envs, Step(e)
    PROVE  ErrorsInv'
<1>1. /\ pc[e] # "done" /\ \A f \in Envs \ {e} : env'[f] = env[f]
      /\ UNCHANGED <<optVars, mainVars>>
  BY StepEffect
<1>2. UNCHANGED <<parallel, report, lost>>
  BY <1>1 DEF optVars, mainVars
<1>3. 0 \in Envs /\ \A n \in Nodes : n \in Envs /\ n # 0
  BY MainTypes
<1> DEFINE v == env[e]
           w == env'[e]
<1>4. /\ Consistent(v) => Consistent(w)
      /\ v.errors_count > 0 => w.errors_count > 0
      /\ v.printed > 0 => w.printed > 0
      /\ (v.errors_count > 0 => v.printed > 0) => (w.errors_count > 0 => w.printed > 0)
      /\ (v.printed > 0 => v.errors_count > 0) => (w.printed > 0 => w.errors_count > 0)
  BY StepErrors
<1>5. \A f \in Envs : Consistent(env'[f])
  BY <1>1, <1>4 DEF ErrorsInv, Consistent
<1>6. \A n \in Nodes : env'[n].errors_count > 0 <=> env'[n].printed > 0
  BY <1>1, <1>3, <1>4 DEF ErrorsInv
<1>7. lost = {} /\ env'[0].printed > 0 => env'[0].errors_count > 0
  BY <1>1, <1>3, <1>4 DEF ErrorsInv
<1>8. ASSUME env'[0].errors_count > 0 PROVE \E f \in Envs : env'[f].printed > 0
  <2>1. CASE env[0].errors_count > 0
    <3>1. PICK f \in Envs : env[f].printed > 0
      BY <2>1 DEF ErrorsInv
    <3> QED
      BY <1>1, <1>4, <3>1
  <2>2. CASE ~(env[0].errors_count > 0)
    <3>1. e = 0 /\ ~(v.errors_count > 0) /\ w.errors_count > 0
      BY <1>1, <1>3, <1>8, <2>2
    <3>2. w.printed > 0
      BY <1>4, <3>1
    <3> QED
      BY <3>2
  <2> QED
    BY <2>1, <2>2
<1>9. ASSUME parallel, NEW i \in DOMAIN report, env'[report[i]].errors_count > 0
      PROVE  env'[0].errors_count > 0
  <2>1. report[i] \in Envs \ {e}
    BY <1>1, <1>3, <1>9, ReportedDone
  <2>2. env[0].errors_count > 0
    BY <1>1, <1>9, <2>1 DEF ErrorsInv
  <2> QED
    BY <1>1, <1>3, <1>4, <2>2
<1> QED
  BY <1>2, <1>5, <1>6, <1>7, <1>8, <1>9 DEF ErrorsInv, Consistent

\* A step of main that leaves the counters of errors and the report alone.
LEMMA ErrorsKept ==
    ASSUME IndInv, ErrorsInv, UNCHANGED <<parallel, lost, report>>, NEW w, env' = [env EXCEPT ![0] = w],
           w.errors_count = env[0].errors_count, w.printed = env[0].printed,
           Consistent(env[0]) => Consistent(w)
    PROVE  ErrorsInv'
<1>1. 0 \in Envs /\ env'[0] = w /\ \A f \in Envs \ {0} : env'[f] = env[f]
  BY MainTypes
<1>2. \A n \in Nodes : n \in Envs \ {0}
  BY MainTypes
<1>3. \A f \in Envs : env'[f].errors_count = env[f].errors_count /\ env'[f].printed = env[f].printed
  BY <1>1
<1>4. \A f \in Envs : Consistent(env'[f])
  BY <1>1 DEF ErrorsInv, Consistent
<1>5. \A i \in DOMAIN report : report[i] \in Envs
  BY MainTypes
<1> QED
  BY <1>1, <1>2, <1>3, <1>4, <1>5 DEF ErrorsInv, Consistent

\* What main adds up of a thread's results.
LEMMA AggregateSums ==
    ASSUME IndInv, Aggregate
    PROVE  \E n \in Nodes :
             /\ n = started[Len(report) + 1] /\ report' = Append(report, n)
             /\ \A f \in Envs \ {0} : env'[f] = env[f]
             /\ env'[0].errors_count = env[0].errors_count + env[n].errors_count
             /\ env'[0].nodes_failed = env[0].nodes_failed + env[n].nodes_failed
             /\ env'[0].printed = env[0].printed
             /\ env'[0].current_node_failed = env[0].current_node_failed
             /\ env'[0].compilation_failed = env[0].compilation_failed
             /\ env'[0].resource_catalog = env[0].resource_catalog
<1> DEFINE m == started[Len(report) + 1]
<1>1. /\ joined = Len(started) /\ Len(report) < joined /\ report' = Append(report, m)
      /\ env' = [env EXCEPT ![0].nodes_processed = @ + env[m].nodes_processed,
                            ![0].nodes_failed = @ + env[m].nodes_failed,
                            ![0].errors_count = @ + env[m].errors_count,
                            ![0].warnings_count = @ + env[m].warnings_count]
  BY DEF Aggregate
<1>2. m \in Nodes
  BY <1>1, MainTypes
<1> HIDE DEF m
<1>3. PICK n \in Nodes : n = m
  BY <1>2
<1>4. PICK a \in Nat, b \in Nat, c \in Nat, d \in Nat :
        a = env[n].nodes_processed /\ b = env[n].nodes_failed
        /\ c = env[n].errors_count /\ d = env[n].warnings_count
  BY MainTypes DEF EnvRecords
<1>5. env' = [env EXCEPT ![0].nodes_processed = @ + a, ![0].nodes_failed = @ + b,
                         ![0].errors_count = @ + c, ![0].warnings_count = @ + d]
  BY <1>1, <1>3, <1>4
<1>6. env[0] \in EnvRecords /\ 0 \in Envs /\ env \in [Envs -> EnvRecords]
  BY MainTypes
<1>7. \A f \in Envs \ {0} : env'[f] = env[f]
  BY <1>5, <1>6
<1>8. /\ env'[0].errors_count = env[0].errors_count + c
      /\ env'[0].nodes_failed = env[0].nodes_failed + b
      /\ env'[0].printed = env[0].printed
      /\ env'[0].current_node_failed = env[0].current_node_failed
      /\ env'[0].compilation_failed = env[0].compilation_failed
      /\ env'[0].resource_catalog = env[0].resource_catalog
  BY <1>5, <1>6 DEF EnvRecords
<1>9. n = started[Len(report) + 1] /\ report' = Append(report, n)
  BY <1>1, <1>3 DEF m
<1>10. /\ env'[0].errors_count = env[0].errors_count + env[n].errors_count
       /\ env'[0].nodes_failed = env[0].nodes_failed + env[n].nodes_failed
  BY <1>4, <1>8
<1> QED
  BY <1>7, <1>8, <1>9, <1>10

LEMMA ErrorsMain ==
    ASSUME IndInv, WorkersInv, ErrorsInv, Main
    PROVE  ErrorsInv'
<1>0. /\ 0 \in Envs /\ env \in [Envs -> EnvRecords] /\ env[0] \in EnvRecords
      /\ \A n \in Nodes : n \in Envs \ {0}
      /\ report \in Seq(Nodes) /\ \A i \in DOMAIN report : report[i] \in Nodes
  BY MainTypes
<1>1. CASE FinishTopLevel \/ SkipNode \/ JoinWorker \/ Exit
  <2>1. UNCHANGED <<parallel, lost, report, env>>
    BY <1>1 DEF FinishTopLevel, SkipNode, JoinWorker, Exit, optVars
  <2> QED
    BY <2>1 DEF ErrorsInv, Failing
<1>2. CASE StartNode
  <2>1. /\ ~parallel /\ UNCHANGED <<parallel, lost>>
        /\ env' = [env EXCEPT ![0] = EnterNode(env[0])]
    BY <1>2 DEF StartNode, optVars
  <2>2. /\ EnterNode(env[0]).errors_count = env[0].errors_count
        /\ EnterNode(env[0]).printed = env[0].printed
        /\ EnterNode(env[0]).nodes_failed = env[0].nodes_failed
        /\ EnterNode(env[0]).compilation_failed = env[0].compilation_failed
        /\ ~EnterNode(env[0]).current_node_failed
    BY <1>0 DEF EnterNode, EnvRecords
  <2>3. Consistent(env[0]) => Consistent(EnterNode(env[0]))
    BY <2>2 DEF Consistent, Failing
  <2>4. env'[0] = EnterNode(env[0]) /\ \A f \in Envs \ {0} : env'[f] = env[f]
    BY <1>0, <2>1
  <2>5. \A f \in Envs : /\ env'[f].errors_count = env[f].errors_count
                        /\ env'[f].printed = env[f].printed /\ Consistent(env'[f])
    BY <2>2, <2>3, <2>4 DEF ErrorsInv, Consistent
  <2>6. ~parallel' /\ lost' = lost
    BY <2>1
  <2> QED
    BY <1>0, <2>5, <2>6 DEF ErrorsInv, Consistent
<1>3. CASE FinishNode
  <2>1. /\ UNCHANGED <<parallel, lost, report>> /\ ~parallel
        /\ env' = [env EXCEPT ![0] = LeaveNode(0)]
    BY <1>3 DEF FinishNode, optVars, WorkersInv
  <2>2. env'[0] = LeaveNode(0) /\ \A f \in Envs \ {0} : env'[f] = env[f]
    BY <1>0, <2>1
  <2>3. /\ Consistent(env[0]) => Consistent(env'[0])
        /\ (env[0].errors_count > 0 => env[0].printed > 0) =>
              (env'[0].errors_count > 0 => env'[0].printed > 0)
        /\ (env[0].printed > 0 => env[0].errors_count > 0) =>
              (env'[0].printed > 0 => env'[0].errors_count > 0)
        /\ env[0].printed > 0 => env'[0].printed > 0
    BY <1>0, <2>2, LeaveNodeErrors
  <2>4. \A f \in Envs : Consistent(env'[f])
    BY <2>2, <2>3 DEF ErrorsInv, Consistent
  <2>5. \A n \in Nodes : env'[n].errors_count > 0 <=> env'[n].printed > 0
    BY <1>0, <2>2 DEF ErrorsInv
  <2>6. lost' = {} /\ env'[0].printed > 0 => env'[0].errors_count > 0
    BY <2>1, <2>3 DEF ErrorsInv
  <2>7. ASSUME env'[0].errors_count > 0 PROVE \E f \in Envs : env'[f].printed > 0
    <3>1. CASE env[0].errors_count > 0
      <4>1. PICK f \in Envs : env[f].printed > 0
        BY <3>1 DEF ErrorsInv
      <4> QED
        BY <2>2, <2>3, <4>1
    <3>2. CASE ~(env[0].errors_count > 0)
      BY <1>0, <2>3, <2>7, <3>2
    <3> QED
      BY <3>1, <3>2
  <2>8. ~parallel'
    BY <2>1
  <2> QED
    BY <2>4, <2>5, <2>6, <2>7, <2>8 DEF ErrorsInv, Consistent
<1>4. CASE StartWorker
  <2>1. /\ next <= N /\ UNCHANGED <<parallel, lost, report>>
        /\ env' = [env EXCEPT ![next] = EnterNode(FreshEnv)]
    BY <1>4 DEF StartWorker, optVars
  <2>2. next \in Nodes /\ pc[next] = "off"
    BY <2>1, MainTypes
  <2>3. env'[next] = EnterNode(FreshEnv) /\ \A f \in Envs \ {next} : env'[f] = env[f]
    BY <1>0, <2>1, <2>2
  <2>4. /\ EnterNode(FreshEnv).errors_count = 0 /\ EnterNode(FreshEnv).printed = 0
        /\ EnterNode(FreshEnv).nodes_failed = 0 /\ ~EnterNode(FreshEnv).current_node_failed
        /\ ~EnterNode(FreshEnv).compilation_failed
    BY DEF EnterNode, FreshEnv
  <2>5. env[next] = FreshEnv /\ FreshEnv.errors_count = 0 /\ FreshEnv.printed = 0
    BY <2>2 DEF WorkersInv, FreshEnv
  <2>6. \A f \in Envs : env'[f].errors_count = env[f].errors_count /\ env'[f].printed = env[f].printed
    BY <2>3, <2>4, <2>5
  <2>7. \A f \in Envs : Consistent(env'[f])
    BY <2>3, <2>4 DEF ErrorsInv, Consistent, Failing
  <2>8. UNCHANGED <<parallel, lost, report>>
    BY <2>1
  <2> QED
    BY <1>0, <2>6, <2>7, <2>8 DEF ErrorsInv, Consistent
<1>5. CASE LoseWorker
  <2>1. /\ UNCHANGED <<parallel, report>> /\ lost' # {}
        /\ env' = [env EXCEPT ![0] = [env[0] EXCEPT !.printed = @ + 1]]
    BY <1>5 DEF LoseWorker, optVars
  <2>2. /\ env'[0] = [env[0] EXCEPT !.printed = @ + 1]
        /\ \A f \in Envs \ {0} : env'[f] = env[f]
    BY <1>0, <2>1
  <2>3. /\ env'[0].errors_count = env[0].errors_count /\ env'[0].printed > 0
        /\ Consistent(env[0]) => Consistent(env'[0])
    BY <1>0, <2>2 DEF Consistent, Failing, EnvRecords
  <2>4. UNCHANGED <<parallel, report>> /\ lost' # {}
    BY <2>1
  <2>5. \A f \in Envs : Consistent(env'[f])
    BY <2>2, <2>3 DEF ErrorsInv, Consistent
  <2> QED
    BY <1>0, <2>2, <2>3, <2>4, <2>5 DEF ErrorsInv, Consistent
<1>6. CASE Aggregate
  <2>1. PICK n \in Nodes :
          /\ n = started[Len(report) + 1] /\ report' = Append(report, n)
          /\ \A f \in Envs \ {0} : env'[f] = env[f]
          /\ env'[0].errors_count = env[0].errors_count + env[n].errors_count
          /\ env'[0].nodes_failed = env[0].nodes_failed + env[n].nodes_failed
          /\ env'[0].printed = env[0].printed
          /\ env'[0].current_node_failed = env[0].current_node_failed
          /\ env'[0].compilation_failed = env[0].compilation_failed
    BY <1>6, AggregateSums
  <2>2. /\ env[0].errors_count \in Nat /\ env[n].errors_count \in Nat
        /\ env[0].nodes_failed \in Nat /\ env[n].nodes_failed \in Nat
    BY <1>0 DEF EnvRecords
  <2>3. /\ env'[0].errors_count > 0 <=> env[0].errors_count > 0 \/ env[n].errors_count > 0
        /\ env'[0].nodes_failed > 0 <=> env[0].nodes_failed > 0 \/ env[n].nodes_failed > 0
    BY <2>1, <2>2
  <2>4. Consistent(env[0]) /\ Consistent(env[n])
    BY <1>0 DEF ErrorsInv, Consistent
  <2>5. Consistent(env'[0])
    BY <2>1, <2>3, <2>4 DEF Consistent, Failing
  <2>6. \A f \in Envs : Consistent(env'[f])
    BY <2>1, <2>5 DEF ErrorsInv, Consistent
  <2>7. \A i \in DOMAIN report' : env'[report'[i]].errors_count > 0 => env'[0].errors_count > 0
    <3>1. ASSUME NEW i \in DOMAIN report' PROVE report'[i] = n \/ \E j \in DOMAIN report : report'[i] = report[j]
      BY <1>0, <2>1, Appended
    <3>2. \A j \in DOMAIN report : env[report[j]].errors_count > 0 => env[0].errors_count > 0
      BY <1>6 DEF ErrorsInv, Aggregate
    <3> QED
      BY <1>0, <2>1, <2>3, <3>1, <3>2
  <2>8. UNCHANGED <<parallel, lost>>
    BY <1>6 DEF Aggregate, optVars
  <2>9. ASSUME env'[0].errors_count > 0 PROVE \E f \in Envs : env'[f].printed > 0
    <3>1. CASE env[0].errors_count > 0
      <4>1. PICK f \in Envs : env[f].printed > 0
        BY <3>1 DEF ErrorsInv
      <4> QED
        BY <2>1, <4>1
    <3>2. CASE env[n].errors_count > 0
      BY <1>0, <2>1, <3>2 DEF ErrorsInv
    <3> QED
      BY <2>3, <2>9, <3>1, <3>2
  <2>10. /\ \A k \in Nodes : env'[k].errors_count > 0 <=> env'[k].printed > 0
         /\ lost' = {} /\ env'[0].printed > 0 => env'[0].errors_count > 0
    BY <1>0, <2>1, <2>3, <2>8 DEF ErrorsInv
  <2> QED
    BY <2>6, <2>7, <2>8, <2>9, <2>10 DEF ErrorsInv, Consistent
<1> QED
  BY <1>1, <1>2, <1>3, <1>4, <1>5, <1>6 DEF Main

LEMMA ErrorsNext ==
    ASSUME IndInv, WorkersInv, ErrorsInv, [Next]_vars
    PROVE  ErrorsInv'
<1>1. CASE UNCHANGED vars
  BY <1>1 DEF vars, optVars, mainVars, ErrorsInv, Failing
<1>2. IndInv'
  BY NextInv
<1> QED
  BY <1>1, <1>2, ErrorsStep, ErrorsMain DEF Next
-----------------------------------------------------------------------------
(* The top level of the manifest.                                          *)

\* No thread works before the top level has been executed.
LEMMA TopAlone ==
    ASSUME IndInv, WorkersInv, main = "top"
    PROVE  next = 1 /\ \A n \in Nodes : pc[n] = "off"
<1>1. next = 1
  BY DEF WorkersInv
<1> QED
  BY <1>1 DEF IndInv, MainInv, Nodes

\* Where a step of main leaves the position of an environment: main's own goes off or to
\* its first statement, and so does that of a thread that starts.
LEMMA MainMoves ==
    ASSUME IndInv, Main
    PROVE  /\ \A e \in Envs : \/ pc'[e] = pc[e] /\ todo'[e] = todo[e]
                              \/ pc'[e] \in {"off", "stmt"}
           /\ main' # "top"
           /\ UNCHANGED <<optVars, registryVars>>
<1>0. 0 \in Envs /\ pc \in [Envs -> Labels] /\ todo \in [Envs -> Seq(Frames)] /\ (next <= N => next \in Envs)
  BY MainTypes
<1>1. CASE FinishTopLevel \/ FinishNode
  <2>1. /\ UNCHANGED <<optVars, registryVars, todo>> /\ Goto(0, "off") /\ main' = "nodes"
    BY <1>1 DEF FinishTopLevel, FinishNode
  <2> QED
    BY <1>0, <2>1 DEF Goto
<1>2. CASE SkipNode \/ LoseWorker \/ JoinWorker \/ Aggregate \/ Exit
  <2>1. UNCHANGED <<optVars, registryVars, todo, pc>> /\ main' \in {"nodes", "exited"}
    BY <1>2 DEF SkipNode, LoseWorker, JoinWorker, Aggregate, Exit
  <2> QED
    BY <2>1
<1>3. CASE StartNode
  <2>1. /\ UNCHANGED <<optVars, registryVars>> /\ Goto(0, "stmt") /\ main' = "node"
        /\ \E s : todo' = [todo EXCEPT ![0] = s]
    BY <1>3 DEF StartNode
  <2> QED
    BY <1>0, <2>1 DEF Goto
<1>4. CASE StartWorker
  <2>1. /\ UNCHANGED <<optVars, registryVars>> /\ Goto(next, "stmt") /\ main' = "nodes"
        /\ next <= N /\ \E s : todo' = [todo EXCEPT ![next] = s]
    BY <1>4 DEF StartWorker
  <2> QED
    BY <1>0, <2>1 DEF Goto
<1> QED
  BY <1>1, <1>2, <1>3, <1>4 DEF Main

\* On the way to a lookup in the registry of types.
LookingUp == {"types_lock", "types_scan", "lookup_type"}

LEMMA LookupStep ==
    ASSUME IndInv, LookupInv, NEW e \in Envs, Step(e)
    PROVE  LookupInv'
<1>0. pc \in [Envs -> Labels]
  BY MainTypes
<1>1. \A f \in Envs \ {e} : pc'[f] = pc[f] /\ todo'[f] = todo[f]
  BY StepEffect
<1>2. SUFFICES ASSUME pc'[e] \in LookingUp
               PROVE  /\ todo'[e] = todo[e] /\ todo[e] # <<>> /\ Head(todo[e]).op = "resource"
                      /\ TypeOf[Name(e)] \notin Builtin
  BY <1>1 DEF LookupInv, Name, LookingUp
<1>3. ASSUME NEW l, Goto(e, l) PROVE pc'[e] = l
  BY <1>0, <1>3 DEF Goto
<1>4. CASE ExecResource(e)
  BY <1>2, <1>3, <1>4 DEF ExecResource, At, LookingUp
<1>5. CASE LockTypes(e) \/ ScanType(e) \/ FinishScan(e)
  <2>1. pc[e] \in LookingUp /\ UNCHANGED todo
    BY <1>5 DEF LockTypes, ScanType, FinishScan, LookingUp
  <2> QED
    BY <2>1 DEF LookupInv, LookingUp
<1>6. CASE \/ puppet_exec_include(e) \/ LoadClass(e) \/ LoadManifest(e) \/ ParseManifest(e)
           \/ InsertManifest(e) \/ LintManifest(e) \/ RegisterClass(e) \/ EnterClass(e)
  BY <1>2, <1>3, <1>6 DEF puppet_exec_include, LoadClass, LoadManifest, ParseManifest, InsertManifest,
     LintManifest, RegisterClass, EnterClass, NextStmt, LookingUp
<1>7. CASE LeaveClass(e) \/ puppet_func_fail(e) \/ LookupType(e) \/ Declare(e)
  BY <1>2, <1>3, <1>7 DEF LeaveClass, puppet_func_fail, LookupType, Declare, NextStmt, LookingUp
<1>8. CASE \/ LockPolicy(e) \/ CountEntry(e) \/ FillEntry(e) \/ FinishPolicy(e)
           \/ MatchPolicy(e) \/ ReportPolicy(e) \/ AddResource(e) \/ FinishWorker(e)
  BY <1>2, <1>3, <1>8 DEF LockPolicy, CountEntry, FillEntry, FinishPolicy, MatchPolicy, ReportPolicy,
     AddResource, FinishWorker, At, NextStmt, LookingUp
<1> QED
  BY <1>4, <1>5, <1>6, <1>7, <1>8 DEF Step

LEMMA LookupNext ==
    ASSUME IndInv, LookupInv, [Next]_vars
    PROVE  LookupInv'
<1>1. CASE UNCHANGED vars
  BY <1>1 DEF vars, LookupInv, Name
<1>2. CASE Main
  BY <1>2, MainMoves DEF LookupInv, Name
<1> QED
  BY <1>1, <1>2, LookupStep DEF Next

\* A step of main's environment at the top level declares resources, and reports no error.
LEMMA QuietStep ==
    ASSUME IndInv, LookupInv, QuietInv, Step(0), main = "top", QuietTop
    PROVE  QuietInv' /\ env'[0].errors_count = env[0].errors_count
<1>0. /\ 0 \in Envs /\ pc \in [Envs -> Labels] /\ env \in [Envs -> EnvRecords]
      /\ todo \in [Envs -> Seq(Frames)] /\ env[0] \in EnvRecords
  BY MainTypes
<1>1. UNCHANGED <<site, main>>
  <2>1. UNCHANGED <<optVars, mainVars>>
    BY <1>0, StepEffect
  <2> QED
    BY <2>1 DEF optVars, mainVars
<1> DEFINE list == todo[0]
           table == env[0].resource_catalog
<1>2. /\ \A i \in DOMAIN list : /\ list[i].op = "resource" /\ Known(list[i].name)
                                /\ list[i].name \notin PolicyErrors
                                /\ list[i].name \in table => i = 1 /\ pc[0] \in Declaring
      /\ \A i, j \in DOMAIN list : list[i].name = list[j].name => i = j
  BY DEF QuietInv
<1>3. list # <<>> =>
        /\ 1 \in DOMAIN list /\ Head(list) = list[1] /\ DOMAIN list = 1 .. Len(list)
        /\ \A i \in DOMAIN Tail(list) : i + 1 \in DOMAIN list /\ Tail(list)[i] = list[i + 1]
        /\ DOMAIN Tail(list) \subseteq Nat \ {0}
  <2>1. list # <<>> => Tail(list) \in Seq(Frames)
    BY <1>0
  <2> QED
    BY <1>0, <2>1, Lists DEF IndInv
<1>4. list # <<>> => /\ Head(list).op = "resource" /\ Known(Name(0)) /\ Name(0) \notin PolicyErrors
                     /\ Name(0) = list[1].name
  BY <1>2, <1>3 DEF Name
<1>5. ASSUME todo'[0] = list, env'[0].resource_catalog = table,
             pc[0] \in Declaring => pc'[0] \in Declaring
      PROVE  QuietInv'
  BY <1>1, <1>2, <1>5 DEF QuietInv
<1>6. ASSUME NEW l, Goto(0, l) PROVE pc'[0] = l
  BY <1>0, <1>6 DEF Goto
<1>7. CASE puppet_exec_include(0) \/ LeaveClass(0) \/ puppet_func_fail(0)
  BY <1>4, <1>7 DEF puppet_exec_include, LeaveClass, puppet_func_fail, At
<1>8. CASE \/ LoadClass(0) \/ LoadManifest(0) \/ ParseManifest(0) \/ InsertManifest(0)
           \/ LintManifest(0) \/ RegisterClass(0) \/ EnterClass(0)
  BY <1>4, <1>8 DEF LoadClass, LoadManifest, ParseManifest, InsertManifest, LintManifest,
     RegisterClass, EnterClass, At
<1>9. CASE ExecResource(0) \/ LockTypes(0) \/ ScanType(0) \/ FinishScan(0)
  <2>1. UNCHANGED <<todo, env>> /\ pc[0] \notin Declaring
    BY <1>9 DEF ExecResource, LockTypes, ScanType, FinishScan, At, Declaring
  <2> QED
    BY <1>5, <2>1
<1>10. CASE LookupType(0)
  <2>1. pc[0] = "lookup_type" /\ list # <<>>
    BY <1>10 DEF LookupType, At
  <2>2. TypeOf[Name(0)] \in ruby_types
    BY <1>0, <1>4, <2>1 DEF IndInv, RegistryInv, RegistryComplete, LookupInv, Known
  <2>3. UNCHANGED <<todo, env>>
    BY <1>10, <2>2 DEF LookupType
  <2> QED
    BY <1>5, <2>1, <2>3 DEF Declaring
<1>11. CASE Declare(0)
  <2>1. pc[0] = "declare" /\ list # <<>>
    BY <1>11 DEF Declare, At
  <2>2. Name(0) \notin table
    BY <1>2, <1>3, <1>4, <2>1 DEF Declaring
  <2>3. /\ env' = [env EXCEPT ![0].resource_catalog = @ \cup {Name(0)}] /\ UNCHANGED todo
        /\ \E l \in {"match", "policy_lock"} : Goto(0, l)
    BY <1>11, <2>2 DEF Declare
  <2>4. /\ env'[0].resource_catalog = table \cup {Name(0)}
        /\ env'[0].errors_count = env[0].errors_count
    BY <1>0, <2>3 DEF EnvRecords
  <2>5. pc'[0] \in Declaring
    BY <1>6, <2>3 DEF Declaring
  <2>6. \A i \in DOMAIN list : list[i].name \in table \cup {Name(0)} => i = 1
    BY <1>2, <1>3, <1>4, <2>1
  <2> QED
    BY <1>1, <1>2, <2>3, <2>4, <2>5, <2>6 DEF QuietInv
<1>12. CASE LockPolicy(0) \/ CountEntry(0) \/ FillEntry(0) \/ FinishPolicy(0) \/ MatchPolicy(0)
  <2>1. UNCHANGED <<todo, env>>
    BY <1>12 DEF LockPolicy, CountEntry, FillEntry, FinishPolicy, MatchPolicy
  <2>2. \/ UNCHANGED pc
        \/ \E l \in Declaring : Goto(0, l)
    BY <1>12 DEF LockPolicy, CountEntry, FillEntry, FinishPolicy, MatchPolicy, Declaring
  <2>3. pc[0] \in Declaring => pc'[0] \in Declaring
    BY <1>6, <2>2
  <2> QED
    BY <1>5, <2>1, <2>3
<1>13. CASE ReportPolicy(0)
  <2>1. /\ list # <<>> /\ UNCHANGED todo /\ Goto(0, "add")
        /\ \/ env' = env
           \/ env' = [env EXCEPT ![0] = puppet_warning_at(env[0])]
    BY <1>4, <1>13 DEF ReportPolicy, At
  <2>2. /\ puppet_warning_at(env[0]).resource_catalog = table
        /\ puppet_warning_at(env[0]).errors_count = env[0].errors_count
    BY <1>0 DEF puppet_warning_at, EnvRecords
  <2>3. env'[0].resource_catalog = table /\ env'[0].errors_count = env[0].errors_count
    BY <1>0, <2>1, <2>2
  <2>4. pc'[0] = "add"
    BY <1>6, <2>1
  <2> QED
    BY <1>5, <2>1, <2>3, <2>4 DEF Declaring
<1>14. CASE AddResource(0)
  <2>1. list # <<>> /\ UNCHANGED env /\ todo' = [todo EXCEPT ![0] = Tail(@)]
    BY <1>14 DEF AddResource, At, NextStmt
  <2>2. todo'[0] = Tail(list)
    BY <1>0, <2>1
  <2>3. /\ \A i \in DOMAIN Tail(list) :
              /\ Tail(list)[i].op = "resource" /\ Known(Tail(list)[i].name)
              /\ Tail(list)[i].name \notin PolicyErrors
              /\ Tail(list)[i].name \notin table
        /\ \A i, j \in DOMAIN Tail(list) : Tail(list)[i].name = Tail(list)[j].name => i = j
    BY <1>2, <1>3, <2>1
  <2>4. /\ \A i \in DOMAIN todo'[0] :
              /\ todo'[0][i].op = "resource" /\ Known(todo'[0][i].name)
              /\ todo'[0][i].name \notin PolicyErrors
              /\ todo'[0][i].name \notin table
        /\ \A i, j \in DOMAIN todo'[0] : todo'[0][i].name = todo'[0][j].name => i = j
    BY <2>2, <2>3
  <2>5. env'[0].resource_catalog = table /\ env'[0].errors_count = env[0].errors_count
    BY <2>1
  <2> QED
    BY <2>4, <2>5 DEF QuietInv
<1> QED
  BY <1>7, <1>8, <1>9, <1>10, <1>11, <1>12, <1>13, <1>14 DEF Step, FinishWorker

LEMMA QuietNext ==
    ASSUME IndInv, WorkersInv, LookupInv, QuietInv, [Next]_vars
    PROVE  QuietInv'
<1>1. CASE UNCHANGED vars
  BY <1>1 DEF vars, optVars, mainVars, QuietInv, QuietTop
<1>2. CASE Main
  BY <1>2, MainMoves DEF QuietInv
<1>3. ASSUME NEW e \in Envs, Step(e) PROVE QuietInv'
  <2>1. UNCHANGED <<site, main>> /\ pc[e] # "off"
    BY <1>3, StepEffect DEF optVars, mainVars
  <2>2. QuietTop' <=> QuietTop
    BY <2>1 DEF QuietTop
  <2>3. CASE main = "top" /\ QuietTop
    <3>1. e = 0
      BY <2>1, <2>3, TopAlone DEF Envs, Nodes
    <3> QED
      BY <1>3, <2>3, <3>1, QuietStep
  <2> QED
    BY <2>1, <2>2, <2>3 DEF QuietInv
<1> QED
  BY <1>1, <1>2, <1>3 DEF Next

LEMMA FailuresStep ==
    ASSUME IndInv, IndInv', WorkersInv, LookupInv, QuietInv, FailuresInv, NEW e \in Envs, Step(e)
    PROVE  FailuresInv'
<1>0. 0 \in Envs /\ \A n \in Nodes : n \in Envs /\ n # 0
  BY MainTypes
<1>1. /\ pc[e] \notin {"off", "done"}
      /\ \A f \in Envs \ {e} : pc'[f] = pc[f] /\ env'[f] = env[f]
      /\ UNCHANGED <<optVars, mainVars>>
  BY StepEffect
<1>2. UNCHANGED <<site, summary, main>>
  BY <1>1 DEF optVars, mainVars
<1>3. /\ (env[e].errors_count > 0 => env[e].current_node_failed) =>
            (env'[e].errors_count > 0 =>
                IF pc'[e] = "done" THEN env'[e].nodes_failed > 0 ELSE env'[e].current_node_failed)
      /\ (env[e].errors_count > 0 => Failing(env[e])) => (env'[e].errors_count > 0 => Failing(env'[e]))
  BY StepErrors
<1>4. ASSUME NEW n \in Nodes, env'[n].errors_count > 0
      PROVE  IF pc'[n] = "done" THEN env'[n].nodes_failed > 0 ELSE env'[n].current_node_failed
  <2>1. CASE n = e
    BY <1>1, <1>3, <1>4, <2>1 DEF FailuresInv
  <2>2. CASE n # e
    <3>1. n \in Envs /\ pc'[n] = pc[n] /\ env'[n] = env[n]
      BY <1>0, <1>1, <2>2
    <3> QED
      BY <1>4, <3>1 DEF FailuresInv
  <2> QED
    BY <2>1, <2>2
<1>5. ASSUME ~summary, QuietTop, env'[0].errors_count > 0
      PROVE  CASE main = "top"  -> FALSE
               [] main = "node" -> Failing(env'[0])
               [] OTHER         -> env'[0].nodes_failed > 0
  <2>1. CASE e # 0
    <3>1. env'[0] = env[0]
      BY <1>0, <1>1, <2>1
    <3> QED
      BY <1>5, <3>1 DEF FailuresInv
  <2>2. CASE e = 0
    <3>1. pc[0] # "off"
      BY <1>1, <2>2
    <3>2. main \in {"top", "node"}
      BY <3>1, MainTypes
    <3>3. CASE main = "top"
      <4>1. env'[0].errors_count = env[0].errors_count
        BY <1>5, <2>2, <3>3, QuietStep
      <4> QED
        BY <1>5, <3>3, <4>1 DEF FailuresInv
    <3>4. CASE main = "node"
      <4>1. env[0].errors_count > 0 => Failing(env[0])
        BY <1>5, <3>4 DEF FailuresInv
      <4> QED
        BY <1>3, <1>5, <2>2, <3>4, <4>1
    <3> QED
      BY <3>2, <3>3, <3>4
  <2> QED
    BY <2>1, <2>2
<1>6. QuietTop' <=> QuietTop
  BY <1>2 DEF QuietTop
<1> QED
  BY <1>2, <1>4, <1>5, <1>6 DEF FailuresInv

LEMMA FailuresMain ==
    ASSUME IndInv, WorkersInv, FailuresInv, Main
    PROVE  FailuresInv'
<1>0. /\ 0 \in Envs /\ env \in [Envs -> EnvRecords] /\ env[0] \in EnvRecords /\ pc \in [Envs -> Labels]
      /\ \A n \in Nodes : n \in Envs \ {0}
  BY MainTypes
<1>1. QuietTop' <=> QuietTop
  <2>1. UNCHANGED <<optVars, registryVars>>
    BY MainMoves
  <2> QED
    BY <2>1 DEF QuietTop, optVars
<1>2. UNCHANGED summary
  <2>1. UNCHANGED <<optVars, registryVars>>
    BY MainMoves
  <2> QED
    BY <2>1 DEF optVars
<1>3. ASSUME \A n \in Nodes : pc'[n] = pc[n] /\ env'[n] = env[n],
             ~summary /\ QuietTop /\ env'[0].errors_count > 0 =>
                CASE main' = "top"  -> FALSE
                  [] main' = "node" -> Failing(env'[0])
                  [] OTHER          -> env'[0].nodes_failed > 0
      PROVE  FailuresInv'
  BY <1>1, <1>2, <1>3 DEF FailuresInv
<1>4. CASE FinishTopLevel
  <2>1. main = "top" /\ main' = "nodes" /\ UNCHANGED env /\ Goto(0, "off")
    BY <1>4 DEF FinishTopLevel
  <2>2. \A n \in Nodes : pc'[n] = pc[n]
    BY <1>0, <2>1 DEF Goto
  <2> QED
    BY <1>3, <2>1, <2>2 DEF FailuresInv
<1>5. CASE SkipNode \/ JoinWorker \/ Exit
  <2>1. main = "nodes" /\ main' \in {"nodes", "exited"} /\ UNCHANGED <<env, pc>>
    BY <1>5 DEF SkipNode, JoinWorker, Exit
  <2> QED
    BY <1>3, <2>1 DEF FailuresInv
<1>6. CASE StartNode
  <2>1. main = "nodes" /\ main' = "node" /\ env' = [env EXCEPT ![0] = EnterNode(env[0])] /\ Goto(0, "stmt")
    BY <1>6 DEF StartNode
  <2>2. /\ env'[0] = EnterNode(env[0])
        /\ \A n \in Nodes : pc'[n] = pc[n] /\ env'[n] = env[n]
    BY <1>0, <2>1 DEF Goto
  <2>3. /\ env'[0].errors_count = env[0].errors_count
        /\ env'[0].nodes_failed = env[0].nodes_failed
    BY <1>0, <2>2 DEF EnterNode, EnvRecords
  <2>4. main = "nodes" /\ main' = "node"
    BY <2>1
  <2> QED
    BY <1>3, <2>2, <2>3, <2>4 DEF FailuresInv, Failing
<1>7. CASE FinishNode
  <2>1. main = "node" /\ main' = "nodes" /\ env' = [env EXCEPT ![0] = LeaveNode(0)] /\ Goto(0, "off")
    BY <1>7 DEF FinishNode
  <2>2. /\ env'[0] = LeaveNode(0)
        /\ \A n \in Nodes : pc'[n] = pc[n] /\ env'[n] = env[n]
    BY <1>0, <2>1 DEF Goto
  <2>3. (env[0].errors_count > 0 => Failing(env[0])) =>
           (env'[0].errors_count > 0 => env'[0].nodes_failed > 0)
    BY <1>0, <2>2, LeaveNodeErrors
  <2>4. main = "node" /\ main' = "nodes"
    BY <2>1
  <2>5. \A n \in Nodes : pc'[n] = pc[n] /\ env'[n] = env[n]
    BY <2>2
  <2> QED
    BY <1>3, <2>3, <2>4, <2>5 DEF FailuresInv
<1>8. CASE StartWorker
  <2>1. /\ main = "nodes" /\ UNCHANGED main /\ next <= N /\ Goto(next, "stmt")
        /\ env' = [env EXCEPT ![next] = EnterNode(FreshEnv)]
    BY <1>8 DEF StartWorker
  <2>2. next \in Nodes
    BY <2>1, MainTypes
  <2>3. /\ env'[next] = EnterNode(FreshEnv) /\ env'[0] = env[0]
        /\ \A n \in Nodes \ {next} : pc'[n] = pc[n] /\ env'[n] = env[n]
    BY <1>0, <2>1, <2>2 DEF Goto
  <2>4. env'[next].errors_count = 0
    BY <2>3 DEF EnterNode, FreshEnv
  <2>5. main = "nodes" /\ UNCHANGED main
    BY <2>1
  <2> QED
    BY <1>1, <1>2, <2>3, <2>4, <2>5 DEF FailuresInv
<1>9. CASE LoseWorker
  <2>1. /\ main = "nodes" /\ UNCHANGED <<main, pc>>
        /\ env' = [env EXCEPT ![0] = [env[0] EXCEPT !.printed = @ + 1]]
    BY <1>9 DEF LoseWorker
  <2>2. /\ env'[0] = [env[0] EXCEPT !.printed = @ + 1]
        /\ \A n \in Nodes : pc'[n] = pc[n] /\ env'[n] = env[n]
    BY <1>0, <2>1
  <2>3. /\ env'[0].errors_count = env[0].errors_count
        /\ env'[0].nodes_failed = env[0].nodes_failed
    BY <1>0, <2>2 DEF EnvRecords
  <2>4. main = "nodes" /\ UNCHANGED main
    BY <2>1
  <2> QED
    BY <1>3, <2>2, <2>3, <2>4 DEF FailuresInv
<1>10. CASE Aggregate
  <2>1. PICK n \in Nodes :
          /\ n = started[Len(report) + 1]
          /\ \A f \in Envs \ {0} : env'[f] = env[f]
          /\ env'[0].errors_count = env[0].errors_count + env[n].errors_count
          /\ env'[0].nodes_failed = env[0].nodes_failed + env[n].nodes_failed
    BY <1>10, AggregateSums
  <2>2. main = "nodes" /\ UNCHANGED <<main, pc>> /\ Len(report) < joined
    BY <1>10 DEF Aggregate
  <2>3. pc[n] = "done"
    <3>1. Len(report) + 1 \in 1 .. joined
      BY <2>2, MainTypes
    <3> QED
      BY <2>1, <3>1 DEF WorkersInv
  <2>4. /\ env[0].errors_count \in Nat /\ env[n].errors_count \in Nat
        /\ env[0].nodes_failed \in Nat /\ env[n].nodes_failed \in Nat
    BY <1>0 DEF EnvRecords
  <2>5. env[n].errors_count > 0 => env[n].nodes_failed > 0
    BY <2>3 DEF FailuresInv
  <2>6. ~summary /\ QuietTop /\ env[0].errors_count > 0 => env[0].nodes_failed > 0
    BY <2>2 DEF FailuresInv
  <2>7. ~summary /\ QuietTop /\ env'[0].errors_count > 0 => env'[0].nodes_failed > 0
    BY <2>1, <2>4, <2>5, <2>6
  <2> QED
    BY <1>0, <1>3, <2>1, <2>2, <2>7
<1> QED
  BY <1>4, <1>5, <1>6, <1>7, <1>8, <1>9, <1>10 DEF Main

LEMMA FailuresNext ==
    ASSUME IndInv, WorkersInv, LookupInv, QuietInv, FailuresInv, [Next]_vars
    PROVE  FailuresInv'
<1>1. CASE UNCHANGED vars
  BY <1>1 DEF vars, optVars, mainVars, FailuresInv, Failing, QuietTop
<1>2. IndInv'
  BY NextInv
<1> QED
  BY <1>1, <1>2, FailuresStep, FailuresMain DEF Next
-----------------------------------------------------------------------------
(* The policy.                                                             *)

\* The declaration that is pending stays so when another statement is done, and when a
\* class body comes before.
LEMMA PendingKept ==
    ASSUME TypeOK, NEW e \in Envs, todo[e] # <<>>, Pending(todo[e])
    PROVE  /\ ~(Head(todo[e]).op = "resource" /\ Known(Name(e))) => Pending(Tail(todo[e]))
           /\ \A s \in Seq(Frames) : Pending(Tail(todo[e])) => Pending(s \o Tail(todo[e]))
<1> DEFINE list == todo[e]
<1>1. /\ list \in Seq(Frames) /\ DOMAIN list = 1 .. Len(list) /\ Len(list) \in Nat
      /\ Head(list) = list[1] /\ Tail(list) \in Seq(Frames)
      /\ Len(Tail(list)) = Len(list) - 1 /\ DOMAIN Tail(list) = 1 .. (Len(list) - 1)
      /\ \A i \in 1 .. (Len(list) - 1) : Tail(list)[i] = list[i + 1]
  BY Lists DEF TypeOK
<1>2. ASSUME ~(Head(list).op = "resource" /\ Known(Name(e)))
      PROVE  Pending(Tail(list))
  <2>1. PICK i \in DOMAIN list : list[i].op = "resource" /\ Known(list[i].name)
    BY DEF Pending
  <2>2. i # 1
    BY <1>1, <1>2, <2>1 DEF Name
  <2>3. i - 1 \in 1 .. (Len(list) - 1) /\ (i - 1) + 1 = i
    BY <1>1, <2>1, <2>2
  <2>4. Tail(list)[i - 1] = list[i] /\ i - 1 \in DOMAIN Tail(list)
    BY <1>1, <2>3
  <2> QED
    BY <2>1, <2>4 DEF Pending
<1>3. ASSUME NEW s \in Seq(Frames), NEW t \in Seq(Frames), Pending(t)
      PROVE  Pending(s \o t)
  <2>1. PICK i \in DOMAIN t : t[i].op = "resource" /\ Known(t[i].name)
    BY <1>3 DEF Pending
  <2>2. Len(s) + i \in DOMAIN (s \o t) /\ (s \o t)[Len(s) + i] = t[i]
    BY <2>1
  <2> QED
    BY <2>1, <2>2 DEF Pending
<1> QED
  BY <1>1, <1>2, <1>3

\* A step that reads and writes nothing of the policy.
LEMMA PolicyKept ==
    ASSUME IndInv, WorkersInv, PolicyInv, NEW e \in Envs,
           UNCHANGED <<site, main, policyVars>>,
           \A f \in Envs \ {e} : pc'[f] = pc[f] /\ env'[f] = env[f] /\ todo'[f] = todo[f],
           pc[e] \notin Checking, pc'[e] \notin Checking \cup {"crashed", "add"},
           env'[e].resource_catalog = env[e].resource_catalog,
           e = 0 /\ main = "top" /\ PolicyReadEarly /\ ~policy_loaded => Pending(todo'[0])
    PROVE  PolicyInv'
<1>0. 0 \in Envs
  BY MainTypes
<1>1. UNCHANGED <<site, main, policy_loaded, policy_filled, policy_warned, flagged>>
  BY DEF policyVars
<1>2. PolicyReadEarly' <=> PolicyReadEarly
  BY <1>1 DEF PolicyReadEarly
<1>3. ASSUME PolicyReadEarly PROVE FileInv' /\ \A f \in Envs : CheckedInv(f)'
  <2>1. FileInv /\ \A f \in Envs : CheckedInv(f)
    BY <1>3 DEF PolicyInv
  <2>2. FileInv'
    <3>1. CASE e = 0
      BY <1>1, <1>3, <2>1, <3>1 DEF FileInv, Checking
    <3>2. CASE e # 0
      <4>1. pc'[0] = pc[0] /\ env'[0] = env[0] /\ todo'[0] = todo[0]
        BY <1>0, <3>2
      <4> QED
        BY <1>1, <2>1, <4>1 DEF FileInv
    <3> QED
      BY <3>1, <3>2
  <2>3. ASSUME NEW f \in Envs PROVE CheckedInv(f)'
    <3>1. CASE f = e
      BY <1>1, <2>1, <3>1 DEF CheckedInv, Checking
    <3>2. CASE f # e
      <4>1. pc'[f] = pc[f] /\ env'[f] = env[f] /\ todo'[f] = todo[f]
        BY <3>2
      <4> QED
        BY <1>1, <2>1, <4>1 DEF CheckedInv, Name
    <3> QED
      BY <3>1, <3>2
  <2> QED
    BY <2>2, <2>3
<1>4. \A r \in Resources : flagged'[r] = IF r \in policy_warned' THEN 1 ELSE 0
  BY <1>1 DEF PolicyInv
<1> QED
  BY <1>2, <1>3, <1>4 DEF PolicyInv

\* The steps of an include.
LEMMA PolicyInclude ==
    ASSUME IndInv, WorkersInv, PolicyInv, NEW e \in Envs,
           \/ puppet_exec_include(e) \/ LoadClass(e) \/ LoadManifest(e) \/ ParseManifest(e)
           \/ InsertManifest(e) \/ LintManifest(e) \/ RegisterClass(e) \/ EnterClass(e)
           \/ LeaveClass(e) \/ puppet_func_fail(e)
    PROVE  PolicyInv'
<1>0. pc \in [Envs -> Labels] /\ todo \in [Envs -> Seq(Frames)] /\ TypeOK
  BY MainTypes DEF IndInv
<1>1. Step(e)
  BY DEF Step
<1>2. /\ \A f \in Envs \ {e} : pc'[f] = pc[f] /\ env'[f] = env[f] /\ todo'[f] = todo[f]
      /\ UNCHANGED <<optVars, mainVars>>
      /\ pc[e] # "declare" => env'[e].resource_catalog = env[e].resource_catalog
  BY <1>1, StepEffect
<1>3. ASSUME NEW l, Goto(e, l) PROVE pc'[e] = l
  BY <1>0, <1>3 DEF Goto
<1>4. /\ UNCHANGED policyVars /\ todo[e] # <<>> /\ Head(todo[e]).op # "resource"
      /\ pc[e] \notin Checking \cup {"declare"}
  BY DEF puppet_exec_include, LoadClass, LoadManifest, ParseManifest, InsertManifest, LintManifest,
     RegisterClass, EnterClass, LeaveClass, puppet_func_fail, At, registryVars, Checking
<1>5. /\ pc'[e] \notin Checking \cup {"crashed", "add"}
      /\ todo'[e] = todo[e] \/ todo'[e] = Tail(todo[e]) \/ EnterClass(e)
  <2>1. ASSUME NextStmt(e) PROVE pc'[e] = "stmt" /\ todo'[e] = Tail(todo[e])
    BY <1>0, <1>3, <2>1 DEF NextStmt
  <2>2. CASE puppet_exec_include(e) \/ ParseManifest(e) \/ LeaveClass(e) \/ puppet_func_fail(e)
    BY <1>3, <2>1, <2>2 DEF puppet_exec_include, ParseManifest, LeaveClass, puppet_func_fail, Checking
  <2>3. CASE LoadClass(e) \/ LoadManifest(e) \/ InsertManifest(e) \/ LintManifest(e) \/ RegisterClass(e)
    BY <1>3, <2>3 DEF LoadClass, LoadManifest, InsertManifest, LintManifest, RegisterClass, Checking
  <2>4. CASE EnterClass(e)
    BY <1>3, <2>4 DEF EnterClass, Checking
  <2> QED
    BY <2>2, <2>3, <2>4
<1>6. ASSUME Pending(todo[e]) PROVE Pending(todo'[e])
  <2>1. Pending(Tail(todo[e]))
    BY <1>0, <1>4, <1>6, PendingKept
  <2>2. CASE EnterClass(e)
    <3>1. /\ pc[e] = "enter" /\ Name(e) \in Classes
          /\ todo' = [todo EXCEPT ![e] = BodyOf[Name(e)]
                        \o <<[op |-> "leave", name |-> Name(e), program |-> held[e]]>> \o Tail(@)]
      BY <1>0, <2>2, Lists DEF EnterClass, At
    <3> DEFINE body == BodyOf[Name(e)] \o <<[op |-> "leave", name |-> Name(e), program |-> held[e]]>>
    <3>2. body \in Seq(Frames)
      <4>1. BodyOf[Name(e)] \in Seq(Frames)
        <5>1. BodyOf[Name(e)] \in Seq(Statements)
          BY <3>1, ManifestsAssumption
        <5> QED
          BY <5>1 DEF Frames
      <4>2. [op |-> "leave", name |-> Name(e), program |-> held[e]] \in Frames
        BY <3>1 DEF IndInv, UseInv, InCache, Frames
      <4> QED
        BY <4>1, <4>2
    <3>3. todo'[e] = body \o Tail(todo[e])
      BY <1>0, <3>1
    <3> HIDE DEF body
    <3> QED
      BY <1>0, <1>4, <1>6, <2>1, <3>2, <3>3, PendingKept
  <2> QED
    BY <1>5, <1>6, <2>1, <2>2
<1>7. e = 0 /\ main = "top" /\ PolicyReadEarly /\ ~policy_loaded => Pending(todo'[0])
  BY <1>6, MainTypes DEF PolicyInv, FileInv
<1>8. UNCHANGED <<site, main, policyVars>>
  BY <1>2, <1>4 DEF optVars, mainVars
<1> QED
  BY <1>2, <1>4, <1>5, <1>7, <1>8, PolicyKept

\* Those of a declaration, up to the entry of the resource and after the policy.
LEMMA PolicyResource ==
    ASSUME IndInv, WorkersInv, LookupInv, PolicyInv, NEW e \in Envs,
           \/ ExecResource(e) \/ LockTypes(e) \/ ScanType(e) \/ FinishScan(e) \/ LookupType(e)
           \/ AddResource(e) \/ FinishWorker(e)
    PROVE  PolicyInv'
<1>0. pc \in [Envs -> Labels] /\ todo \in [Envs -> Seq(Frames)] /\ TypeOK
  BY MainTypes DEF IndInv
<1>1. Step(e)
  BY DEF Step
<1>2. /\ \A f \in Envs \ {e} : pc'[f] = pc[f] /\ env'[f] = env[f] /\ todo'[f] = todo[f]
      /\ UNCHANGED <<optVars, mainVars>>
      /\ pc[e] # "declare" => env'[e].resource_catalog = env[e].resource_catalog
  BY <1>1, StepEffect
<1>3. ASSUME NEW l, Goto(e, l) PROVE pc'[e] = l
  BY <1>0, <1>3 DEF Goto
<1>4. /\ UNCHANGED policyVars
      /\ pc[e] \notin Checking \cup {"declare"}
  BY DEF ExecResource, LockTypes, ScanType, FinishScan, LookupType, AddResource, FinishWorker, At,
     registryVars, Checking
<1>5. ASSUME NextStmt(e) PROVE pc'[e] = "stmt" /\ todo'[e] = Tail(todo[e])
  BY <1>0, <1>3, <1>5 DEF NextStmt
<1>6. pc'[e] \notin Checking \cup {"crashed", "add"}
  <2>1. CASE ExecResource(e) \/ LookupType(e) \/ AddResource(e) \/ FinishWorker(e)
    BY <1>3, <1>5, <2>1 DEF ExecResource, LookupType, AddResource, FinishWorker, Checking
  <2>2. CASE LockTypes(e) \/ ScanType(e) \/ FinishScan(e)
    BY <1>3, <2>2 DEF LockTypes, ScanType, FinishScan, Checking
  <2> QED
    BY <2>1, <2>2
<1>7. ASSUME e = 0, main = "top", PolicyReadEarly, ~policy_loaded
      PROVE  Pending(todo'[0])
  <2>1. Pending(todo[0]) /\ ~AddResource(e)
    BY <1>7, MainTypes DEF PolicyInv, FileInv, AddResource, At
  <2>2. CASE LookupType(e)
    <3>1. CASE TypeOf[Name(e)] \in ruby_types
      BY <1>7, <2>1, <2>2, <3>1 DEF LookupType
    <3>2. CASE TypeOf[Name(e)] \notin ruby_types
      <4>1. NextStmt(e) /\ pc[e] = "lookup_type" /\ todo[e] # <<>>
        BY <2>2, <3>2 DEF LookupType, At
      <4>2. ~Known(Name(e))
        BY <3>2, <4>1 DEF IndInv, RegistryInv, RegistryComplete, LookupInv, Known
      <4> QED
        BY <1>0, <1>5, <1>7, <2>1, <4>1, <4>2, PendingKept
    <3> QED
      BY <3>1, <3>2
  <2>3. CASE ExecResource(e) \/ LockTypes(e) \/ ScanType(e) \/ FinishScan(e) \/ FinishWorker(e)
    BY <1>7, <2>1, <2>3 DEF ExecResource, LockTypes, ScanType, FinishScan, FinishWorker
  <2> QED
    BY <2>1, <2>2, <2>3
<1>8. UNCHANGED <<site, main, policyVars>>
  BY <1>2, <1>4 DEF optVars, mainVars
<1> QED
  BY <1>2, <1>4, <1>6, <1>7, <1>8, PolicyKept

\* The steps that read the policy and report what it says.
LEMMA PolicyCheck ==
    ASSUME IndInv, WorkersInv, PolicyInv, NEW e \in Envs,
           \/ Declare(e) \/ LockPolicy(e) \/ CountEntry(e) \/ FillEntry(e) \/ FinishPolicy(e)
           \/ MatchPolicy(e) \/ ReportPolicy(e)
    PROVE  PolicyInv'
<1>0. /\ 0 \in Envs /\ pc \in [Envs -> Labels] /\ env \in [Envs -> EnvRecords] /\ env[e] \in EnvRecords
      /\ todo \in [Envs -> Seq(Frames)] /\ TypeOK
  BY MainTypes DEF IndInv
<1>1. Step(e)
  BY DEF Step
<1>2. /\ pc[e] # "off"
      /\ \A f \in Envs \ {e} : pc'[f] = pc[f] /\ env'[f] = env[f] /\ todo'[f] = todo[f]
      /\ UNCHANGED <<optVars, mainVars>>
      /\ pc[e] # "declare" => env'[e].resource_catalog = env[e].resource_catalog
  BY <1>1, StepEffect
<1>3. UNCHANGED <<site, main>>
  BY <1>2 DEF optVars, mainVars
<1>4. PolicyReadEarly' <=> PolicyReadEarly
  BY <1>3 DEF PolicyReadEarly
<1>5. ASSUME NEW l, Goto(e, l) PROVE pc'[e] = l
  BY <1>0, <1>5 DEF Goto
<1>6. main = "top" => e = 0
  BY <1>2, TopAlone DEF Envs, Nodes
<1>7. ASSUME e # 0
      PROVE  main # "top" /\ pc'[0] = pc[0] /\ env'[0] = env[0] /\ todo'[0] = todo[0]
  BY <1>0, <1>2, <1>6, <1>7
<1>8. \A r \in Resources : flagged[r] = IF r \in policy_warned THEN 1 ELSE 0
  BY DEF PolicyInv
\* What is left to show when the policy is read early.
<1>9. ASSUME \A r \in Resources : flagged'[r] = IF r \in policy_warned' THEN 1 ELSE 0,
             policy_warned \subseteq policy_warned',
             PolicyReadEarly => FileInv' /\ CheckedInv(e)'
      PROVE  PolicyInv'
  <2>1. ASSUME PolicyReadEarly, NEW f \in Envs, f # e PROVE CheckedInv(f)'
    <3>1. CheckedInv(f)
      BY <2>1 DEF PolicyInv
    <3>2. pc'[f] = pc[f] /\ env'[f] = env[f] /\ todo'[f] = todo[f]
      BY <1>2, <2>1
    <3> QED
      BY <1>3, <1>9, <3>1, <3>2 DEF CheckedInv, Name
  <2> QED
    BY <1>4, <1>9, <2>1 DEF PolicyInv
<1>10. PolicyReadEarly => FileInv /\ CheckedInv(e)
  BY DEF PolicyInv
<1>11. CASE Declare(e)
  <2>1. /\ pc[e] = "declare" /\ todo[e] # <<>> /\ Head(todo[e]).op = "resource"
        /\ UNCHANGED <<policy_loaded, policy_filled, policy_warned, flagged>>
    BY <1>11 DEF Declare, At, registryVars, policyVars
  <2>2. CASE Name(e) \in env[e].resource_catalog
    <3>1. NextStmt(e) /\ env' = [env EXCEPT ![e] = ErrorTwice(env[e])]
      BY <1>11, <2>2 DEF Declare
    <3>2. env'[e].resource_catalog = env[e].resource_catalog
      <4>1. Alone(env[e], ErrorTwice(env[e]))
        BY <1>0, DiagnosticsAlone, Zenon
      <4>2. env'[e] = ErrorTwice(env[e])
        BY <1>0, <3>1
      <4> QED
        BY <4>1, <4>2 DEF Alone
    <3>3. pc'[e] = "stmt"
      BY <1>5, <3>1 DEF NextStmt
    <3>4. ASSUME PolicyReadEarly, e = 0, main = "top" PROVE policy_loaded
      BY <1>10, <2>1, <2>2, <3>4 DEF FileInv
    <3>5. UNCHANGED policyVars
      BY <1>11 DEF Declare, registryVars
    <3>6. UNCHANGED <<site, main, policyVars>>
      BY <1>3, <3>5
    <3> QED
      BY <1>2, <2>1, <3>2, <3>3, <3>4, <3>6, PolicyKept DEF Checking
  <2>3. CASE Name(e) \notin env[e].resource_catalog
    <3>1. /\ env' = [env EXCEPT ![e].resource_catalog = @ \cup {Name(e)}] /\ UNCHANGED todo
          /\ Goto(e, IF policy_loaded THEN "match" ELSE "policy_lock")
      BY <1>11, <2>3 DEF Declare
    <3>2. env'[e].resource_catalog = env[e].resource_catalog \cup {Name(e)} /\ todo'[e] = todo[e]
      BY <1>0, <3>1 DEF EnvRecords
    <3>3. pc'[e] = IF policy_loaded THEN "match" ELSE "policy_lock"
      BY <1>5, <3>1
    <3>4. ASSUME PolicyReadEarly PROVE CheckedInv(e)'
      BY <1>3, <1>10, <2>1, <3>2, <3>3, <3>4 DEF CheckedInv, Name, Checking
    <3>5. ASSUME PolicyReadEarly PROVE FileInv'
      <4>1. CASE e = 0
        BY <1>3, <1>10, <2>1, <3>2, <3>3, <3>5, <4>1 DEF FileInv
      <4>2. CASE e # 0
        BY <1>3, <1>7, <1>10, <2>1, <3>5, <4>2 DEF FileInv
      <4> QED
        BY <4>1, <4>2
    <3> QED
      BY <1>8, <1>9, <2>1, <3>4, <3>5
  <2> QED
    BY <2>2, <2>3
<1>12. CASE LockPolicy(e)
  <2>1. /\ pc[e] = "policy_lock" /\ policy_loaded' = TRUE
        /\ UNCHANGED <<todo, env, policy_filled, policy_warned, flagged>>
        /\ Goto(e, IF policy_loaded THEN "match" ELSE "policy_load")
    BY <1>12 DEF LockPolicy
  <2>2. pc'[e] = IF policy_loaded THEN "match" ELSE "policy_load"
    BY <1>5, <2>1
  <2>3. ASSUME PolicyReadEarly PROVE FileInv' /\ CheckedInv(e)'
    <3>1. ~policy_loaded => main = "top" /\ e = 0
      BY <1>6, <1>10, <2>3 DEF FileInv
    <3>2. CheckedInv(e)'
      BY <1>3, <1>10, <2>1, <2>2, <2>3, <3>1 DEF CheckedInv, Name, Checking
    <3>3. FileInv'
      <4>1. CASE e = 0
        BY <1>3, <1>10, <2>1, <2>2, <2>3, <3>1, <4>1 DEF FileInv
      <4>2. CASE e # 0
        BY <1>3, <1>7, <1>10, <2>1, <2>3, <3>1, <4>2 DEF FileInv
      <4> QED
        BY <4>1, <4>2
    <3> QED
      BY <3>2, <3>3
  <2> QED
    BY <1>8, <1>9, <2>1, <2>3
<1>13. CASE CountEntry(e) \/ FillEntry(e)
  <2>1. /\ pc[e] = "policy_load"
        /\ UNCHANGED <<pc, todo, env, policy_loaded, policy_warned, flagged>>
    BY <1>13 DEF CountEntry, FillEntry
  <2>2. ASSUME PolicyReadEarly PROVE FileInv' /\ CheckedInv(e)'
    <3>1. main = "top" /\ e = 0
      BY <1>10, <2>1, <2>2 DEF CheckedInv
    <3>2. FileInv'
      BY <1>3, <1>10, <2>1, <2>2, <3>1 DEF FileInv
    <3>3. CheckedInv(e)'
      BY <1>3, <1>10, <2>1, <2>2 DEF CheckedInv, Name
    <3> QED
      BY <3>2, <3>3
  <2> QED
    BY <1>8, <1>9, <2>1, <2>2
<1>14. CASE FinishPolicy(e)
  <2>1. /\ pc[e] = "policy_load" /\ policy_filled = Len(Policy) /\ Goto(e, "match")
        /\ UNCHANGED <<todo, env, policy_loaded, policy_filled, policy_warned, flagged>>
    BY <1>14 DEF FinishPolicy, policyVars
  <2>2. pc'[e] = "match"
    BY <1>5, <2>1
  <2>3. ASSUME PolicyReadEarly PROVE FileInv' /\ CheckedInv(e)'
    <3>1. main = "top" /\ e = 0
      BY <1>10, <2>1, <2>3 DEF CheckedInv
    <3>2. FileInv'
      BY <1>3, <1>10, <2>1, <2>2, <2>3, <3>1 DEF FileInv
    <3>3. CheckedInv(e)'
      BY <1>3, <1>10, <2>1, <2>2, <2>3 DEF CheckedInv, Name, Checking
    <3> QED
      BY <3>2, <3>3
  <2> QED
    BY <1>8, <1>9, <2>1, <2>3
<1>15. CASE MatchPolicy(e)
  <2>1. /\ pc[e] = "match" /\ todo[e] # <<>> /\ Head(todo[e]).op = "resource"
        /\ UNCHANGED <<todo, env, policy_loaded, policy_filled, policy_warned, flagged>>
    BY <1>15 DEF MatchPolicy, At, registryVars, policyVars
  <2>2. ASSUME PolicyReadEarly PROVE FileInv' /\ CheckedInv(e)'
    <3>1. policy_loaded /\ policy_filled = Len(Policy)
      <4>1. CASE main = "top"
        BY <1>6, <1>10, <2>1, <2>2, <4>1 DEF FileInv
      <4>2. CASE main # "top"
        BY <1>10, <2>2, <4>2 DEF FileInv
      <4> QED
        BY <4>1, <4>2
    <3>2. policy_entry_count \in 0 .. Len(Policy) /\ Len(Policy) \in Nat /\ DOMAIN Policy = 1 .. Len(Policy)
      BY <1>0, PolicyAssumption DEF TypeOK
    <3>3. \/ pc'[e] = "dedup"
          \/ pc'[e] = "add" /\ Name(e) \notin ToSet(Policy)
      <4>1. \/ Goto(e, "dedup")
            \/ Goto(e, "add") /\ \A i \in 1 .. Len(Policy) : Policy[i] # Name(e)
        BY <1>15, <3>1, <3>2 DEF MatchPolicy
      <4> QED
        BY <1>5, <3>2, <4>1 DEF ToSet
    <3>4. CheckedInv(e)'
      BY <1>3, <1>10, <2>1, <2>2, <3>3 DEF CheckedInv, Name, Checking
    <3>5. FileInv'
      <4>1. CASE e = 0
        BY <1>3, <1>10, <2>1, <2>2, <3>1, <3>3, <4>1 DEF FileInv
      <4>2. CASE e # 0
        BY <1>3, <1>7, <1>10, <2>1, <2>2, <4>2 DEF FileInv
      <4> QED
        BY <4>1, <4>2
    <3> QED
      BY <3>4, <3>5
  <2> QED
    BY <1>8, <1>9, <2>1, <2>2
<1>16. CASE ReportPolicy(e)
  <2>1. /\ pc[e] = "dedup" /\ todo[e] # <<>> /\ Head(todo[e]).op = "resource"
        /\ UNCHANGED <<todo, policy_loaded, policy_filled>> /\ Goto(e, "add")
    BY <1>16 DEF ReportPolicy, At
  <2>2. Name(e) \in Resources /\ flagged \in [Resources -> Nat]
    BY <1>0, <2>1, Lists DEF TypeOK
  <2>3. /\ Name(e) \in policy_warned' /\ policy_warned \subseteq policy_warned'
        /\ \A r \in Resources : flagged'[r] = IF r \in policy_warned' THEN 1 ELSE 0
    <3>1. CASE Name(e) \in policy_warned
      BY <1>8, <1>16, <3>1 DEF ReportPolicy
    <3>2. CASE Name(e) \notin policy_warned
      <4>1. /\ policy_warned' = policy_warned \cup {Name(e)}
            /\ flagged' = [flagged EXCEPT ![Name(e)] = @ + 1]
        BY <1>16, <3>2 DEF ReportPolicy
      <4>2. flagged'[Name(e)] = 1 /\ \A r \in Resources \ {Name(e)} : flagged'[r] = flagged[r]
        BY <1>8, <2>2, <3>2, <4>1
      <4> QED
        BY <1>8, <4>1, <4>2
    <3> QED
      BY <3>1, <3>2
  <2>4. pc'[e] = "add" /\ env'[e].resource_catalog = env[e].resource_catalog
    BY <1>2, <1>5, <2>1
  <2>5. ASSUME PolicyReadEarly PROVE FileInv' /\ CheckedInv(e)'
    <3>1. CheckedInv(e)'
      BY <1>3, <1>10, <2>1, <2>3, <2>4, <2>5 DEF CheckedInv, Name, Checking
    <3>2. FileInv'
      <4>1. CASE e = 0
        BY <1>3, <1>10, <2>1, <2>4, <2>5, <4>1 DEF FileInv
      <4>2. CASE e # 0
        BY <1>3, <1>7, <1>10, <2>1, <2>5, <4>2 DEF FileInv
      <4> QED
        BY <4>1, <4>2
    <3> QED
      BY <3>1, <3>2
  <2> QED
    BY <1>9, <2>3, <2>5
<1> QED
  BY <1>11, <1>12, <1>13, <1>14, <1>15, <1>16

LEMMA PolicyMain ==
    ASSUME IndInv, PolicyInv, Main
    PROVE  PolicyInv'
<1>0. /\ 0 \in Envs /\ pc \in [Envs -> Labels] /\ env \in [Envs -> EnvRecords] /\ env[0] \in EnvRecords
      /\ todo \in [Envs -> Seq(Frames)]
  BY MainTypes
<1>1. UNCHANGED <<site, policy_loaded, policy_filled, policy_warned, flagged>> /\ main' # "top"
  BY MainMoves DEF optVars, registryVars, policyVars
<1>2. PolicyReadEarly' <=> PolicyReadEarly
  BY <1>1 DEF PolicyReadEarly
<1>3. PolicyReadEarly => FileInv /\ \A f \in Envs : CheckedInv(f)
  BY DEF PolicyInv
<1>4. PolicyReadEarly => policy_loaded /\ policy_filled = Len(Policy)
  <2>1. CASE main = "top"
    <3>1. pc[0] = "stmt" /\ todo[0] = <<>>
      BY <2>1 DEF Main, FinishTopLevel, SkipNode, StartNode, FinishNode, StartWorker, LoseWorker,
         JoinWorker, Aggregate, Exit
    <3> QED
      BY <1>3, <2>1, <3>1 DEF FileInv, Pending
  <2> QED
    BY <1>3, <2>1 DEF FileInv
<1>5. ASSUME PolicyReadEarly PROVE FileInv'
  BY <1>1, <1>4, <1>5 DEF FileInv
\* An environment that stays where it is, or leaves or enters a node.
<1>6. ASSUME PolicyReadEarly, NEW e \in Envs,
             \/ pc'[e] = pc[e] /\ todo'[e] = todo[e]
             \/ pc[e] \in {"off", "stmt"} /\ pc'[e] \in {"off", "stmt"},
             env'[e].resource_catalog \subseteq env[e].resource_catalog,
             pc[e] # "policy_load"
      PROVE  CheckedInv(e)'
  <2>1. CheckedInv(e)
    BY <1>3, <1>6
  <2>2. CASE pc'[e] = pc[e] /\ todo'[e] = todo[e]
    BY <1>1, <1>6, <2>1, <2>2 DEF CheckedInv, Name
  <2>3. CASE pc[e] \in {"off", "stmt"} /\ pc'[e] \in {"off", "stmt"}
    BY <1>1, <1>6, <2>1, <2>3 DEF CheckedInv, Checking
  <2> QED
    BY <1>6, <2>2, <2>3
<1>7. \A e \in Envs : \/ pc'[e] = pc[e] /\ todo'[e] = todo[e]
                      \/ pc[e] \in {"off", "stmt"} /\ pc'[e] \in {"off", "stmt"}
  <2>1. CASE FinishTopLevel \/ FinishNode
    <3>1. pc[0] = "stmt" /\ UNCHANGED todo /\ Goto(0, "off")
      BY <2>1 DEF FinishTopLevel, FinishNode
    <3> QED
      BY <1>0, <3>1 DEF Goto
  <2>2. CASE SkipNode \/ LoseWorker \/ JoinWorker \/ Aggregate \/ Exit
    BY <2>2 DEF SkipNode, LoseWorker, JoinWorker, Aggregate, Exit
  <2>3. CASE StartNode
    <3>1. pc[0] = "off" /\ Goto(0, "stmt") /\ \E s : todo' = [todo EXCEPT ![0] = s]
      BY <2>3, MainTypes DEF StartNode
    <3> QED
      BY <1>0, <3>1 DEF Goto
  <2>4. CASE StartWorker
    <3>1. /\ next \in Envs /\ pc[next] = "off" /\ Goto(next, "stmt")
          /\ \E s : todo' = [todo EXCEPT ![next] = s]
      BY <2>4, MainTypes DEF StartWorker
    <3> QED
      BY <1>0, <3>1 DEF Goto
  <2> QED
    BY <2>1, <2>2, <2>3, <2>4 DEF Main
<1>8. \A e \in Envs : env'[e].resource_catalog \subseteq env[e].resource_catalog
  <2>1. CASE FinishTopLevel \/ SkipNode \/ JoinWorker \/ Exit
    BY <2>1 DEF FinishTopLevel, SkipNode, JoinWorker, Exit
  <2>2. ASSUME NEW v, EnterNode(v).resource_catalog = {}, NEW n \in Envs,
               env' = [env EXCEPT ![n] = EnterNode(v)]
        PROVE  \A e \in Envs : env'[e].resource_catalog \subseteq env[e].resource_catalog
    BY <1>0, <2>2
  <2>3. CASE StartNode
    <3>1. EnterNode(env[0]).resource_catalog = {}
      BY <1>0 DEF EnterNode, EnvRecords
    <3>2. env' = [env EXCEPT ![0] = EnterNode(env[0])]
      BY <2>3 DEF StartNode
    <3> QED
      BY <1>0, <2>2, <3>1, <3>2
  <2>4. CASE StartWorker
    <3>1. EnterNode(FreshEnv).resource_catalog = {}
      BY DEF EnterNode, FreshEnv
    <3>2. env' = [env EXCEPT ![next] = EnterNode(FreshEnv)] /\ next \in Envs
      BY <2>4, MainTypes DEF StartWorker
    <3> QED
      BY <2>2, <3>1, <3>2
  <2>5. CASE FinishNode
    <3>1. env' = [env EXCEPT ![0] = LeaveNode(0)]
      BY <2>5 DEF FinishNode
    <3>2. LeaveNode(0).resource_catalog = env[0].resource_catalog
      BY <1>0, LeaveNodeHeard
    <3> QED
      BY <1>0, <3>1, <3>2
  <2>6. CASE LoseWorker
    <3>1. env' = [env EXCEPT ![0] = [env[0] EXCEPT !.printed = @ + 1]]
      BY <2>6 DEF LoseWorker
    <3>2. [env[0] EXCEPT !.printed = @ + 1].resource_catalog = env[0].resource_catalog
      BY <1>0 DEF EnvRecords
    <3> QED
      BY <1>0, <3>1, <3>2
  <2>7. CASE Aggregate
    <3>1. /\ \A f \in Envs \ {0} : env'[f] = env[f]
          /\ env'[0].resource_catalog = env[0].resource_catalog
      BY <2>7, AggregateSums
    <3> QED
      BY <3>1
  <2> QED
    BY <2>1, <2>3, <2>4, <2>5, <2>6, <2>7 DEF Main
<1>9. ASSUME PolicyReadEarly, NEW e \in Envs PROVE pc[e] # "policy_load"
  <2>1. CASE main = "top"
    <3>1. pc[0] = "stmt"
      BY <2>1 DEF Main, FinishTopLevel, SkipNode, StartNode, FinishNode, StartWorker, LoseWorker,
         JoinWorker, Aggregate, Exit
    <3> QED
      BY <1>3, <1>9, <3>1 DEF CheckedInv
  <2> QED
    BY <1>3, <1>9, <2>1 DEF CheckedInv
<1>10. ASSUME PolicyReadEarly, NEW e \in Envs PROVE CheckedInv(e)'
  BY <1>6, <1>7, <1>8, <1>9, <1>10
<1>11. \A r \in Resources : flagged'[r] = IF r \in policy_warned' THEN 1 ELSE 0
  BY <1>1 DEF PolicyInv
<1> QED
  BY <1>2, <1>5, <1>10, <1>11 DEF PolicyInv

LEMMA PolicyNext ==
    ASSUME IndInv, WorkersInv, LookupInv, PolicyInv, [Next]_vars
    PROVE  PolicyInv'
<1>1. CASE UNCHANGED vars
  BY <1>1 DEF vars, optVars, mainVars, registryVars, policyVars, PolicyInv, FileInv, CheckedInv,
     PolicyReadEarly, Name
<1>2. ASSUME NEW e \in Envs, Step(e) PROVE PolicyInv'
  BY <1>2, PolicyInclude, PolicyResource, PolicyCheck DEF Step
<1> QED
  BY <1>1, <1>2, PolicyMain DEF Next
-----------------------------------------------------------------------------
(* What the report says.                                                   *)

LEMMA InitMore == Init => MoreInv
<1> SUFFICES ASSUME Init PROVE MoreInv
  OBVIOUS
<1>1. /\ 0 \in Envs /\ \A n \in Nodes : n \in Envs /\ n # 0
      /\ site[0] \in Seq(Statements)
  BY NodesAssumption, SitesAssumption DEF Init, Envs, Nodes
<1>2. /\ main = "top" /\ next = 1 /\ started = <<>> /\ joined = 0 /\ report = <<>>
      /\ pc[0] = "stmt" /\ \A n \in Nodes : pc[n] = "off"
      /\ todo[0] = site[0] /\ \A e \in Envs : env[e] = FreshEnv
      /\ policy_loaded = FALSE /\ policy_filled = 0 /\ policy_warned = {}
      /\ flagged = [r \in Resources |-> 0]
  BY <1>1 DEF Init
<1>3. /\ FreshEnv.resource_catalog = {} /\ FreshEnv.errors_count = 0 /\ FreshEnv.printed = 0
      /\ FreshEnv.nodes_failed = 0 /\ ~FreshEnv.current_node_failed /\ ~FreshEnv.compilation_failed
  BY DEF FreshEnv
<1>4. \A e \in Envs : pc[e] \in {"stmt", "off"} /\ env[e].resource_catalog = {}
  BY <1>2, <1>3 DEF Envs, Nodes
<1>5. WorkersInv
  BY <1>1, <1>2 DEF WorkersInv
<1>6. ErrorsInv /\ FailuresInv
  BY <1>1, <1>2, <1>3 DEF ErrorsInv, FailuresInv, Failing
<1>7. LookupInv
  BY <1>4 DEF LookupInv
<1>8. QuietInv
  BY <1>1, <1>2, <1>4 DEF QuietInv, QuietTop
<1>9. PolicyReadEarly => FileInv /\ \A e \in Envs : CheckedInv(e)
  <2>1. PolicyReadEarly => Pending(todo[0])
    BY <1>2 DEF PolicyReadEarly, Pending
  <2> QED
    BY <1>1, <1>2, <1>4, <2>1 DEF FileInv, CheckedInv, Checking
<1>10. PolicyInv
  BY <1>2, <1>9 DEF PolicyInv
<1> QED
  BY <1>5, <1>6, <1>7, <1>8, <1>10 DEF MoreInv

LEMMA NextMore == IndInv /\ MoreInv /\ [Next]_vars => MoreInv'
<1> SUFFICES ASSUME IndInv, MoreInv, [Next]_vars PROVE MoreInv'
  OBVIOUS
<1>1. WorkersInv /\ ErrorsInv /\ FailuresInv /\ LookupInv /\ QuietInv /\ PolicyInv
  BY DEF MoreInv
<1>2. WorkersInv' /\ ErrorsInv' /\ FailuresInv' /\ LookupInv' /\ QuietInv' /\ PolicyInv'
  BY <1>1, WorkersNext, ErrorsNext, FailuresNext, LookupNext, QuietNext, PolicyNext
<1> QED
  BY <1>2 DEF MoreInv

\* With an early read of the policy nothing crashes, and when main exits no thread is
\* still checking what it declared.
LEMMA MorePolicy == IndInv /\ MoreInv => PolicyOnce
<1> SUFFICES ASSUME IndInv, MoreInv, PolicyReadEarly, main = "exited" \/ ~Alive,
                    NEW e \in Envs, NEW r \in env[e].resource_catalog \cap ToSet(Policy)
             PROVE  flagged[r] = 1
  BY DEF PolicyOnce
<1>1. WorkersInv /\ PolicyInv /\ r \in Resources
  BY MainTypes DEF MoreInv, EnvRecords
<1>2. \A f \in Envs : CheckedInv(f)
  BY <1>1 DEF PolicyInv
<1>3. main = "exited"
  BY <1>2 DEF CheckedInv, Alive
<1>4. pc[e] \in {"off", "done"}
  <2>1. CASE e = 0
    BY <1>3, <2>1, MainTypes
  <2>2. CASE e # 0
    <3>1. e \in Nodes
      BY <2>2, NodesAssumption DEF Envs, Nodes
    <3>2. CASE pc[e] # "off"
      <4>1. PICK i \in DOMAIN started : started[i] = e
        BY <1>1, <3>1, <3>2 DEF WorkersInv
      <4>2. parallel /\ joined = Len(started)
        BY <1>1, <1>3, <3>1, <3>2 DEF WorkersInv
      <4>3. i \in 1 .. joined
        BY <4>1, <4>2, MainTypes
      <4> QED
        BY <1>1, <4>1, <4>3 DEF WorkersInv
    <3> QED
      BY <3>2
  <2> QED
    BY <2>1, <2>2
<1>5. r \in policy_warned
  BY <1>2, <1>4 DEF CheckedInv, Checking
<1> QED
  BY <1>1, <1>5 DEF PolicyInv

\* What was printed was counted, and what was counted has reached the totals of main.
LEMMA MoreExit == IndInv /\ MoreInv => ExitReflectsErrors
<1> SUFFICES ASSUME IndInv, MoreInv, main = "exited", lost = {}, summary \/ QuietTop
             PROVE  exit_code = 1 <=> \E e \in Envs : env[e].printed > 0
  BY DEF ExitReflectsErrors
<1>1. WorkersInv /\ ErrorsInv /\ FailuresInv /\ 0 \in Envs
  BY MainTypes DEF MoreInv
<1>2. exit_code = ExitCode(env[0])
  BY <1>1 DEF WorkersInv
<1>3. ASSUME exit_code = 1 PROVE \E e \in Envs : env[e].printed > 0
  <2>1. \/ env[0].compilation_failed \/ env[0].nodes_failed > 0
        \/ env[0].errors_count > 0
    BY <1>2, <1>3 DEF ExitCode
  <2>2. env[0].errors_count > 0
    BY <1>1, <2>1 DEF ErrorsInv, Failing
  <2> QED
    BY <1>1, <2>2 DEF ErrorsInv
<1>4. ASSUME NEW e \in Envs, env[e].printed > 0 PROVE exit_code = 1
  <2>1. env[0].errors_count > 0
    <3>1. CASE e = 0
      BY <1>1, <1>4, <3>1 DEF ErrorsInv
    <3>2. CASE e # 0
      <4>1. e \in Nodes /\ env[e].errors_count > 0
        BY <1>1, <1>4, <3>2, NodesAssumption DEF ErrorsInv, Envs, Nodes
      <4>2. pc[e] # "off"
        BY <1>1, <4>1 DEF WorkersInv, FreshEnv
      <4>3. PICK i \in DOMAIN started : started[i] = e
        BY <1>1, <4>1, <4>2 DEF WorkersInv
      <4>4. parallel /\ Len(report) = Len(started)
        BY <1>1, <4>1, <4>2 DEF WorkersInv
      <4>5. i \in DOMAIN report
        BY <4>3, <4>4, MainTypes
      <4>6. report[i] = e
        BY <1>1, <4>3, <4>4, <4>5 DEF WorkersInv
      <4> QED
        BY <1>1, <4>1, <4>4, <4>5, <4>6 DEF ErrorsInv
    <3> QED
      BY <3>1, <3>2
  <2>2. CASE summary
    BY <1>2, <2>1, <2>2 DEF ExitCode
  <2>3. CASE ~summary
    <3>1. env[0].nodes_failed > 0
      BY <1>1, <2>1, <2>3 DEF FailuresInv
    <3> QED
      BY <1>2, <3>1 DEF ExitCode
  <2> QED
    BY <2>2, <2>3
<1> QED
  BY <1>3, <1>4

\* Whatever the schedule of the threads: the sections of the report come in order
\* (puppet_exec_nodes_parallel), every resource of the policy is reported once when the
\* policy is read at the top level (puppet_policy_check_resource), and the exit status of
\* main.c is 1 exactly when an error was reported.
THEOREM ReportIsRight == Spec => []ReportRight
<1>1. IndInv /\ MoreInv /\ SectionsInOrder => ReportRight
  BY MorePolicy, MoreExit DEF ReportRight
<1> QED
  BY <1>1, InitInv, NextInv, InitMore, NextMore, SectionsAreOrdered, PTL DEF Spec
=============================================================================
