----------------------------- MODULE Evaluation ----------------------------
(***************************************************************************)
(* The evaluation of one node's manifests in one puppet_env_t: statement   *)
(* lists and the defined types they defer, classes (included, declared     *)
(* with parameters, inherited, executed a second time), virtual and        *)
(* exported resources and the ways to realize them, overrides, functions,  *)
(* and the scopes all of these create and destroy.                         *)
(*                                                                         *)
(* The C functions call each other; here what is left to do is the list    *)
(* env.todo, whose head is the next statement or the code that follows a   *)
(* nested body.  A class or a defined type has one parameter, p, and a     *)
(* resource one attribute.                                                 *)
(***************************************************************************)
EXTENDS Integers, Sequences, FiniteSets

CONSTANTS
    Programs,   \* the manifests, see MCEvaluation for their form
    Stmts,      \* their statements, those inside others included
    Capacity,   \* env->deferred_define_capacity when it is first allocated
    undef       \* PUPPET_VALUE_UNDEF

ASSUME CapacityAssumption == Capacity \in Nat \ {0}

\* Bodies are lists of statements, and the classes and functions they name exist;
\* "NULL" is what a class without a parent inherits.
ASSUME ProgramsAssumption ==
    /\ \A stmt \in Stmts : stmt.op = "branch" => stmt.body \in Seq(Stmts)
    /\ \A p \in Programs :
          /\ p.top \in Seq(Stmts)
          /\ \A class \in DOMAIN p.classes :
                /\ p.classes[class].body \in Seq(Stmts)
                /\ p.classes[class].inherits \in DOMAIN p.classes \cup {"NULL"}
          /\ \A type \in DOMAIN p.defines : p.defines[type].body \in Seq(Stmts)
          /\ \A function \in DOMAIN p.functions : p.functions[function] \in Seq(Stmts)
          /\ \A stmt \in Stmts :
                /\ stmt.op \in {"include", "class"} => stmt.class \in DOMAIN p.classes
                /\ stmt.op = "call" => stmt.function \in DOMAIN p.functions

VARIABLES
    program,    \* the manifests of this node
    env,        \* puppet_env_t
    seen        \* what has happened, for the properties

vars == <<program, env, seen>>

GlobalScope == 1
NodeScope   == 2

Put(f, k, v) == [i \in DOMAIN f \cup {k} |-> IF i = k THEN v ELSE f[i]]

CountOf(f, k) == IF k \in DOMAIN f THEN f[k] ELSE 0

Drop(s, n) == SubSeq(s, 1, Len(s) - n)

Last(s) == s[Len(s)]

-----------------------------------------------------------------------------
(* Scopes *)

\* The nearest scope from s outwards that binds the name, 0 for none
Binding(e, s, name) ==
    LET nearest[t \in 0 .. Len(e.scopes)] ==
          IF t = 0 \/ (t > 0 /\ name \in DOMAIN e.scopes[t].variables) THEN t
          ELSE nearest[e.scopes[t].parent]
    IN  nearest[s]

puppet_variable_lookup_chain(e, name) ==
    LET Holds(s) == s # 0 /\ name \in DOMAIN e.scopes[s].variables
        chain == SelectSeq(<<Binding(e, e.current_scope, name), e.class_scope,
                             NodeScope, GlobalScope>>, Holds)
    IN  IF chain = <<>> THEN undef ELSE e.scopes[chain[1]].variables[name]

\* An expression is <<"var", name>> or <<"value", v>>
puppet_eval_expr(e, expr) ==
    IF expr[1] = "var" THEN puppet_variable_lookup_chain(e, expr[2]) ELSE expr[2]

puppet_scope_set_var(e, s, name, value) ==
    [e EXCEPT !.scopes[s].variables = Put(@, name, value)]

\* puppet_scope_create and puppet_scope_push
EnterScope(e, parent, variables) ==
    [e EXCEPT !.scopes = Append(@, [parent |-> parent, variables |-> variables, live |-> TRUE]),
              !.stack = Append(@, e.current_scope),
              !.current_scope = Len(e.scopes) + 1]

ReenterScope(e, s) ==
    [e EXCEPT !.stack = Append(@, e.current_scope), !.current_scope = s]

puppet_scope_pop(e) ==
    [e EXCEPT !.current_scope = Last(e.stack), !.stack = Drop(@, 1)]

\* puppet_scope_pop and puppet_scope_destroy
LeaveScope(e) ==
    puppet_scope_pop([e EXCEPT !.scopes[e.current_scope].live = FALSE])

Titled(name) == [v \in {"title", "name"} |-> name]

-----------------------------------------------------------------------------
(* The work list, and what statements do to the catalog *)

Do(e, tasks) == [e EXCEPT !.todo = tasks \o @]

Each(stmts) == [i \in DOMAIN stmts |-> [do |-> "stmt", stmt |-> stmts[i]]]

\* puppet_exec_stmt_list
ExecList(e, stmts) ==
    Each(stmts) \o <<[do |-> "deferred", saved  |-> Len(e.deferred_defines),
                                         cursor |-> Len(e.deferred_defines)]>>

puppet_env_increment_error(e) == [e EXCEPT !.errors = @ + 1]

Mark(e, id) == [e EXCEPT !.resource_catalog = @ \cup {id}]

\* Mutant: a resource that is there already is replaced
puppet_catalog_add_resource_Replaces(e, id, value) == [e EXCEPT !.catalog = Put(@, id, value)]

puppet_catalog_add_resource(e, id, value) ==
    IF id \in DOMAIN e.catalog THEN e ELSE [e EXCEPT !.catalog = Put(@, id, value)]

\* A class that is executed again replaces what the catalog holds
AddOrUpdate(e, id, value) ==
    IF e.class_reexecuting THEN [e EXCEPT !.catalog = Put(@, id, value)]
    ELSE puppet_catalog_add_resource(e, id, value)

IsDefine(type) == type \in DOMAIN program.defines

\* deferred_defines, grown by doubling: a new generation is a new array
DeferDefine(e, entry) ==
    LET full == Len(e.deferred_defines) = e.capacity
    IN  [e EXCEPT !.deferred_defines = Append(@, entry),
                  !.capacity = IF full THEN 2 * @ ELSE @,
                  !.generation = IF full THEN @ + 1 ELSE @]

-----------------------------------------------------------------------------
(* The statement at hand, and the environment without it *)

Task == Head(env.todo)
Rest == [env EXCEPT !.todo = Tail(@)]

At(do)   == env.todo # <<>> /\ Task.do = do
Stmt(op) == At("stmt") /\ Task.stmt.op = op

Id(stmt) == <<stmt.type, puppet_eval_expr(env, stmt.title)>>

Becomes(e) == env' = e /\ UNCHANGED <<program, seen>>

Ran(body) == [seen EXCEPT !.bodies = Put(@, body, CountOf(@, body) + 1)]

-----------------------------------------------------------------------------
(* Assignments, nested lists and functions *)

puppet_exec_assignment ==
    /\ Stmt("assign")
    /\ Becomes(puppet_scope_set_var(Rest, env.current_scope, Task.stmt.name,
                                    puppet_eval_expr(env, Task.stmt.value)))

\* The branch of an if, unless or case that is taken, the body of each
ExecBranch ==
    /\ Stmt("branch")
    /\ Becomes(Do(Rest, ExecList(Rest, Task.stmt.body)))

\* A function executes its statements one by one, not as a list
puppet_call_user_function ==
    /\ Stmt("call")
    /\ Becomes(Do(EnterScope(Rest, env.current_scope, <<>>),
                  Each(program.functions[Task.stmt.function]) \o <<[do |-> "leave"]>>))

Leave == At("leave") /\ Becomes(LeaveScope(Rest))

-----------------------------------------------------------------------------
(* Classes *)

Included(e, class) == CountOf(e.class_scopes, class) # 0

\* What including or declaring a class comes to: its parent first
ClassTasks(e, class, args) ==
    LET parent == program.classes[class].inherits
        enter  == [do |-> "class", class |-> class, args |-> args]
    IN  IF parent = "NULL" \/ Included(e, parent) THEN <<enter>>
        ELSE <<[do |-> "stmt", stmt |-> [op |-> "include", class |-> parent]], enter>>

puppet_exec_include ==
    /\ Stmt("include")
    /\ LET class == Task.stmt.class
       IN  Becomes(IF Included(env, class) THEN Rest
                   ELSE Do(Rest, ClassTasks(env, class, <<>>)))

\* Mutant: the scope of whatever includes the class first
ClassParent_Current(class) == env.current_scope

\* The scope a class runs in is a child of its parent's or of the node's
ClassParent(class) ==
    IF program.classes[class].inherits = "NULL" THEN NodeScope
    ELSE env.class_scopes[program.classes[class].inherits]

\* Arguments are evaluated in the caller's scope; undef is as good as none
ClassArgument(inside, class, args) ==
    LET given == IF args = <<>> THEN undef ELSE puppet_eval_expr(env, args)
    IN  CASE given # undef -> given
          [] given = undef /\ class \in DOMAIN program.hiera -> program.hiera[class]
          [] OTHER -> puppet_eval_expr(inside, program.classes[class].default)

puppet_include_class_from_def ==
    /\ At("class")
    /\ LET class   == Task.class
           entered == EnterScope(Rest, ClassParent(class), Titled(class))
           scope   == entered.current_scope
           inside  == [entered EXCEPT !.class_scope = scope,
                                      !.class_scopes = Put(@, class, scope)]
           bound   == puppet_scope_set_var(inside, scope, "p",
                                           ClassArgument(inside, class, Task.args))
           end     == [do |-> "endClass", class |-> class, outer |-> env.class_scope]
       IN  /\ env' = Do(bound, ExecList(bound, program.classes[class].body) \o <<end>>)
           /\ seen' = Ran(<<"class", class>>)
    /\ UNCHANGED program

EndClass ==
    /\ At("endClass")
    /\ Becomes(puppet_scope_pop([Rest EXCEPT !.classes = @ \cup {Task.class},
                                             !.class_scope = Task.outer]))

\* class { c: } of a class that was declared like that before
DeclareClassTwice ==
    /\ Stmt("class")
    /\ Task.stmt.class \in env.class_resource_decls
    /\ Becomes(puppet_env_increment_error(Rest))

DeclareClass ==
    /\ Stmt("class")
    /\ Task.stmt.class \notin env.class_resource_decls
    /\ ~ Included(env, Task.stmt.class)
    /\ LET declared == [Rest EXCEPT !.class_resource_decls = @ \cup {Task.stmt.class}]
       IN  Becomes(Do(declared, ClassTasks(env, Task.stmt.class, Task.stmt.args)))

\* class { c: p => v } after include c: the body runs again, statement by statement
ReexecuteClass ==
    /\ Stmt("class")
    /\ Task.stmt.class \notin env.class_resource_decls
    /\ Included(env, Task.stmt.class)
    /\ LET class    == Task.stmt.class
           scope    == env.class_scopes[class]
           declared == [Rest EXCEPT !.class_resource_decls = @ \cup {class}]
           bound    == puppet_scope_set_var(declared, scope, "p",
                                            puppet_eval_expr(env, Task.stmt.args))
           inside   == [ReenterScope(bound, scope) EXCEPT
                           !.class_scope = scope, !.class_reexecuting = TRUE]
           end      == [do |-> "endReexecution", outer |-> env.class_scope,
                        reexecuting |-> env.class_reexecuting]
       IN  IF Task.stmt.args = <<>>
           THEN Becomes(declared)
           ELSE /\ env' = Do(inside, Each(program.classes[class].body) \o <<end>>)
                /\ seen' = [Ran(<<"class", class>>) EXCEPT
                              !.given = Put(@, class, inside.scopes[scope].variables["p"])]
                /\ UNCHANGED program

EndReexecution ==
    /\ At("endReexecution")
    /\ Becomes(puppet_scope_pop([Rest EXCEPT !.class_scope = Task.outer,
                                             !.class_reexecuting = Task.reexecuting]))

-----------------------------------------------------------------------------
(* Resources, instances of defined types *)

Duplicate(id) == id \in env.resource_catalog /\ ~ env.class_reexecuting

DuplicateDeclaration ==
    /\ Stmt("resource")
    /\ Duplicate(Id(Task.stmt))
    /\ Becomes(puppet_env_increment_error(Rest))

DeclareResource ==
    /\ Stmt("resource")
    /\ ~ IsDefine(Task.stmt.type)
    /\ LET id == Id(Task.stmt)
       IN  /\ ~ Duplicate(id)
           /\ Becomes(AddOrUpdate(Mark(Rest, id), id, puppet_eval_expr(env, Task.stmt.value)))

\* Mutant: the mode of the evaluation is not kept with the instance
NewEntry_NoMode(id, value) ==
    [id |-> id, value |-> value, override_attrs |-> {},
     class_reexecuting |-> FALSE, caller_scope |-> env.current_scope]

\* An instance of a defined type waits with the mode and the scope of its declaration
NewEntry(id, value) ==
    [id |-> id, value |-> value, override_attrs |-> {},
     class_reexecuting |-> env.class_reexecuting, caller_scope |-> env.current_scope]

DeclareInstance ==
    /\ Stmt("resource")
    /\ IsDefine(Task.stmt.type)
    /\ LET id == Id(Task.stmt)
       IN  /\ ~ Duplicate(id)
           /\ env' = DeferDefine(Mark(Rest, id), NewEntry(id, Task.stmt.value))
           /\ seen' = [seen EXCEPT !.instances = Put(@, id, CountOf(@, id) + 1)]
    /\ UNCHANGED program

\* The overriding value if there is one, else the value of the declaration
InstanceValue(e, d) ==
    IF d.override_attrs # {} THEN CHOOSE v \in d.override_attrs : TRUE
    ELSE puppet_eval_expr(e, d.value)

\* The scope the attributes of a deferred instance are looked up from
InstanceParent(d) == d.caller_scope

puppet_exec_deferred_define ==
    /\ At("deferred")
    /\ Task.cursor < Len(env.deferred_defines)
    /\ LET d       == env.deferred_defines[Task.cursor + 1]
           caller  == [Rest EXCEPT !.current_scope = InstanceParent(d),
                                   !.class_reexecuting = d.class_reexecuting]
           inside  == EnterScope(caller, InstanceParent(d), Titled(d.id[2]))
           given   == InstanceValue(inside, d)
           value   == IF given # undef THEN given
                      ELSE puppet_eval_expr(inside, program.defines[d.id[1]].default)
           bound   == puppet_scope_set_var(inside, inside.current_scope, "p", value)
           end     == [do |-> "endDefine", entry |-> Task.cursor + 1,
                       generation |-> env.generation, caller |-> env.current_scope,
                       reexecuting |-> env.class_reexecuting]
           next    == [Task EXCEPT !.cursor = @ + 1]
       IN  /\ env' = Do(bound, ExecList(bound, program.defines[d.id[1]].body) \o <<end, next>>)
           /\ seen' = [Ran(d.id) EXCEPT
                         !.meant = Put(@, d.id, InstanceValue([env EXCEPT
                                       !.current_scope = d.caller_scope], d))]
    /\ UNCHANGED program

\* The instance follows its body into the catalog.  The entry is read again,
\* through a pointer into the array of the time the body was entered: what this
\* does after the array has grown (Task.generation # env.generation) is undefined;
\* Capacity is larger than what Programs defer.
EndDefine ==
    /\ At("endDefine")
    /\ LET d     == env.deferred_defines[Task.entry]
           added == AddOrUpdate(Rest, d.id, InstanceValue(env, d))
       IN  Becomes([LeaveScope(added) EXCEPT !.current_scope = Task.caller,
                                             !.class_reexecuting = Task.reexecuting])

\* Mutant: what the list deferred stays, and its caller's list runs it again
EndList_Keeps ==
    /\ At("deferred")
    /\ Task.cursor >= Len(env.deferred_defines)
    /\ Becomes(Rest)

\* All that the list deferred has run
EndList ==
    /\ At("deferred")
    /\ Task.cursor >= Len(env.deferred_defines)
    /\ Becomes([Rest EXCEPT !.deferred_defines = SubSeq(@, 1, Task.saved)])

\* create_resources: a duplicate is printed and not counted, a body runs at once
puppet_func_create_resources ==
    /\ Stmt("create")
    /\ LET id     == Id(Task.stmt)
           value  == puppet_eval_expr(env, Task.stmt.value)
           marked == Mark(Rest, id)
           inside == EnterScope(marked, env.current_scope, Put(Titled(id[2]), "p", value))
           end    == [do |-> "created", id |-> id, value |-> value]
       IN  CASE id \in env.resource_catalog -> Becomes(Rest)
             [] id \notin env.resource_catalog /\ IsDefine(id[1]) ->
                    /\ env' = Do(inside, ExecList(inside, program.defines[id[1]].body) \o <<end>>)
                    /\ seen' = [Ran(id) EXCEPT !.instances = Put(@, id, 1)]
                    /\ UNCHANGED program
             [] OTHER -> Becomes(puppet_catalog_add_resource(marked, id, value))

Created ==
    /\ At("created")
    /\ Becomes(LeaveScope(puppet_catalog_add_resource(Rest, Task.id, Task.value)))

-----------------------------------------------------------------------------
(* Virtual and exported resources: kept with the value they were declared  *)
(* with, and realized by a reference, a collector or a pending realize()   *)

\* realize() asked for it before it was declared
Awaited(id) == id \in env.pending_realizes

DeclareVirtual ==
    /\ Stmt("virtual")
    /\ LET id       == Id(Task.stmt)
           value    == puppet_eval_expr(env, Task.stmt.value)
           awaited  == Awaited(id)
           declared == [Rest EXCEPT !.virtual_resources =
                           Put(@, id, [value |-> value, realized |-> awaited])]
       IN  Becomes(CASE id \in DOMAIN env.virtual_resources -> Rest
                     [] id \notin DOMAIN env.virtual_resources /\ awaited ->
                            puppet_catalog_add_resource(Mark(declared, id), id, value)
                     [] OTHER -> declared)

Realized(e, id) == [e EXCEPT !.virtual_resources[id].realized = TRUE]

\* realize() adds an instance of a defined type to the catalog without its body
RealizeVirtual ==
    /\ Stmt("realize")
    /\ LET id == Task.stmt.id
       IN  /\ id \in DOMAIN env.virtual_resources
           /\ env' = IF env.virtual_resources[id].realized \/ id \in env.resource_catalog THEN Rest
                     ELSE Realized(puppet_catalog_add_resource(Mark(Rest, id), id,
                                       env.virtual_resources[id].value), id)
           /\ seen' = [seen EXCEPT !.asked = @ \cup {id}]
    /\ UNCHANGED program

\* Not declared yet: it is remembered only while defined types wait to run
RealizeUnknown ==
    /\ Stmt("realize")
    /\ Task.stmt.id \notin DOMAIN env.virtual_resources
    /\ LET waits == env.deferred_defines # <<>>
       IN  /\ env' = IF waits THEN [Rest EXCEPT !.pending_realizes = @ \cup {Task.stmt.id}]
                     ELSE Rest
           /\ seen' = IF waits THEN [seen EXCEPT !.asked = @ \cup {Task.stmt.id}]
                      ELSE seen
    /\ UNCHANGED program

\* collector_matches_filter; an empty filter accepts all
Matching(type, filter) ==
    {id \in DOMAIN env.virtual_resources :
        /\ id[1] = type
        /\ ~ env.virtual_resources[id].realized
        /\ filter = {} \/ env.virtual_resources[id].value \in filter}

\* <<| |>> with a database takes what other nodes exported; without one it falls
\* through to the virtual resources
CollectExported ==
    /\ Stmt("collect")
    /\ Task.stmt.exported /\ program.database
    /\ LET new == {x \in env.puppetdb : /\ x.id[1] = Task.stmt.type
                                        /\ x.certname # program.certname
                                        /\ x.id \notin env.resource_catalog}
           ids == {x.id : x \in new}
       IN  Becomes([Rest EXCEPT
             !.resource_catalog = @ \cup ids,
             !.catalog = [id \in DOMAIN @ \cup ids |->
                             IF id \in DOMAIN @ THEN @[id]
                             ELSE (CHOOSE x \in new : x.id = id).value]])

CollectVirtual ==
    /\ Stmt("collect")
    /\ ~ (Task.stmt.exported /\ program.database)
    /\ LET first == Matching(Task.stmt.type, Task.stmt.filter)
       IN  Becomes(Do(Rest, <<[do |-> "collecting", type |-> Task.stmt.type,
                               filter |-> Task.stmt.filter, first |-> first, passed |-> {}]>>))

\* One resource of the walk over the hash table, in no particular order; what is
\* declared during the walk may be met or missed
Collect ==
    /\ At("collecting")
    /\ \E id \in Matching(Task.type, Task.filter) \ Task.passed :
        LET value  == env.virtual_resources[id].value
            passed == [env EXCEPT !.todo[1].passed = @ \cup {id}]
            marked == Realized(Mark(passed, id), id)
            inside == EnterScope(marked, env.current_scope, Put(Titled(id[2]), "p", value))
        IN  CASE id \in env.resource_catalog -> Becomes(passed)
              [] id \notin env.resource_catalog /\ IsDefine(id[1]) ->
                     /\ env' = Do(inside, Each(program.defines[id[1]].body) \o <<[do |-> "leave"]>>)
                     /\ seen' = Ran(id)
                     /\ UNCHANGED program
              [] OTHER -> Becomes(puppet_catalog_add_resource(marked, id, value))

\* Mutant: the walk starts over as long as something matches
EndCollect_UntilNone ==
    /\ At("collecting")
    /\ Task.first \cap Matching(Task.type, Task.filter) \subseteq Task.passed
    /\ Becomes(IF Matching(Task.type, Task.filter) = {} THEN Rest
               ELSE [env EXCEPT !.todo[1].passed = {}])

EndCollect ==
    /\ At("collecting")
    /\ Task.first \cap Matching(Task.type, Task.filter) \subseteq Task.passed
    /\ Becomes(Rest)

\* @@type: kept here, and stored in PuppetDB under this node's name
Export ==
    /\ Stmt("export")
    /\ LET id    == Id(Task.stmt)
           value == puppet_eval_expr(env, Task.stmt.value)
       IN  Becomes([Rest EXCEPT
             !.exported_resources = Put(@, id, value),
             !.puppetdb = IF program.database
                          THEN {x \in @ : ~ (x.id = id /\ x.certname = program.certname)} \cup
                               {[certname |-> program.certname, id |-> id, value |-> value]}
                          ELSE @])

-----------------------------------------------------------------------------
(* Type['title'] { attribute => value } *)

Deferred(id) == {i \in DOMAIN env.deferred_defines : env.deferred_defines[i].id = id}

\* The entry the search from the front of the array stops at
FirstDeferred(id) == CHOOSE i \in Deferred(id) : \A j \in Deferred(id) : i <= j

\* The deferred instance, a virtual or exported resource that is not declared
\* otherwise, and the resource of the catalog
ApplyOverride(e, id, value) ==
    LET known    == id \in e.resource_catalog
        virtual  == ~ known /\ id \in DOMAIN e.virtual_resources
        exported == ~ known /\ ~ virtual /\ id \in DOMAIN e.exported_resources
    IN  [e EXCEPT
           !.deferred_defines = IF Deferred(id) = {} THEN @
                                ELSE [@ EXCEPT ![FirstDeferred(id)].override_attrs = {value}],
           !.virtual_resources = IF virtual THEN [@ EXCEPT ![id].value = value] ELSE @,
           !.exported_resources = IF exported THEN [@ EXCEPT ![id] = value] ELSE @,
           !.catalog = IF known /\ id \in DOMAIN @ THEN [@ EXCEPT ![id] = value] ELSE @]

Override ==
    /\ Stmt("override")
    /\ Task.stmt.id \in env.resource_catalog \cup DOMAIN env.virtual_resources
                        \cup DOMAIN env.exported_resources
    /\ LET value == puppet_eval_expr(env, Task.stmt.value)
       IN  /\ env' = ApplyOverride(Rest, Task.stmt.id, value)
           /\ seen' = [seen EXCEPT !.overrides = Put(@, Task.stmt.id, value)]
    /\ UNCHANGED program

OverrideUndeclared ==
    /\ Stmt("override")
    /\ Task.stmt.id \notin env.resource_catalog \cup DOMAIN env.virtual_resources
                           \cup DOMAIN env.exported_resources
    /\ Becomes(puppet_env_increment_error(Rest))

-----------------------------------------------------------------------------
Start(p) ==
    [todo |-> Each(p.top) \o <<[do |-> "deferred", saved |-> 0, cursor |-> 0]>>,
     scopes |-> <<[parent |-> 0, variables |-> <<>>, live |-> TRUE],
                  [parent |-> GlobalScope, variables |-> <<>>, live |-> TRUE]>>,
     stack |-> <<GlobalScope>>, current_scope |-> NodeScope, class_scope |-> 0,
     class_scopes |-> <<>>, class_resource_decls |-> {}, class_reexecuting |-> FALSE,
     classes |-> {}, resource_catalog |-> {}, catalog |-> <<>>,
     virtual_resources |-> <<>>, exported_resources |-> <<>>, pending_realizes |-> {},
     puppetdb |-> p.exported, deferred_defines |-> <<>>, capacity |-> Capacity,
     generation |-> 0, errors |-> 0]

Init ==
    /\ program \in Programs
    /\ env = Start(program)
    /\ seen = [bodies |-> <<>>, instances |-> <<>>, meant |-> <<>>, overrides |-> <<>>,
               given |-> <<>>, asked |-> {}]

Finished == env.todo = <<>>

Step ==
    \/ puppet_exec_assignment
    \/ ExecBranch
    \/ puppet_call_user_function
    \/ Leave
    \/ puppet_exec_include
    \/ puppet_include_class_from_def
    \/ EndClass
    \/ DeclareClassTwice
    \/ DeclareClass
    \/ ReexecuteClass
    \/ EndReexecution
    \/ DuplicateDeclaration
    \/ DeclareResource
    \/ DeclareInstance
    \/ puppet_exec_deferred_define
    \/ EndDefine
    \/ EndList
    \/ puppet_func_create_resources
    \/ Created
    \/ DeclareVirtual
    \/ RealizeVirtual
    \/ RealizeUnknown
    \/ CollectExported
    \/ CollectVirtual
    \/ Collect
    \/ EndCollect
    \/ Export
    \/ Override
    \/ OverrideUndeclared

Next == Step \/ (Finished /\ UNCHANGED vars)

Spec == Init /\ [][Next]_vars /\ WF_vars(Step)

-----------------------------------------------------------------------------
(* Properties *)

Scopes == DOMAIN env.scopes

\* The environment keeps its shape: scopes refer to earlier scopes, the catalog holds
\* only what is marked as declared, a statement list has a clean-up of its own.
TypeOK ==
    /\ \A s \in Scopes : env.scopes[s].parent < s
    /\ {env.current_scope, env.class_scope} \subseteq Scopes \cup {0}
    /\ DOMAIN env.catalog \subseteq env.resource_catalog
    /\ \A id \in DOMAIN env.virtual_resources :
          env.virtual_resources[id].realized => id \in env.resource_catalog
    /\ env.classes \subseteq DOMAIN env.class_scopes
    /\ \A i \in DOMAIN env.todo : env.todo[i].do = "deferred" =>
          env.todo[i].saved <= env.todo[i].cursor

\* A scope that exists, 0 for none
Live(s) == s = 0 \/ env.scopes[s].live

\* Waiting to be executed: no list has got to it
Waiting(i) ==
    \A t \in DOMAIN env.todo :
        env.todo[t].do = "deferred" => ~ (env.todo[t].saved < i /\ i <= env.todo[t].cursor)

\* Whatever can still be looked up from was not destroyed: the scopes on the stack,
\* those classes keep for good, those of the instances that wait to run, and the
\* scopes that these are looked up through (puppet_interpreter.c: scopes of defined
\* types and functions are destroyed when their body has run, scopes of classes
\* never are).
ScopesLive ==
    /\ \A s \in Scopes : env.scopes[s].live => Live(env.scopes[s].parent)
    /\ Live(env.current_scope) /\ Live(env.class_scope)
    /\ \A i \in DOMAIN env.stack : Live(env.stack[i])
    /\ \A class \in DOMAIN env.class_scopes : Live(env.class_scopes[class])
    /\ \A i \in DOMAIN env.deferred_defines :
          Waiting(i) => Live(env.deferred_defines[i].caller_scope)

\* Nothing is left over at the end: the scopes, the class and the mode the
\* evaluation began with are restored, no instance waits, and of the scopes
\* created on the way only those of classes are left.
Restored ==
    Finished =>
        /\ env.stack = <<GlobalScope>> /\ env.current_scope = NodeScope
        /\ env.class_scope = 0 /\ ~ env.class_reexecuting
        /\ env.deferred_defines = <<>>
        /\ {s \in Scopes : env.scopes[s].live} =
             {GlobalScope, NodeScope} \cup
             {env.class_scopes[class] : class \in DOMAIN env.class_scopes}

\* A function and a virtual instance of a defined type execute their statements one by
\* one, without a list of their own that would run the instances these declare while
\* the scope is there.  Manifests that declare none there:
DeclaresInstances(p, body) ==
    \E i \in DOMAIN body : body[i].op = "resource" /\ body[i].type \in DOMAIN p.defines

InstancesInLists ==
    \A p \in Programs :
        /\ \A function \in DOMAIN p.functions : ~ DeclaresInstances(p, p.functions[function])
        /\ \A stmt \in {s \in Stmts : s.op = "virtual"} :
              stmt.type \in DOMAIN p.defines =>
                  ~ DeclaresInstances(p, p.defines[stmt.type].body)

\* No class is entered that has a scope already: it was looked up before its parent
\* was included (puppet_interpreter.c:5619, "classes are idempotent").
EnteredOnce == At("class") => ~ Included(env, Task.class)

\* The body of an instance of a defined type runs once for each time it was
\* declared, however deep the list was that deferred it, and a class body once,
\* or twice if it was declared with a parameter after it was included.
EveryBodyRuns ==
    /\ EnteredOnce
    /\ Finished =>
        /\ \A id \in DOMAIN seen.instances : CountOf(seen.bodies, id) = seen.instances[id]
        /\ \A class \in env.classes :
              CountOf(seen.bodies, <<"class", class>>) = IF class \in DOMAIN seen.given THEN 2 ELSE 1

\* The statements of a class body that pass on its parameter
PassedOn(class) ==
    LET body == program.classes[class].body
    IN  {<<body[i].type, body[i].title[2]>> :
            i \in {j \in DOMAIN body : /\ body[j].op = "resource"
                                        /\ body[j].title[1] = "value"
                                        /\ body[j].value = <<"var", "p">>}}

\* A parameter given to a class that was included before reaches all that the
\* class declares with it, the defined types that run later included.
ParametersArrive ==
    Finished =>
        \A class \in DOMAIN seen.given :
            \A id \in PassedOn(class) \ DOMAIN seen.overrides : env.catalog[id] = seen.given[class]

\* What an override says of a resource is what the catalog says, if no class was
\* executed again since, wherever the resource was when it was overridden:
\* declared, waiting to run, virtual and realized later.
OverridesArrive ==
    (Finished /\ seen.given = <<>>) =>
        \A id \in DOMAIN seen.overrides \cap DOMAIN env.catalog :
            \/ env.catalog[id] = seen.overrides[id]
            \/ id \in DOMAIN env.virtual_resources /\ ~ env.virtual_resources[id].realized

\* A realize() that was not refused is answered in the end, also when it comes
\* before the declaration of the virtual resource.
RealizedArrive ==
    Finished =>
        \A id \in seen.asked \cap DOMAIN env.virtual_resources :
            ~ IsDefine(id[1]) => id \in DOMAIN env.catalog

\* An attribute of an instance has the value it has where the instance is
\* declared, though it is evaluated when the statements that follow have run
\* (puppet_deferred_define_t.caller_scope, puppet_interpreter.h:145-150).
CallerValues ==
    Finished =>
        \A id \in DOMAIN seen.meant \ DOMAIN seen.overrides : env.catalog[id] = seen.meant[id]

\* Once in the catalog a resource changes only by an override, or because its
\* class is executed again: no second way to declare it replaces the first.
FirstDeclarationStands ==
    [][\A id \in DOMAIN env.catalog :
          env'.catalog[id] # env.catalog[id] =>
              \/ env.class_reexecuting
              \/ Stmt("override") /\ Task.stmt.id = id]_vars

\* Evaluation ends, whichever classes include each other.
Terminates == <>Finished

\* The scopes that can still be looked up from exist, and the evaluation ends with
\* those it began with.
ScopesKept == TypeOK /\ ScopesLive /\ Restored

\* What the manifests say of a resource is what the catalog says: parameters given
\* late, overrides, realizations, and values of the caller's scope.
ValuesArrive ==
    ParametersArrive /\ OverridesArrive /\ RealizedArrive /\ CallerValues
=============================================================================
