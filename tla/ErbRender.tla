----------------------------- MODULE ErbRender -----------------------------
(***************************************************************************)
(* puppet_erb_render() (compiler/puppet_erb.c) as called concurrently by   *)
(* the threads that compile catalogs: the native engine with its shared    *)
(* cache of parsed templates (compiler/puppet_erb_native.c), and the queue *)
(* to the one thread that owns the Ruby interpreter.                       *)
(*                                                                         *)
(* Every critical section is one step; pthread_cond_wait is modelled by a  *)
(* blocked state that a signal, or nothing at all, may end.  A request is  *)
(* a variable on the stack of the worker that sent it, so a worker stands  *)
(* for its request in the queue.                                           *)
(***************************************************************************)
EXTENDS Naturals, Sequences

CONSTANTS
    Workers,     \* threads that compile catalogs
    Names,       \* template_name: a path, or "inline_template"
    ContentsOf,  \* the texts a template of a given name may have
    Native,      \* texts build_ast can parse
    Deprecated,  \* texts with a construct the erb_warn_* checks report
    Unset,       \* texts that read an @variable their caller may not have set
    Disabled,    \* "[ERB rendering disabled]"
    Failed,      \* NULL in place of a rendered text
    Nothing,     \* NULL in place of a tree, a cache entry or a request
    Unsupported, \* a cache entry with its unsupported flag set
    MaxCalls     \* bound: templates each worker renders

Templates == UNION {ContentsOf[n] : n \in Names}

\* Parsed trees, told apart by the order in which they were allocated, what a
\* worker asks for, and rendered texts.
Asts  == [id : Nat, content : Templates]
Jobs  == [name : Names, content : Templates]
Texts == [content : Templates, scopes : SUBSET Workers]

ASSUME MaxCallsAssumption == MaxCalls \in Nat
ASSUME NullAssumption ==
    /\ Nothing \notin Workers \cup Templates \cup Asts
    /\ Unsupported \notin Asts \cup {Nothing}
    /\ Failed \notin Texts \cup {Disabled}
    /\ Disabled \notin Texts

VARIABLES
    skip_erb, strict_erb,  \* options of the program state
    pc,                    \* where a worker is in puppet_erb_render
    calls,                 \* templates a worker has asked for
    job,                   \* name and text of the template it renders
    reply,                 \* what puppet_erb_render last returned to it
    errors,                \* error counter of its environment
    g_cache,               \* native cache: name -> parsed tree
    ast,                   \* the tree a worker holds
    from_cache,            \* the cache owns that tree
    allocated,             \* number of trees build_ast has made
    freed,                 \* trees given back by ast_free
    ruby_daemon_started, ruby_daemon_failed,
    daemon,                \* where the Ruby thread is
    queue,                 \* requests, oldest first
    current,               \* the request the Ruby thread works on
    rendered,              \* its result
    request,               \* result and done of a worker's request
    puppet_vars,           \* workers whose scopes are in the global $puppet_vars
    main_ivars,            \* workers whose scopes are in Ruby's main object
    puppet_erb_cache       \* the Ruby global: name -> compiled text

optVars    == <<skip_erb, strict_erb>>
callVars   == <<calls, job, reply, errors>>
nativeVars == <<g_cache, ast, from_cache, allocated, freed>>
flagVars   == <<ruby_daemon_started, ruby_daemon_failed>>
rubyVars   == <<current, rendered, puppet_vars, main_ivars, puppet_erb_cache>>
vars == <<optVars, pc, callVars, nativeVars, flagVars, daemon, queue, request, rubyVars>>

Rendering(content, scopes) == [content |-> content, scopes |-> scopes]

Goto(w, label) == pc' = [pc EXCEPT ![w] = label]

Init ==
    /\ skip_erb \in BOOLEAN
    /\ strict_erb \in BOOLEAN
    /\ pc = [w \in Workers |-> "idle"]
    /\ calls = [w \in Workers |-> 0]
    /\ job = [w \in Workers |-> Failed]
    /\ reply = [w \in Workers |-> Failed]
    /\ errors = [w \in Workers |-> 0]
    /\ g_cache = [n \in Names |-> Nothing]
    /\ ast = [w \in Workers |-> Nothing]
    /\ from_cache = [w \in Workers |-> FALSE]
    /\ allocated = 0
    /\ freed = {}
    /\ ruby_daemon_started = FALSE
    /\ ruby_daemon_failed = FALSE
    /\ daemon = "none"
    /\ queue = <<>>
    /\ current = Nothing
    /\ rendered = Failed
    /\ request = [w \in Workers |-> [result |-> Failed, done |-> FALSE]]
    /\ puppet_vars = {}
    /\ main_ivars = {}
    /\ puppet_erb_cache = [n \in Names |-> Nothing]
-----------------------------------------------------------------------------
(* The worker, from the call to the return of the native engine.           *)

\* template() reads a file, inline_template() has the text at hand; the checks
\* for removed constructs report before anything is rendered.
Call(w) ==
    /\ pc[w] = "idle"
    /\ calls[w] < MaxCalls
    /\ calls' = [calls EXCEPT ![w] = @ + 1]
    /\ \E n \in Names : \E t \in ContentsOf[n] :
          /\ job' = [job EXCEPT ![w] = [name |-> n, content |-> t]]
          /\ errors' = [errors EXCEPT ![w] =
                          IF strict_erb /\ ~skip_erb /\ t \in Deprecated THEN @ + 1 ELSE @]
    /\ Goto(w, IF skip_erb THEN "skip" ELSE "lookup")
    /\ UNCHANGED <<optVars, reply, nativeVars, flagVars, daemon, queue, request, rubyVars>>

\* The result goes back to the caller; NULL counts as an error.
Finish(w, result) ==
    /\ reply' = [reply EXCEPT ![w] = result]
    /\ errors' = [errors EXCEPT ![w] = IF result = Failed THEN @ + 1 ELSE @]
    /\ Goto(w, "idle")
    /\ UNCHANGED <<calls, job>>

ReturnDisabled(w) ==
    /\ pc[w] = "skip"
    /\ Finish(w, Disabled)
    /\ UNCHANGED <<optVars, nativeVars, flagVars, daemon, queue, request, rubyVars>>

\* First critical section of puppet_erb_native_render.
LookupAst(w) ==
    LET entry == g_cache[job[w].name]
    IN  /\ pc[w] = "lookup"
        /\ Goto(w, CASE entry = Unsupported -> "daemon"
                     [] entry = Nothing     -> "build"
                     [] OTHER               -> "render")
        /\ ast' = [ast EXCEPT ![w] = IF entry = Unsupported THEN Nothing ELSE entry]
        /\ from_cache' = [from_cache EXCEPT ![w] = entry \notin {Nothing, Unsupported}]
        /\ UNCHANGED <<optVars, callVars, g_cache, allocated, freed, flagVars, daemon,
                       queue, request, rubyVars>>

\* build_ast, outside the lock; NULL when the text is outside the subset.
build_ast(w) ==
    /\ pc[w] = "build"
    /\ IF job[w].content \in Native
       THEN /\ ast' = [ast EXCEPT ![w] = [id |-> allocated, content |-> job[w].content]]
            /\ allocated' = allocated + 1
       ELSE UNCHANGED <<ast, allocated>>
    /\ Goto(w, "insert")
    /\ UNCHANGED <<optVars, callVars, g_cache, from_cache, freed, flagVars, daemon, queue,
                   request, rubyVars>>

\* Second critical section: insert unless another thread was faster, in which
\* case the tree remains the worker's own.
InsertAst(w) ==
    /\ pc[w] = "insert"
    /\ IF g_cache[job[w].name] = Nothing
       THEN /\ g_cache' = [g_cache EXCEPT ![job[w].name] =
                              IF ast[w] = Nothing THEN Unsupported ELSE ast[w]]
            /\ from_cache' = [from_cache EXCEPT ![w] = TRUE]
       ELSE UNCHANGED <<g_cache, from_cache>>
    /\ Goto(w, IF ast[w] = Nothing THEN "daemon" ELSE "render")
    /\ UNCHANGED <<optVars, callVars, ast, allocated, freed, flagVars, daemon, queue, request,
                   rubyVars>>

\* Render the tree with the worker's own scope; a variable it cannot resolve
\* or print sends the template to Ruby after all.
RenderNative(w) ==
    /\ pc[w] = "render"
    /\ freed' = IF from_cache[w] THEN freed ELSE freed \cup {ast[w].id}
    /\ ast' = [ast EXCEPT ![w] = Nothing]
    /\ \/ Finish(w, Rendering(ast[w].content, {w}))
       \/ Goto(w, "daemon") /\ UNCHANGED callVars
    /\ UNCHANGED <<optVars, g_cache, from_cache, allocated, flagVars, daemon, queue, request,
                   rubyVars>>
-----------------------------------------------------------------------------
(* The worker, ruby_daemon_render.                                         *)

\* The first worker to get here starts the Ruby thread; pthread_create may
\* fail, once and for all.
ensure_ruby_daemon(w) ==
    /\ pc[w] = "daemon"
    /\ \/ /\ ruby_daemon_started \/ ruby_daemon_failed
          /\ UNCHANGED <<flagVars, daemon>>
       \/ /\ ~(ruby_daemon_started \/ ruby_daemon_failed)
          /\ ruby_daemon_started' = TRUE
          /\ daemon' = "boot"
          /\ UNCHANGED ruby_daemon_failed
       \/ /\ ~(ruby_daemon_started \/ ruby_daemon_failed)
          /\ ruby_daemon_failed' = TRUE
          /\ UNCHANGED <<ruby_daemon_started, daemon>>
    /\ Goto(w, "check")
    /\ UNCHANGED <<optVars, callVars, nativeVars, queue, request, rubyVars>>

CheckFailed(w) ==
    /\ pc[w] = "check"
    /\ \/ /\ ruby_daemon_failed
          /\ Finish(w, Failed)
          /\ UNCHANGED request
       \/ /\ ~ruby_daemon_failed
          /\ request' = [request EXCEPT ![w] = [result |-> Failed, done |-> FALSE]]
          /\ Goto(w, "enqueue")
          /\ UNCHANGED callVars
    /\ UNCHANGED <<optVars, nativeVars, flagVars, daemon, queue, rubyVars>>

\* Mutant: the Ruby thread is not told of the request.
Enqueue_NoSignal(w) ==
    /\ pc[w] = "enqueue"
    /\ queue' = Append(queue, w)
    /\ Goto(w, "wait")
    /\ UNCHANGED <<optVars, callVars, nativeVars, flagVars, daemon, request, rubyVars>>

Enqueue(w) ==
    /\ pc[w] = "enqueue"
    /\ queue' = Append(queue, w)
    /\ daemon' = IF daemon = "asleep" THEN "test" ELSE daemon
    /\ Goto(w, "wait")
    /\ UNCHANGED <<optVars, callVars, nativeVars, flagVars, request, rubyVars>>

\* Mutant: waking up is taken for an answer ("if" in place of "while").
AwaitReply_Once(w) ==
    \/ /\ pc[w] = "wait" /\ ~request[w].done
       /\ Goto(w, "blocked")
       /\ UNCHANGED <<optVars, callVars, nativeVars, flagVars, daemon, queue, request, rubyVars>>
    \/ /\ pc[w] = "blocked" \/ (pc[w] = "wait" /\ request[w].done)
       /\ Finish(w, request[w].result)
       /\ UNCHANGED <<optVars, nativeVars, flagVars, daemon, queue, request, rubyVars>>

\* Under the request's mutex: return the result, or wait for the signal.
AwaitReply(w) ==
    /\ pc[w] = "wait"
    /\ \/ /\ request[w].done
          /\ Finish(w, request[w].result)
       \/ /\ ~request[w].done
          /\ Goto(w, "blocked")
          /\ UNCHANGED callVars
    /\ UNCHANGED <<optVars, nativeVars, flagVars, daemon, queue, request, rubyVars>>
-----------------------------------------------------------------------------
(* The Ruby thread, ruby_daemon_loop.                                      *)

\* puppet_ruby_init.
BootRuby ==
    /\ daemon = "boot"
    /\ daemon' = "test"
    /\ UNCHANGED <<optVars, pc, callVars, nativeVars, flagVars, queue, request, rubyVars>>

\* Under queue_mu: take the oldest request, or wait for a signal.
Take ==
    /\ daemon = "test"
    /\ \/ /\ queue = <<>>
          /\ daemon' = "asleep"
          /\ UNCHANGED <<queue, current>>
       \/ /\ queue # <<>>
          /\ daemon' = "render"
          /\ current' = Head(queue)
          /\ queue' = Tail(queue)
    /\ UNCHANGED <<optVars, pc, callVars, nativeVars, flagVars, request, rendered, puppet_vars,
                   main_ivars, puppet_erb_cache>>

\* Mutant: the variables of the previous caller are not cleared.
RenderRuby_KeepsVars ==
    /\ daemon = "render"
    /\ puppet_vars' = puppet_vars \cup {current}
    /\ rendered' = Rendering(job[current].content, puppet_vars')
    /\ daemon' = "answer"
    /\ UNCHANGED <<optVars, pc, callVars, nativeVars, flagVars, queue, request, current,
                   main_ivars, puppet_erb_cache>>

\* ruby_render_in_daemon: clear $puppet_vars, export the caller's variables to
\* it and to the main object, compile the template unless a template of that
\* name has been compiled, and evaluate it.  The main object is never cleared:
\* an @variable the caller did not set has whatever value it was given last.
\* Ruby may raise while compiling or while evaluating.
RenderRuby ==
    LET n    == job[current].name
        code == IF puppet_erb_cache[n] = Nothing THEN job[current].content
                                                 ELSE puppet_erb_cache[n]
    IN  /\ daemon = "render"
        /\ puppet_vars' = {current}
        /\ main_ivars' = main_ivars \cup {current}
        /\ \/ /\ rendered' = Failed
              /\ UNCHANGED puppet_erb_cache
           \/ /\ rendered' \in {Failed, Rendering(code, IF code \in Unset THEN main_ivars'
                                                                       ELSE puppet_vars')}
              /\ puppet_erb_cache' = [puppet_erb_cache EXCEPT ![n] = code]
        /\ daemon' = "answer"
        /\ UNCHANGED <<optVars, pc, callVars, nativeVars, flagVars, queue, request, current>>

\* Under the request's mutex: store the result and signal the worker, which
\* may return, and take the request off its stack, as soon as this is over.
Reply ==
    /\ daemon = "answer"
    /\ request' = [request EXCEPT ![current] = [result |-> rendered, done |-> TRUE]]
    /\ pc' = [pc EXCEPT ![current] = IF @ = "blocked" THEN "wait" ELSE @]
    /\ current' = Nothing
    /\ daemon' = "test"
    /\ UNCHANGED <<optVars, callVars, nativeVars, flagVars, queue, rendered, puppet_vars,
                   main_ivars, puppet_erb_cache>>

\* pthread_cond_wait may return without a signal.
SpuriousWakeup ==
    /\ \/ /\ daemon = "asleep"
          /\ daemon' = "test"
          /\ UNCHANGED pc
       \/ \E w \in Workers :
             /\ pc[w] = "blocked"
             /\ Goto(w, "wait")
             /\ UNCHANGED daemon
    /\ UNCHANGED <<optVars, callVars, nativeVars, flagVars, queue, request, rubyVars>>

Worker(w) ==
    \/ ReturnDisabled(w) \/ LookupAst(w) \/ build_ast(w) \/ InsertAst(w) \/ RenderNative(w)
    \/ ensure_ruby_daemon(w) \/ CheckFailed(w) \/ Enqueue(w) \/ AwaitReply(w)

Daemon == BootRuby \/ Take \/ RenderRuby \/ Reply

Next == (\E w \in Workers : Call(w) \/ Worker(w)) \/ Daemon \/ SpuriousWakeup

\* The operating system runs every thread that can run.  Nobody has to call,
\* and nothing has to wake up without a signal.
Fairness == WF_vars(Daemon) /\ \A w \in Workers : WF_vars(Worker(w))

Spec == Init /\ [][Next]_vars /\ Fairness
-----------------------------------------------------------------------------
(* Properties.                                                             *)

Labels == {"idle", "skip", "lookup", "build", "insert", "render", "daemon", "check",
           "enqueue", "wait", "blocked"}

\* Every variable of the renderer keeps its type.
TypeOK ==
    /\ skip_erb \in BOOLEAN /\ strict_erb \in BOOLEAN
    /\ pc \in [Workers -> Labels]
    /\ calls \in [Workers -> 0..MaxCalls]
    /\ job \in [Workers -> Jobs \cup {Failed}]
    /\ reply \in [Workers -> Texts \cup {Disabled, Failed}]
    /\ errors \in [Workers -> Nat]
    /\ g_cache \in [Names -> Asts \cup {Nothing, Unsupported}]
    /\ ast \in [Workers -> Asts \cup {Nothing}]
    /\ from_cache \in [Workers -> BOOLEAN]
    /\ allocated \in Nat
    /\ freed \in SUBSET Nat
    /\ ruby_daemon_started \in BOOLEAN /\ ruby_daemon_failed \in BOOLEAN
    /\ daemon \in {"none", "boot", "test", "asleep", "render", "answer"}
    /\ queue \in Seq(Workers)
    /\ current \in Workers \cup {Nothing}
    /\ rendered \in Texts \cup {Failed}
    /\ request \in [Workers -> [result : Texts \cup {Failed}, done : BOOLEAN]]
    /\ puppet_vars \in SUBSET Workers /\ main_ivars \in SUBSET Workers
    /\ puppet_erb_cache \in [Names -> Templates \cup {Nothing}]

\* The Ruby thread never reaches a request through the queue, or works on one,
\* whose worker has returned and taken the request off its stack, and no
\* request is linked into the queue twice.
Pending(w) == w = current \/ \E k \in DOMAIN queue : queue[k] = w
RequestsAlive ==
    /\ \A w \in Workers : Pending(w) => pc[w] \in {"wait", "blocked"} /\ ~request[w].done
    /\ \A j, k \in DOMAIN queue : queue[j] = queue[k] => j = k
    /\ \A k \in DOMAIN queue : queue[k] # current

Cached == {n \in Names : g_cache[n] \notin {Nothing, Unsupported}}

\* A tree that a worker renders or the cache keeps has not been freed, and no
\* two workers own the same tree: ast_free is never called on a tree in use.
TreesAlive ==
    /\ \A w \in Workers : ast[w] # Nothing => ast[w].id \notin freed
    /\ \A n \in Cached : g_cache[n].id \notin freed
    /\ \A v, w \in Workers : ast[v] # Nothing /\ ast[w] # Nothing /\ ast[v].id = ast[w].id =>
          v = w \/ (from_cache[v] /\ from_cache[w])

\* No tree is lost: what build_ast made is freed, cached, or in the hands of a
\* worker that owns it.
NoTreeLeaked ==
    \A i \in 0..(allocated - 1) :
        \/ i \in freed
        \/ \E n \in Cached : g_cache[n].id = i
        \/ \E w \in Workers : ast[w] # Nothing /\ ast[w].id = i /\ ~from_cache[w]

\* When template names stand for one text each and templates read what their
\* caller has set, a template is rendered from its own text with the variables
\* of the worker that asked, or counted as an error, whatever the other
\* workers do: puppet_erb_render does what RenderService promises.
Service == INSTANCE RenderService WITH busy <- {w \in Workers : pc[w] # "idle"}
Implements == Service!Spec

\* Every call of puppet_erb_render returns.
EveryCallReturns == \A w \in Workers : pc[w] # "idle" ~> pc[w] = "idle"

\* Requests on the stacks of workers and trees of the shared cache are used only
\* while they live, and each tree is owned (puppet_erb_render and its daemon).
MemorySafe == TypeOK /\ RequestsAlive /\ TreesAlive /\ NoTreeLeaked
=============================================================================
