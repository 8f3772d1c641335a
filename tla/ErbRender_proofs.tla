-------------------------- MODULE ErbRender_proofs --------------------------
(***************************************************************************)
(* Proofs about ErbRender, for any number of workers, templates and calls. *)
(* Three arguments are independent of each other: a request is in the      *)
(* queue or in the hands of the Ruby thread only while its worker waits    *)
(* for it; each parsed tree has one owner, the cache or one worker; and,   *)
(* when a name stands for one text, whatever is cached under a name was    *)
(* made from that text.                                                    *)
(***************************************************************************)
EXTENDS ErbRender, TLAPS, SequenceTheorems

\* Where a worker is says what it has asked for and what it holds.
ControlInv ==
    \A w \in Workers :
        /\ pc[w] # "idle" => job[w] \in Jobs
        /\ ast[w] # Nothing => pc[w] \in {"insert", "render"}
        /\ pc[w] = "render" => ast[w] # Nothing
        /\ pc[w] \in {"build", "insert"} => ~from_cache[w]
        /\ pc[w] = "enqueue" => ~request[w].done

\* The Ruby thread has a request at hand exactly while it works on one, and it
\* is started once.
DaemonInv ==
    /\ current # Nothing <=> daemon \in {"render", "answer"}
    /\ ruby_daemon_started <=> daemon # "none"

\* The cache owns a tree of that name, a worker its own: no tree has two
\* owners, and only trees that were allocated exist.
OwnerInv ==
    /\ \A i \in freed : i < allocated
    /\ \A n \in Cached : g_cache[n].id < allocated
    /\ \A w \in Workers : ast[w] # Nothing =>
          /\ ast[w].id < allocated
          /\ from_cache[w] => \E n \in Cached : g_cache[n] = ast[w]
          /\ ~from_cache[w] =>
                /\ \A n \in Cached : g_cache[n].id # ast[w].id
                /\ \A v \in Workers : ast[v] # Nothing /\ ast[v].id = ast[w].id => v = w

IndInv == MemorySafe /\ ControlInv /\ DaemonInv /\ OwnerInv

\* Templates are files that keep their text, and read only variables their
\* caller has set: two texts under the name "inline_template", or an @variable
\* left over from another caller, break what follows.
TemplatesAreFiles ==
    /\ \A n \in Names : \A s, t \in ContentsOf[n] : s = t
    /\ \A t \in Templates : t \notin Unset

\* When the text of a template is a matter of its name, all trees, compiled
\* texts and results made under a name are made from its text, and a result is
\* made with the variables of the worker that waits for it.
TextInv ==
    /\ \A w \in Workers :
        /\ pc[w] # "idle" => job[w].content \in ContentsOf[job[w].name]
        /\ pc[w] = "skip" => skip_erb
        /\ pc[w] \notin {"idle", "skip"} => ~skip_erb
        /\ ast[w] # Nothing => ast[w].content = job[w].content
        /\ pc[w] \in {"wait", "blocked"} /\ request[w].done =>
              request[w].result \in {Failed, Rendering(job[w].content, {w})}
    /\ \A n \in Cached : g_cache[n].content \in ContentsOf[n]
    /\ \A n \in Names : puppet_erb_cache[n] # Nothing => puppet_erb_cache[n] \in ContentsOf[n]
    /\ daemon = "answer" => rendered \in {Failed, Rendering(job[current].content, {current})}
-----------------------------------------------------------------------------
(* Types.                                                                  *)

\* A text rendered from a template with some workers' variables.
LEMMA RenderingType ==
    ASSUME NEW c \in Templates, NEW s \in SUBSET Workers
    PROVE  Rendering(c, s) \in Texts
  BY DEF Rendering, Texts

\* What a worker gets back has the type of a reply.
LEMMA FinishType ==
    ASSUME TypeOK, NEW w \in Workers, NEW result \in Texts \cup {Disabled, Failed},
           Finish(w, result)
    PROVE  /\ pc' = [pc EXCEPT ![w] = "idle"] /\ pc' \in [Workers -> Labels]
           /\ reply' \in [Workers -> Texts \cup {Disabled, Failed}]
           /\ errors' \in [Workers -> Nat]
           /\ calls' = calls /\ job' = job
  BY DEF Finish, Goto, TypeOK, Labels

\* Every step of a worker keeps the types.
LEMMA WorkerType ==
    ASSUME IndInv, NEW w \in Workers, Call(w) \/ Worker(w)
    PROVE  TypeOK'
<1> USE DEF TypeOK
<1>0. TypeOK /\ ControlInv
  BY DEF IndInv, MemorySafe
<1>1. CASE Call(w)
  <2>1. PICK n \in Names : \E t \in ContentsOf[n] :
           job' = [job EXCEPT ![w] = [name |-> n, content |-> t]]
    BY <1>1 DEF Call
  <2>2. PICK t \in ContentsOf[n] : job' = [job EXCEPT ![w] = [name |-> n, content |-> t]]
    BY <2>1
  <2>3. [name |-> n, content |-> t] \in Jobs
    BY DEF Jobs, Templates
  <2>4. job' \in [Workers -> Jobs \cup {Failed}]
    BY <1>0, <2>2, <2>3
  <2>5. errors' \in [Workers -> Nat]
    BY <1>0, <1>1 DEF Call
  <2>6. calls' \in [Workers -> 0..MaxCalls]
    BY <1>0, <1>1, MaxCallsAssumption DEF Call
  <2>7. pc' \in [Workers -> Labels]
    BY <1>0, <1>1 DEF Call, Goto, Labels
  <2> QED
    BY <1>0, <1>1, <2>4, <2>5, <2>6, <2>7 DEF Call, optVars, nativeVars, flagVars, rubyVars
<1>2. CASE ReturnDisabled(w)
  BY <1>0, <1>2, FinishType
     DEF ReturnDisabled, optVars, nativeVars, flagVars, rubyVars
<1>3. CASE LookupAst(w)
  <2> DEFINE entry == g_cache[job[w].name]
  <2>1. job[w].name \in Names
    BY <1>0, <1>3 DEF LookupAst, ControlInv, Jobs
  <2>2. entry \in Asts \cup {Nothing, Unsupported}
    BY <1>0, <2>1
  <2>3. pc' \in [Workers -> Labels]
    BY <1>0, <1>3 DEF LookupAst, Goto, Labels
  <2>4. ast' \in [Workers -> Asts \cup {Nothing}] /\ from_cache' \in [Workers -> BOOLEAN]
    BY <1>0, <1>3, <2>2 DEF LookupAst
  <2> QED
    BY <1>0, <1>3, <2>3, <2>4 DEF LookupAst, optVars, callVars, flagVars, rubyVars
<1>4. CASE build_ast(w)
  <2>1. job[w].content \in Templates
    BY <1>0, <1>4 DEF build_ast, ControlInv, Jobs
  <2>2. [id |-> allocated, content |-> job[w].content] \in Asts
    BY <1>0, <2>1 DEF Asts
  <2>3. ast' \in [Workers -> Asts \cup {Nothing}] /\ allocated' \in Nat
    <3> DEFINE tree == [id |-> allocated, content |-> job[w].content]
    <3>1. \/ ast' = [ast EXCEPT ![w] = tree] /\ allocated' = allocated + 1
          \/ ast' = ast /\ allocated' = allocated
      BY <1>4 DEF build_ast
    <3>2. tree \in Asts
      BY <2>2
    <3> HIDE DEF tree
    <3>3. ast' \in [Workers -> Asts \cup {Nothing}]
      <4>1. ast \in [Workers -> Asts \cup {Nothing}]
        BY <1>0
      <4>2. ast' = ast \/ ast' = [ast EXCEPT ![w] = tree]
        BY <3>1
      <4> HIDE DEF TypeOK
      <4> QED
        BY <3>2, <4>1, <4>2
    <3>4. allocated' \in Nat
      BY <1>0, <3>1
    <3> QED
      BY <3>3, <3>4
  <2>4. pc' \in [Workers -> Labels]
    BY <1>0, <1>4 DEF build_ast, Goto, Labels
  <2> QED
    BY <1>0, <1>4, <2>3, <2>4 DEF build_ast, optVars, callVars, flagVars, rubyVars
<1>5. CASE InsertAst(w)
  <2>1. pc' \in [Workers -> Labels]
    BY <1>0, <1>5 DEF InsertAst, Goto, Labels
  <2>2. g_cache' \in [Names -> Asts \cup {Nothing, Unsupported}] /\ from_cache' \in [Workers -> BOOLEAN]
    BY <1>0, <1>5 DEF InsertAst
  <2> QED
    BY <1>0, <1>5, <2>1, <2>2 DEF InsertAst, optVars, callVars, flagVars, rubyVars
<1>6. CASE RenderNative(w)
  <2>1. ast[w] \in Asts
    BY <1>0, <1>6 DEF RenderNative, ControlInv
  <2>2. ast[w].id \in Nat /\ Rendering(ast[w].content, {w}) \in Texts
    BY <2>1, RenderingType DEF Asts
  <2>3. freed' \in SUBSET Nat /\ ast' \in [Workers -> Asts \cup {Nothing}]
    BY <1>0, <1>6, <2>2 DEF RenderNative
  <2>4. /\ pc' \in [Workers -> Labels]
        /\ reply' \in [Workers -> Texts \cup {Disabled, Failed}]
        /\ errors' \in [Workers -> Nat]
        /\ calls' = calls /\ job' = job
    <3>1. CASE Finish(w, Rendering(ast[w].content, {w}))
      BY <1>0, <2>2, <3>1, FinishType
    <3>2. CASE Goto(w, "daemon") /\ UNCHANGED callVars
      BY <1>0, <3>2 DEF Goto, Labels, callVars
    <3> QED
      BY <1>6, <3>1, <3>2 DEF RenderNative
  <2> QED
    BY <1>0, <1>6, <2>3, <2>4 DEF RenderNative, optVars, flagVars, rubyVars
<1>7. CASE ensure_ruby_daemon(w)
  <2>1. pc' \in [Workers -> Labels]
    BY <1>0, <1>7 DEF ensure_ruby_daemon, Goto, Labels
  <2> QED
    BY <1>0, <1>7, <2>1 DEF ensure_ruby_daemon, optVars, callVars, nativeVars, flagVars, rubyVars
<1>8. CASE CheckFailed(w)
  <2>1. /\ pc' \in [Workers -> Labels]
        /\ reply' \in [Workers -> Texts \cup {Disabled, Failed}]
        /\ errors' \in [Workers -> Nat]
        /\ calls' = calls /\ job' = job
        /\ request' \in [Workers -> [result : Texts \cup {Failed}, done : BOOLEAN]]
    <3>1. CASE Finish(w, Failed) /\ UNCHANGED request
      BY <1>0, <3>1, FinishType
    <3>2. CASE /\ request' = [request EXCEPT ![w] = [result |-> Failed, done |-> FALSE]]
               /\ Goto(w, "enqueue")
               /\ UNCHANGED callVars
      BY <1>0, <3>2 DEF Goto, Labels, callVars
    <3> QED
      BY <1>8, <3>1, <3>2 DEF CheckFailed
  <2> QED
    BY <1>0, <1>8, <2>1 DEF CheckFailed, optVars, nativeVars, flagVars, rubyVars
<1>9. CASE Enqueue(w)
  <2>1. pc' \in [Workers -> Labels] /\ queue' \in Seq(Workers)
    BY <1>0, <1>9 DEF Enqueue, Goto, Labels
  <2> QED
    BY <1>0, <1>9, <2>1 DEF Enqueue, optVars, callVars, nativeVars, flagVars, rubyVars
<1>10. CASE AwaitReply(w)
  <2>1. request[w].result \in Texts \cup {Failed}
    BY <1>0
  <2>2. /\ pc' \in [Workers -> Labels]
        /\ reply' \in [Workers -> Texts \cup {Disabled, Failed}]
        /\ errors' \in [Workers -> Nat]
        /\ calls' = calls /\ job' = job
    <3>1. CASE Finish(w, request[w].result)
      BY <1>0, <2>1, <3>1, FinishType
    <3>2. CASE Goto(w, "blocked") /\ UNCHANGED callVars
      BY <1>0, <3>2 DEF Goto, Labels, callVars
    <3> QED
      BY <1>10, <3>1, <3>2 DEF AwaitReply
  <2> QED
    BY <1>0, <1>10, <2>2 DEF AwaitReply, optVars, nativeVars, flagVars, rubyVars
<1> QED
  BY <1>1, <1>2, <1>3, <1>4, <1>5, <1>6, <1>7, <1>8, <1>9, <1>10 DEF Worker

\* So does every step of the Ruby thread.
LEMMA DaemonType ==
    ASSUME IndInv, Daemon \/ SpuriousWakeup
    PROVE  TypeOK'
<1> USE DEF TypeOK
<1>0. TypeOK /\ ControlInv /\ DaemonInv /\ RequestsAlive
  BY DEF IndInv, MemorySafe
<1>1. CASE BootRuby
  BY <1>0, <1>1 DEF BootRuby, optVars, callVars, nativeVars, flagVars, rubyVars
<1>2. CASE Take
  <2>1. queue' \in Seq(Workers) /\ current' \in Workers \cup {Nothing}
    <3>1. CASE queue = <<>>
      BY <1>0, <1>2, <3>1 DEF Take
    <3>2. CASE queue # <<>>
      <4>1. Head(queue) \in Workers /\ Tail(queue) \in Seq(Workers)
        BY <1>0, <3>2, HeadTailProperties
      <4> QED
        BY <1>0, <1>2, <3>2, <4>1 DEF Take
    <3> QED
      BY <3>1, <3>2
  <2>2. daemon' \in {"asleep", "render"}
    BY <1>2 DEF Take
  <2> QED
    BY <1>0, <1>2, <2>1, <2>2 DEF Take, optVars, callVars, nativeVars, flagVars
<1>3. CASE RenderRuby
  <2> DEFINE n == job[current].name
             code == IF puppet_erb_cache[n] = Nothing THEN job[current].content
                                                      ELSE puppet_erb_cache[n]
  <2>1. current \in Workers
    BY <1>0, <1>3 DEF RenderRuby, DaemonInv
  <2>2. job[current] \in Jobs
    BY <1>0, <2>1 DEF RequestsAlive, Pending, ControlInv
  <2>3. n \in Names /\ job[current].content \in Templates
    BY <2>2 DEF Jobs
  <2>4. code \in Templates
    BY <1>0, <2>3
  <2>5. puppet_vars' \in SUBSET Workers /\ main_ivars' \in SUBSET Workers
    BY <1>0, <1>3, <2>1 DEF RenderRuby
  <2> DEFINE text == Rendering(code, IF code \in Unset THEN main_ivars' ELSE puppet_vars')
  <2>6. text \in Texts
    BY <2>4, <2>5, RenderingType
  <2>7. /\ rendered' \in {Failed, text}
        /\ puppet_erb_cache' \in {puppet_erb_cache, [puppet_erb_cache EXCEPT ![n] = code]}
    BY <1>3 DEF RenderRuby
  <2> HIDE DEF text, n, code
  <2>8. rendered' \in Texts \cup {Failed}
    BY <2>6, <2>7
  <2>9. puppet_erb_cache' \in [Names -> Templates \cup {Nothing}]
    BY <1>0, <2>3, <2>4, <2>7
  <2> QED
    BY <1>0, <1>3, <2>5, <2>8, <2>9 DEF RenderRuby, optVars, callVars, nativeVars, flagVars
<1>4. CASE Reply
  <2>1. pc' \in [Workers -> Labels]
    BY <1>0, <1>4 DEF Reply, Labels
  <2>2. request' \in [Workers -> [result : Texts \cup {Failed}, done : BOOLEAN]]
    BY <1>0, <1>4 DEF Reply
  <2> QED
    BY <1>0, <1>4, <2>1, <2>2 DEF Reply, optVars, callVars, nativeVars, flagVars
<1>5. CASE SpuriousWakeup
  <2>1. pc' \in [Workers -> Labels]
    BY <1>0, <1>5 DEF SpuriousWakeup, Goto, Labels
  <2> QED
    BY <1>0, <1>5, <2>1 DEF SpuriousWakeup, optVars, callVars, nativeVars, flagVars, rubyVars
<1> QED
  BY <1>1, <1>2, <1>3, <1>4, <1>5 DEF Daemon
-----------------------------------------------------------------------------
(* Requests.                                                               *)

\* Where a step of a worker leaves it, and what it leaves to itself.
LEMMA WorkerFrame ==
    ASSUME TypeOK, NEW w \in Workers, Call(w) \/ Worker(w)
    PROVE  /\ pc' = [pc EXCEPT ![w] = pc'[w]]
           /\ current' = current
           /\ Enqueue(w) \/ queue' = queue
           /\ ensure_ruby_daemon(w) \/ flagVars' = flagVars
           /\ Enqueue(w) \/ ensure_ruby_daemon(w) \/ daemon' = daemon
           /\ \A v \in Workers : v # w => /\ pc'[v] = pc[v]
                                          /\ request'[v] = request[v]
                                          /\ job'[v] = job[v]
                                          /\ ast'[v] = ast[v]
                                          /\ from_cache'[v] = from_cache[v]
                                          /\ reply'[v] = reply[v]
                                          /\ errors'[v] = errors[v]
<1>1. pc' = [pc EXCEPT ![w] = pc'[w]]
  BY DEF TypeOK, Worker, Call, ReturnDisabled, LookupAst, build_ast, InsertAst, RenderNative,
         ensure_ruby_daemon, CheckFailed, Enqueue, AwaitReply, Goto, Finish
<1>2. current' = current /\ (Enqueue(w) \/ queue' = queue)
      /\ (ensure_ruby_daemon(w) \/ flagVars' = flagVars)
      /\ (Enqueue(w) \/ ensure_ruby_daemon(w) \/ daemon' = daemon)
  BY DEF Worker, Call, ReturnDisabled, LookupAst, build_ast, InsertAst, RenderNative,
         ensure_ruby_daemon, CheckFailed, Enqueue, AwaitReply, rubyVars, flagVars
<1>3. ASSUME NEW v \in Workers, v # w
      PROVE  /\ pc'[v] = pc[v]
             /\ request'[v] = request[v]
             /\ job'[v] = job[v]
             /\ ast'[v] = ast[v]
             /\ from_cache'[v] = from_cache[v]
             /\ reply'[v] = reply[v]
             /\ errors'[v] = errors[v]
  <2>1. pc'[v] = pc[v]
    BY <1>1, <1>3 DEF TypeOK
  <2>2. request'[v] = request[v] /\ job'[v] = job[v]
    BY <1>3 DEF TypeOK, Worker, Call, ReturnDisabled, LookupAst, build_ast, InsertAst, RenderNative,
           ensure_ruby_daemon, CheckFailed, Enqueue, AwaitReply, Goto, Finish, callVars
  <2>3. ast'[v] = ast[v] /\ from_cache'[v] = from_cache[v]
    BY <1>3 DEF TypeOK, Worker, Call, ReturnDisabled, LookupAst, build_ast, InsertAst, RenderNative,
           ensure_ruby_daemon, CheckFailed, Enqueue, AwaitReply, Goto, Finish, nativeVars
  <2>4. reply'[v] = reply[v] /\ errors'[v] = errors[v]
    BY <1>3 DEF TypeOK, Worker, Call, ReturnDisabled, LookupAst, build_ast, InsertAst, RenderNative,
           ensure_ruby_daemon, CheckFailed, Enqueue, AwaitReply, Goto, Finish, callVars
  <2> QED
    BY <2>1, <2>2, <2>3, <2>4
<1> QED
  BY <1>1, <1>2, <1>3

\* A step of a worker keeps the queue and the request the Ruby thread works on
\* in order: the worker links only itself, and leaves only when it is answered.
LEMMA WorkerRequests ==
    ASSUME IndInv, NEW w \in Workers, Call(w) \/ Worker(w)
    PROVE  RequestsAlive' /\ DaemonInv'
<1>0. TypeOK /\ RequestsAlive /\ DaemonInv /\ ControlInv
  BY DEF IndInv, MemorySafe
<1>1. /\ current' = current
      /\ Enqueue(w) \/ queue' = queue
      /\ ensure_ruby_daemon(w) \/ flagVars' = flagVars
      /\ Enqueue(w) \/ ensure_ruby_daemon(w) \/ daemon' = daemon
      /\ \A v \in Workers : v # w => pc'[v] = pc[v] /\ request'[v] = request[v]
  BY <1>0, WorkerFrame
<1>2. DaemonInv'
  BY <1>0, <1>1 DEF DaemonInv, Enqueue, ensure_ruby_daemon, flagVars, TypeOK
<1>3. CASE Enqueue(w)
  <2>1. /\ pc[w] = "enqueue" /\ queue' = Append(queue, w) /\ pc'[w] = "wait"
        /\ request' = request /\ ~request[w].done
    BY <1>0, <1>3 DEF Enqueue, Goto, TypeOK, ControlInv
  <2>2. ~Pending(w)
    BY <1>0, <2>1 DEF RequestsAlive
  <2>3. /\ Len(queue) \in Nat /\ DOMAIN queue = 1..Len(queue)
        /\ DOMAIN queue' = 1..(Len(queue) + 1)
        /\ \A k \in 1..Len(queue) : queue'[k] = queue[k]
        /\ queue'[Len(queue) + 1] = w
    BY <1>0, <2>1, LenProperties DEF TypeOK
  <2>4. \A v \in Workers : Pending(v)' <=> Pending(v) \/ v = w
    BY <1>1, <2>3 DEF Pending
  <2>5. \A v \in Workers : Pending(v)' => pc'[v] \in {"wait", "blocked"} /\ ~request'[v].done
    BY <1>0, <1>1, <2>1, <2>4 DEF RequestsAlive
  <2>6. \A k \in DOMAIN queue' : queue'[k] # current'
    BY <1>0, <1>1, <2>2, <2>3 DEF RequestsAlive, Pending
  <2>7. ASSUME NEW j \in DOMAIN queue', NEW k \in DOMAIN queue', queue'[j] = queue'[k]
        PROVE  j = k
    <3>1. CASE j \in 1..Len(queue) /\ k \in 1..Len(queue)
      BY <1>0, <2>3, <2>7, <3>1 DEF RequestsAlive
    <3>2. CASE ~(j \in 1..Len(queue) /\ k \in 1..Len(queue))
      <4>1. \A m \in 1..Len(queue) : queue[m] # w
        BY <2>2, <2>3 DEF Pending
      <4>2. j = Len(queue) + 1 \/ k = Len(queue) + 1
        BY <2>3, <3>2
      <4> QED
        BY <2>3, <2>7, <4>1, <4>2
    <3> QED
      BY <3>1, <3>2
  <2> QED
    BY <1>2, <2>5, <2>6, <2>7 DEF RequestsAlive
<1>4. CASE ~Enqueue(w)
  <2>1. queue' = queue /\ \A v \in Workers : Pending(v)' <=> Pending(v)
    BY <1>1, <1>4 DEF Pending
  <2>2. ASSUME Pending(w) PROVE pc'[w] \in {"wait", "blocked"} /\ ~request'[w].done
    <3>1. pc[w] \in {"wait", "blocked"} /\ ~request[w].done
      BY <1>0, <2>2 DEF RequestsAlive
    <3>2. AwaitReply(w)
      BY <1>4, <3>1 DEF Worker, Call, ReturnDisabled, LookupAst, build_ast, InsertAst, RenderNative,
             ensure_ruby_daemon, CheckFailed
    <3> QED
      BY <1>0, <3>1, <3>2 DEF AwaitReply, Goto, TypeOK
  <2>3. \A v \in Workers : Pending(v)' => pc'[v] \in {"wait", "blocked"} /\ ~request'[v].done
    BY <1>0, <1>1, <2>1, <2>2 DEF RequestsAlive
  <2> QED
    BY <1>0, <1>1, <1>2, <2>1, <2>3 DEF RequestsAlive
<1> QED
  BY <1>3, <1>4

\* A step of the Ruby thread keeps them in order: it takes a request off the
\* queue before it works on it, and lets go of it when it has answered.
LEMMA DaemonRequests ==
    ASSUME IndInv, Daemon \/ SpuriousWakeup
    PROVE  RequestsAlive' /\ DaemonInv'
<1>0. TypeOK /\ RequestsAlive /\ DaemonInv
  BY DEF IndInv, MemorySafe
<1>1. CASE BootRuby \/ RenderRuby
  BY <1>0, <1>1 DEF BootRuby, RenderRuby, RequestsAlive, Pending, DaemonInv, rubyVars,
                     flagVars
<1>2. CASE Take
  <2>1. daemon = "test" /\ current = Nothing /\ pc' = pc /\ request' = request
    BY <1>0, <1>2 DEF Take, DaemonInv
  <2>2. CASE queue = <<>>
    BY <1>0, <1>2, <2>1, <2>2 DEF Take, RequestsAlive, Pending, DaemonInv, flagVars
  <2>3. CASE queue # <<>>
    <3>1. /\ current' = Head(queue) /\ queue' = Tail(queue) /\ daemon' = "render"
          /\ Len(queue) \in Nat \ {0} /\ DOMAIN queue = 1..Len(queue)
      BY <1>0, <1>2, <2>3, EmptySeq, LenProperties DEF Take, TypeOK
    <3>2. /\ current' = queue[1] /\ 1 \in DOMAIN queue
          /\ DOMAIN queue' = 1..(Len(queue) - 1)
          /\ \A k \in DOMAIN queue' : queue'[k] = queue[k + 1] /\ k + 1 \in DOMAIN queue
      BY <1>0, <2>3, <3>1, HeadTailProperties, LenProperties DEF TypeOK
    <3>3. current' \in Workers
      BY <1>0, <3>1, <3>2 DEF TypeOK
    <3>4. DaemonInv'
      <4>1. current' # Nothing
        BY <3>3, NullAssumption
      <4>2. ruby_daemon_started' = ruby_daemon_started
        BY <1>2 DEF Take, flagVars
      <4> QED
        BY <1>0, <2>1, <3>1, <4>1, <4>2 DEF DaemonInv
    <3>5. \A v \in Workers : Pending(v)' => Pending(v)
      BY <3>2 DEF Pending
    <3>6. \A k \in DOMAIN queue' : queue'[k] # current'
      BY <1>0, <3>1, <3>2 DEF RequestsAlive
    <3>7. \A j, k \in DOMAIN queue' : queue'[j] = queue'[k] => j = k
      <4> SUFFICES ASSUME NEW j \in DOMAIN queue', NEW k \in DOMAIN queue', queue'[j] = queue'[k]
                   PROVE  j = k
        OBVIOUS
      <4>1. j + 1 = k + 1
        BY <1>0, <3>2 DEF RequestsAlive
      <4> QED
        BY <3>1, <3>2, <4>1
    <3> QED
      BY <1>0, <2>1, <3>4, <3>5, <3>6, <3>7 DEF RequestsAlive
  <2> QED
    BY <2>2, <2>3
<1>3. CASE Reply
  <2>1. /\ daemon = "answer" /\ daemon' = "test" /\ current' = Nothing /\ queue' = queue
        /\ current \in Workers
        /\ \A v \in Workers : v # current => pc'[v] = pc[v] /\ request'[v] = request[v]
        /\ ruby_daemon_started' = ruby_daemon_started
    BY <1>0, <1>3 DEF Reply, DaemonInv, TypeOK, flagVars
  <2>2. \A k \in DOMAIN queue : queue[k] \in Workers /\ queue[k] # current
    BY <1>0, LenProperties DEF RequestsAlive, TypeOK
  <2>3. \A v \in Workers : Pending(v)' => Pending(v) /\ v # current
    BY <2>1, <2>2, NullAssumption DEF Pending
  <2>4. \A k \in DOMAIN queue' : queue'[k] # current'
    BY <2>1, <2>2, NullAssumption
  <2> QED
    BY <1>0, <2>1, <2>3, <2>4 DEF RequestsAlive, DaemonInv
<1>4. CASE SpuriousWakeup
  <2>1. queue' = queue /\ current' = current /\ request' = request
    BY <1>4 DEF SpuriousWakeup, rubyVars
  <2>2. \A v \in Workers : pc'[v] = pc[v] \/ pc'[v] \in {"wait", "blocked"}
    BY <1>0, <1>4 DEF SpuriousWakeup, Goto, TypeOK
  <2>3. DaemonInv'
    BY <1>0, <1>4, <2>1 DEF SpuriousWakeup, DaemonInv, flagVars
  <2> QED
    BY <1>0, <2>1, <2>2, <2>3 DEF RequestsAlive, Pending
<1> QED
  BY <1>1, <1>2, <1>3, <1>4 DEF Daemon
-----------------------------------------------------------------------------
(* Control and trees.                                                      *)

\* A worker's own step leaves it where its request and its tree belong.
LEMMA WorkerControl ==
    ASSUME IndInv, NEW w \in Workers, Call(w) \/ Worker(w)
    PROVE  ControlInv'
<1>0. TypeOK /\ ControlInv
  BY DEF IndInv, MemorySafe
<1>1. SUFFICES /\ pc'[w] # "idle" => job'[w] \in Jobs
               /\ ast'[w] # Nothing => pc'[w] \in {"insert", "render"}
               /\ pc'[w] = "render" => ast'[w] # Nothing
               /\ pc'[w] \in {"build", "insert"} => ~from_cache'[w]
               /\ pc'[w] = "enqueue" => ~request'[w].done
  BY <1>0, WorkerFrame DEF ControlInv
<1>2. CASE Call(w)
  <2>1. PICK n \in Names : \E t \in ContentsOf[n] :
           job' = [job EXCEPT ![w] = [name |-> n, content |-> t]]
    BY <1>2 DEF Call
  <2>2. PICK t \in ContentsOf[n] : job' = [job EXCEPT ![w] = [name |-> n, content |-> t]]
    BY <2>1
  <2>3. job'[w] \in Jobs
    BY <1>0, <2>2 DEF TypeOK, Jobs, Templates
  <2>4. pc'[w] \in {"skip", "lookup"} /\ ast' = ast /\ pc[w] = "idle"
    BY <1>0, <1>2 DEF Call, Goto, TypeOK, nativeVars
  <2> QED
    BY <1>0, <2>3, <2>4 DEF ControlInv
<1>3. CASE ReturnDisabled(w)
  BY <1>0, <1>3 DEF ReturnDisabled, Finish, Goto, TypeOK, ControlInv, nativeVars
<1>4. CASE LookupAst(w)
  <2> DEFINE entry == g_cache[job[w].name]
  <2>1. pc[w] = "lookup" /\ job' = job
    BY <1>4 DEF LookupAst, callVars
  <2>2. pc'[w] = CASE entry = Unsupported -> "daemon"
                   [] entry = Nothing     -> "build"
                   [] OTHER               -> "render"
    BY <1>0, <1>4 DEF LookupAst, Goto, TypeOK
  <2>3. /\ ast'[w] = IF entry = Unsupported THEN Nothing ELSE entry
        /\ from_cache'[w] = (entry \notin {Nothing, Unsupported})
    BY <1>0, <1>4 DEF LookupAst, TypeOK
  <2> QED
    BY <1>0, <2>1, <2>2, <2>3, NullAssumption DEF ControlInv
<1>5. CASE build_ast(w)
  BY <1>0, <1>5 DEF build_ast, Goto, TypeOK, ControlInv, callVars
<1>6. CASE InsertAst(w)
  BY <1>0, <1>6 DEF InsertAst, Goto, TypeOK, ControlInv, callVars
<1>7. CASE RenderNative(w)
  BY <1>0, <1>7 DEF RenderNative, Finish, Goto, TypeOK, ControlInv, callVars
<1>8. CASE ensure_ruby_daemon(w)
  BY <1>0, <1>8 DEF ensure_ruby_daemon, Goto, TypeOK, ControlInv, callVars, nativeVars
<1>9. CASE CheckFailed(w)
  BY <1>0, <1>9 DEF CheckFailed, Finish, Goto, TypeOK, ControlInv, callVars, nativeVars
<1>10. CASE Enqueue(w)
  BY <1>0, <1>10 DEF Enqueue, Goto, TypeOK, ControlInv, callVars, nativeVars
<1>11. CASE AwaitReply(w)
  BY <1>0, <1>11 DEF AwaitReply, Finish, Goto, TypeOK, ControlInv, callVars, nativeVars
<1> QED
  BY <1>2, <1>3, <1>4, <1>5, <1>6, <1>7, <1>8, <1>9, <1>10, <1>11 DEF Worker

\* The Ruby thread moves only workers that wait for it.
LEMMA DaemonControl ==
    ASSUME IndInv, Daemon \/ SpuriousWakeup
    PROVE  ControlInv'
<1>0. TypeOK /\ ControlInv /\ RequestsAlive /\ DaemonInv
  BY DEF IndInv, MemorySafe
<1>1. job' = job /\ ast' = ast /\ from_cache' = from_cache
  BY DEF Daemon, BootRuby, Take, RenderRuby, Reply, SpuriousWakeup, callVars, nativeVars
<1>2. CASE BootRuby \/ Take \/ RenderRuby
  BY <1>0, <1>1, <1>2 DEF BootRuby, Take, RenderRuby, ControlInv
<1>3. CASE Reply
  <2>1. current \in Workers
    BY <1>0, <1>3 DEF Reply, DaemonInv, TypeOK
  <2>2. pc[current] \in {"wait", "blocked"}
    BY <1>0, <2>1 DEF RequestsAlive, Pending
  <2>3. /\ pc'[current] = "wait"
        /\ \A v \in Workers : v # current => pc'[v] = pc[v] /\ request'[v] = request[v]
    BY <1>0, <1>3, <2>1, <2>2 DEF Reply, TypeOK
  <2> QED
    BY <1>0, <1>1, <2>2, <2>3 DEF ControlInv
<1>4. CASE SpuriousWakeup
  <2>1. \A v \in Workers : \/ pc'[v] = pc[v]
                           \/ pc[v] = "blocked" /\ pc'[v] = "wait"
    BY <1>0, <1>4 DEF SpuriousWakeup, Goto, TypeOK
  <2>2. request' = request
    BY <1>4 DEF SpuriousWakeup
  <2> QED
    BY <1>0, <1>1, <2>1, <2>2 DEF ControlInv
<1> QED
  BY <1>2, <1>3, <1>4 DEF Daemon

\* What is known of trees: none is used after it was freed or freed twice, none
\* is lost, each has one owner.
Trees == TreesAlive /\ NoTreeLeaked /\ OwnerInv

\* A step that touches no tree keeps all of it.
LEMMA TreesFrame ==
    ASSUME Trees, UNCHANGED nativeVars
    PROVE  Trees'
  BY DEF Trees, TreesAlive, NoTreeLeaked, OwnerInv, Cached, nativeVars

\* A lookup borrows a tree of the cache.
LEMMA TreesLookup ==
    ASSUME IndInv, NEW w \in Workers, LookupAst(w)
    PROVE  Trees'
<1> DEFINE name == job[w].name
           entry == g_cache[name]
<1>0. TypeOK /\ ControlInv /\ TreesAlive /\ NoTreeLeaked /\ OwnerInv
  BY DEF IndInv, MemorySafe
<1>1. /\ pc[w] = "lookup" /\ g_cache' = g_cache /\ freed' = freed /\ allocated' = allocated
      /\ ast[w] = Nothing
  BY <1>0 DEF LookupAst, ControlInv
<1>2. name \in Names
  BY <1>0, <1>1 DEF ControlInv, Jobs
<1>3. /\ ast'[w] = IF entry = Unsupported THEN Nothing ELSE entry
      /\ from_cache'[w] = (entry \notin {Nothing, Unsupported})
      /\ \A v \in Workers : v # w => ast'[v] = ast[v] /\ from_cache'[v] = from_cache[v]
  BY <1>0 DEF LookupAst, TypeOK
<1>4. ast'[w] # Nothing => name \in Cached /\ ast'[w] = entry /\ from_cache'[w]
  BY <1>2, <1>3 DEF Cached
<1>5. Cached' = Cached
  BY <1>1 DEF Cached
<1> HIDE DEF name, entry
<1>6. g_cache[name] = entry
  BY DEF entry
<1>7. TreesAlive'
  BY <1>0, <1>1, <1>3, <1>4, <1>5, <1>6 DEF TreesAlive, OwnerInv
<1>8. NoTreeLeaked'
  BY <1>0, <1>1, <1>3, <1>5 DEF NoTreeLeaked
<1>9. OwnerInv'
  BY <1>0, <1>1, <1>3, <1>4, <1>5, <1>6 DEF OwnerInv
<1> QED
  BY <1>7, <1>8, <1>9 DEF Trees

\* A tree just built is the worker's own.
LEMMA TreesBuild ==
    ASSUME IndInv, NEW w \in Workers, build_ast(w)
    PROVE  Trees'
<1>0. TypeOK /\ ControlInv /\ TreesAlive /\ NoTreeLeaked /\ OwnerInv
  BY DEF IndInv, MemorySafe
<1>1. /\ g_cache' = g_cache /\ freed' = freed /\ from_cache' = from_cache
      /\ ast[w] = Nothing /\ ~from_cache[w] /\ allocated \in Nat
  BY <1>0 DEF build_ast, ControlInv, TypeOK
<1>2. CASE ast' = ast /\ allocated' = allocated
  BY <1>0, <1>1, <1>2, TreesFrame DEF nativeVars, Trees
<1>3. CASE ast' # ast \/ allocated' # allocated
  <2>1. /\ ast'[w].id = allocated /\ allocated' = allocated + 1 /\ ast'[w] \in Asts
        /\ \A v \in Workers : v # w => ast'[v] = ast[v]
    <3>1. job[w].content \in Templates
      BY <1>0 DEF build_ast, ControlInv, Jobs
    <3>2. /\ ast' = [ast EXCEPT ![w] = [id |-> allocated, content |-> job[w].content]]
          /\ allocated' = allocated + 1
      BY <1>3 DEF build_ast
    <3>3. ast'[w] = [id |-> allocated, content |-> job[w].content]
      BY <1>0, <3>2 DEF TypeOK
    <3>4. ast'[w] \in Asts
      BY <1>1, <3>1, <3>3 DEF Asts
    <3> QED
      BY <1>0, <3>2, <3>3, <3>4 DEF TypeOK
  <2>2. ast'[w] # Nothing
    BY <2>1, NullAssumption
  <2>3. Cached' = Cached /\ \A n \in Cached : g_cache[n] \in Asts
    BY <1>0, <1>1 DEF Cached, TypeOK
  <2>4. /\ \A n \in Cached : g_cache[n].id \in Nat /\ g_cache[n].id < allocated
        /\ \A v \in Workers : ast[v] # Nothing => ast[v].id \in Nat /\ ast[v].id < allocated
        /\ \A i \in freed : i \in Nat /\ i < allocated
    BY <1>0, <2>3 DEF OwnerInv, TypeOK, Asts
  <2>5. TreesAlive'
    BY <1>0, <1>1, <2>1, <2>2, <2>3, <2>4 DEF TreesAlive
  <2>6. NoTreeLeaked'
    <3> SUFFICES ASSUME NEW i \in 0..(allocated' - 1)
                 PROVE  \/ i \in freed'
                        \/ \E n \in Cached' : g_cache'[n].id = i
                        \/ \E v \in Workers : ast'[v] # Nothing /\ ast'[v].id = i /\ ~from_cache'[v]
      BY DEF NoTreeLeaked
    <3>1. CASE i = allocated
      BY <1>1, <2>1, <2>2, <3>1
    <3>2. CASE i # allocated
      <4>1. i \in 0..(allocated - 1)
        BY <1>1, <2>1, <3>2
      <4> QED
        BY <1>0, <1>1, <2>1, <2>3, <4>1 DEF NoTreeLeaked
    <3> QED
      BY <3>1, <3>2
  <2>7. OwnerInv'
    BY <1>0, <1>1, <2>1, <2>2, <2>3, <2>4 DEF OwnerInv
  <2> QED
    BY <2>5, <2>6, <2>7 DEF Trees
<1> QED
  BY <1>2, <1>3

\* A tree inserted goes from its worker to the cache; one that is not remains
\* the worker's.
LEMMA TreesInsert ==
    ASSUME IndInv, NEW w \in Workers, InsertAst(w)
    PROVE  Trees'
<1> DEFINE name == job[w].name
<1>0. TypeOK /\ ControlInv /\ TreesAlive /\ NoTreeLeaked /\ OwnerInv
  BY DEF IndInv, MemorySafe
<1>1. /\ ast' = ast /\ freed' = freed /\ allocated' = allocated /\ ~from_cache[w]
      /\ name \in Names
  BY <1>0 DEF InsertAst, ControlInv, Jobs
<1>2. CASE g_cache[name] # Nothing
  BY <1>0, <1>1, <1>2, TreesFrame DEF InsertAst, nativeVars, Trees
<1>3. CASE g_cache[name] = Nothing
  <2> DEFINE kept == IF ast[w] = Nothing THEN Unsupported ELSE ast[w]
  <2>1. /\ g_cache' = [g_cache EXCEPT ![name] = kept]
        /\ from_cache' = [from_cache EXCEPT ![w] = TRUE]
    BY <1>3 DEF InsertAst
  <2>2. /\ g_cache'[name] = kept
        /\ \A n \in Names : n # name => g_cache'[n] = g_cache[n]
        /\ from_cache'[w]
        /\ \A v \in Workers : v # w => from_cache'[v] = from_cache[v]
    BY <1>0, <1>1, <2>1 DEF TypeOK
  <2>3. name \notin Cached
    BY <1>3 DEF Cached
  <2>4. CASE ast[w] = Nothing
    <3>1. Cached' = Cached /\ \A n \in Cached : g_cache'[n] = g_cache[n]
      BY <1>1, <2>2, <2>3, <2>4 DEF Cached
    <3>2. \A v \in Workers : ast[v] # Nothing => from_cache'[v] = from_cache[v]
      BY <2>2, <2>4
    <3>3. TreesAlive'
      BY <1>0, <1>1, <3>1, <3>2 DEF TreesAlive
    <3>4. NoTreeLeaked'
      BY <1>0, <1>1, <3>1, <3>2 DEF NoTreeLeaked
    <3>5. OwnerInv'
      BY <1>0, <1>1, <3>1, <3>2 DEF OwnerInv
    <3> QED
      BY <3>3, <3>4, <3>5 DEF Trees
  <2>5. CASE ast[w] # Nothing
    <3>1. ast[w] \in Asts
      BY <1>0, <2>5 DEF TypeOK
    <3>2. ast[w] # Unsupported
      BY <3>1, NullAssumption
    <3>3. Cached' = Cached \cup {name}
      BY <1>1, <2>2, <2>5, <3>2 DEF Cached
    <3>4. g_cache'[name] = ast[w] /\ \A n \in Cached : g_cache'[n] = g_cache[n]
      BY <2>2, <2>3, <2>5 DEF Cached
    <3>5. TreesAlive'
      BY <1>0, <1>1, <2>2, <2>5, <3>3, <3>4 DEF TreesAlive, OwnerInv
    <3>6. NoTreeLeaked'
      BY <1>0, <1>1, <2>2, <2>5, <3>3, <3>4 DEF NoTreeLeaked
    <3>7. OwnerInv'
      BY <1>0, <1>1, <2>2, <2>5, <3>3, <3>4 DEF OwnerInv
    <3> QED
      BY <3>5, <3>6, <3>7 DEF Trees
  <2> QED
    BY <2>4, <2>5
<1> QED
  BY <1>2, <1>3

\* A worker frees the tree it rendered if it is its own, and forgets it.
LEMMA TreesRender ==
    ASSUME IndInv, NEW w \in Workers, RenderNative(w)
    PROVE  Trees'
<1>0. TypeOK /\ ControlInv /\ TreesAlive /\ NoTreeLeaked /\ OwnerInv
  BY DEF IndInv, MemorySafe
<1>1. /\ g_cache' = g_cache /\ from_cache' = from_cache /\ allocated' = allocated
      /\ freed' = IF from_cache[w] THEN freed ELSE freed \cup {ast[w].id}
      /\ ast[w] # Nothing
  BY <1>0 DEF RenderNative, ControlInv
<1>2. ast'[w] = Nothing /\ \A v \in Workers : v # w => ast'[v] = ast[v]
  BY <1>0 DEF RenderNative, TypeOK
<1>3. Cached' = Cached
  BY <1>1 DEF Cached
<1>4. TreesAlive'
  BY <1>0, <1>1, <1>2, <1>3 DEF TreesAlive, OwnerInv
<1>5. NoTreeLeaked'
  BY <1>0, <1>1, <1>2, <1>3 DEF NoTreeLeaked
<1>6. OwnerInv'
  BY <1>0, <1>1, <1>2, <1>3 DEF OwnerInv
<1> QED
  BY <1>4, <1>5, <1>6 DEF Trees

\* Every step keeps the trees in order: no other step touches them.
LEMMA TreesStep ==
    ASSUME IndInv, Next
    PROVE  Trees'
<1>0. Trees
  BY DEF IndInv, MemorySafe, Trees
<1>1. CASE Daemon \/ SpuriousWakeup
  <2>1. UNCHANGED nativeVars
    BY <1>1 DEF Daemon, BootRuby, Take, RenderRuby, Reply, SpuriousWakeup
  <2> QED
    BY <1>0, <2>1, TreesFrame
<1>2. ASSUME NEW w \in Workers, Call(w) \/ Worker(w)
      PROVE  Trees'
  <2>1. CASE LookupAst(w) \/ build_ast(w) \/ InsertAst(w) \/ RenderNative(w)
    BY <2>1, TreesLookup, TreesBuild, TreesInsert, TreesRender
  <2>2. CASE ~(LookupAst(w) \/ build_ast(w) \/ InsertAst(w) \/ RenderNative(w))
    <3>1. UNCHANGED nativeVars
      BY <1>2, <2>2 DEF Worker, Call, ReturnDisabled, ensure_ruby_daemon, CheckFailed, Enqueue,
                        AwaitReply
    <3> QED
      BY <1>0, <3>1, TreesFrame
  <2> QED
    BY <2>1, <2>2
<1> QED
  BY <1>1, <1>2 DEF Next
-----------------------------------------------------------------------------
(* Invariance.                                                             *)

LEMMA InitIndInv == Init => IndInv
<1> SUFFICES ASSUME Init PROVE IndInv
  OBVIOUS
<1>1. TypeOK
  <2>1. /\ pc \in [Workers -> Labels] /\ calls \in [Workers -> 0..MaxCalls]
        /\ job \in [Workers -> Jobs \cup {Failed}]
        /\ reply \in [Workers -> Texts \cup {Disabled, Failed}]
        /\ errors \in [Workers -> Nat]
    BY MaxCallsAssumption DEF Init, Labels
  <2>2. /\ g_cache \in [Names -> Asts \cup {Nothing, Unsupported}]
        /\ ast \in [Workers -> Asts \cup {Nothing}]
        /\ from_cache \in [Workers -> BOOLEAN]
        /\ puppet_erb_cache \in [Names -> Templates \cup {Nothing}]
    BY DEF Init
  <2>3. /\ queue \in Seq(Workers)
        /\ request \in [Workers -> [result : Texts \cup {Failed}, done : BOOLEAN]]
    BY DEF Init
  <2> QED
    BY <2>1, <2>2, <2>3 DEF Init, TypeOK
<1>2. Cached = {}
  BY DEF Init, Cached
<1>3. RequestsAlive /\ DaemonInv /\ ControlInv
  BY NullAssumption DEF Init, RequestsAlive, Pending, DaemonInv, ControlInv
<1>4. TreesAlive /\ NoTreeLeaked /\ OwnerInv
  BY <1>2 DEF Init, TreesAlive, NoTreeLeaked, OwnerInv
<1> QED
  BY <1>1, <1>3, <1>4 DEF IndInv, MemorySafe

LEMMA StepIndInv == IndInv /\ [Next]_vars => IndInv'
<1> SUFFICES ASSUME IndInv, [Next]_vars PROVE IndInv'
  OBVIOUS
<1>1. CASE Next
  <2>1. TypeOK' /\ RequestsAlive' /\ DaemonInv' /\ ControlInv'
    BY <1>1, WorkerType, DaemonType, WorkerRequests, DaemonRequests, WorkerControl, DaemonControl
       DEF Next
  <2> QED
    BY <1>1, <2>1, TreesStep DEF IndInv, MemorySafe, Trees
<1>2. CASE UNCHANGED vars
  <2> USE <1>2 DEF vars, optVars, callVars, nativeVars, flagVars, rubyVars
  <2>1. TypeOK'
    BY DEF IndInv, MemorySafe, TypeOK
  <2>2. RequestsAlive' /\ DaemonInv' /\ ControlInv'
    BY DEF IndInv, MemorySafe, RequestsAlive, Pending, DaemonInv, ControlInv
  <2>3. Trees'
    BY TreesFrame DEF IndInv, MemorySafe, Trees
  <2> QED
    BY <2>1, <2>2, <2>3 DEF IndInv, MemorySafe, Trees
<1> QED
  BY <1>1, <1>2

LEMMA Invariance == Spec => []IndInv
  BY InitIndInv, StepIndInv, PTL DEF Spec

\* However the workers of a compilation and the Ruby thread are scheduled, a
\* request on the stack of a worker is reached only while the worker waits for
\* it, and a parsed template has one owner, is used only before it is freed and
\* is freed once (puppet_erb_native_render, ruby_daemon_render).
THEOREM MemoryIsSafe == Spec => []MemorySafe
<1>1. IndInv => MemorySafe
  BY DEF IndInv
<1> QED
  BY <1>1, Invariance, PTL
-----------------------------------------------------------------------------
(* Refinement of RenderService.                                            *)

\* The texts a template's name stands for are one.
LEMMA OneText ==
    ASSUME TemplatesAreFiles, NEW n \in Names, NEW s \in ContentsOf[n], NEW t \in ContentsOf[n]
    PROVE  s = t /\ s \notin Unset
  BY DEF TemplatesAreFiles, Templates

\* What a worker's step does to what is known of texts.
LEMMA WorkerTexts ==
    ASSUME IndInv, TextInv, TemplatesAreFiles, NEW w \in Workers, Call(w) \/ Worker(w)
    PROVE  TextInv'
<1>0. TypeOK /\ ControlInv /\ DaemonInv /\ RequestsAlive
  BY DEF IndInv, MemorySafe
<1>1. /\ \A v \in Workers : v # w => /\ pc'[v] = pc[v] /\ request'[v] = request[v]
                                     /\ job'[v] = job[v] /\ ast'[v] = ast[v]
      /\ current' = current
  BY <1>0, WorkerFrame
<1>2. skip_erb' = skip_erb /\ puppet_erb_cache' = puppet_erb_cache /\ rendered' = rendered
  BY DEF Worker, Call, ReturnDisabled, LookupAst, build_ast, InsertAst, RenderNative,
         ensure_ruby_daemon, CheckFailed, Enqueue, AwaitReply, optVars, rubyVars
<1>3. daemon' = "answer" => rendered' \in {Failed, Rendering(job'[current'].content, {current'})}
  <2> SUFFICES ASSUME daemon' = "answer"
               PROVE  rendered' \in {Failed, Rendering(job'[current'].content, {current'})}
    OBVIOUS
  <2>1. daemon = "answer"
    BY <1>0, WorkerFrame DEF Enqueue, ensure_ruby_daemon
  <2>2. current \in Workers /\ pc[current] \in {"wait", "blocked"}
    BY <1>0, <2>1 DEF DaemonInv, TypeOK, RequestsAlive, Pending
  <2>3. job'[current] = job[current]
    BY <1>1, <2>2 DEF Worker, Call, ReturnDisabled, LookupAst, build_ast, InsertAst,
       RenderNative, ensure_ruby_daemon, CheckFailed, Enqueue, AwaitReply, Finish, callVars
  <2> QED
    BY <1>1, <1>2, <2>1, <2>3 DEF TextInv
<1>4. SUFFICES /\ pc'[w] # "idle" => job'[w].content \in ContentsOf[job'[w].name]
               /\ pc'[w] = "skip" => skip_erb
               /\ pc'[w] \notin {"idle", "skip"} => ~skip_erb
               /\ ast'[w] # Nothing => ast'[w].content = job'[w].content
               /\ pc'[w] \in {"wait", "blocked"} /\ request'[w].done =>
                     request'[w].result \in {Failed, Rendering(job'[w].content, {w})}
               /\ \A n \in Cached' : g_cache'[n].content \in ContentsOf[n]
  BY <1>1, <1>2, <1>3 DEF TextInv, Rendering
<1>5. CASE Call(w)
  <2>1. PICK n \in Names : \E t \in ContentsOf[n] :
           job' = [job EXCEPT ![w] = [name |-> n, content |-> t]]
    BY <1>5 DEF Call
  <2>2. PICK t \in ContentsOf[n] : job' = [job EXCEPT ![w] = [name |-> n, content |-> t]]
    BY <2>1
  <2>3. job'[w] = [name |-> n, content |-> t]
    BY <1>0, <2>2 DEF TypeOK
  <2>4. /\ pc'[w] = IF skip_erb THEN "skip" ELSE "lookup"
        /\ ast' = ast /\ g_cache' = g_cache /\ ast[w] = Nothing
    BY <1>0, <1>5 DEF Call, Goto, TypeOK, nativeVars, ControlInv
  <2> QED
    BY <2>2, <2>3, <2>4 DEF TextInv, Cached
<1>6. CASE LookupAst(w)
  <2> DEFINE name == job[w].name
             entry == g_cache[name]
  <2>1. /\ pc[w] = "lookup" /\ job' = job /\ g_cache' = g_cache /\ request' = request
        /\ pc'[w] \in {"daemon", "build", "render"}
        /\ ast'[w] = IF entry = Unsupported THEN Nothing ELSE entry
    BY <1>0, <1>6 DEF LookupAst, Goto, TypeOK, callVars
  <2>2. name \in Names /\ job[w].content \in ContentsOf[name]
    BY <1>0, <2>1 DEF ControlInv, Jobs, TextInv
  <2>3. ast'[w] # Nothing => entry.content \in ContentsOf[name] /\ ast'[w] = entry
    BY <2>1, <2>2 DEF TextInv, Cached
  <2>4. ast'[w] # Nothing => ast'[w].content = job[w].content
    BY <2>2, <2>3, OneText
  <2> QED
    BY <2>1, <2>4 DEF TextInv, Cached
<1>7. CASE build_ast(w)
  <2>1. /\ pc[w] = "build" /\ job' = job /\ g_cache' = g_cache /\ request' = request
        /\ pc'[w] = "insert"
        /\ ast'[w] = ast[w] \/ ast'[w] = [id |-> allocated, content |-> job[w].content]
    BY <1>0, <1>7 DEF build_ast, Goto, TypeOK, callVars
  <2>2. ast'[w] # Nothing => ast'[w].content = job'[w].content
    <3>1. job'[w] = job[w]
      BY <2>1
    <3>2. CASE ast'[w] = ast[w]
      BY <3>1, <3>2 DEF TextInv
    <3>3. CASE ast'[w] = [id |-> allocated, content |-> job[w].content]
      BY <3>1, <3>3
    <3> QED
      BY <2>1, <3>2, <3>3
  <2>3. \A n \in Cached' : g_cache'[n].content \in ContentsOf[n]
    BY <2>1 DEF TextInv, Cached
  <2>4. pc'[w] = "insert" /\ job'[w] = job[w]
    BY <2>1
  <2> QED
    BY <2>1, <2>2, <2>3, <2>4 DEF TextInv
<1>8. CASE InsertAst(w)
  <2> DEFINE name == job[w].name
  <2>1. /\ pc[w] = "insert" /\ job' = job /\ ast' = ast /\ request' = request
        /\ pc'[w] \in {"daemon", "render"}
    BY <1>0, <1>8 DEF InsertAst, Goto, TypeOK, callVars
  <2>2. name \in Names /\ job[w].content \in ContentsOf[name]
    BY <1>0, <2>1 DEF ControlInv, Jobs, TextInv
  <2>3. /\ \A n \in Names : n # name => g_cache'[n] = g_cache[n]
        /\ \/ g_cache'[name] = g_cache[name]
           \/ g_cache'[name] = IF ast[w] = Nothing THEN Unsupported ELSE ast[w]
    BY <1>0, <1>8, <2>2 DEF InsertAst, TypeOK
  <2>4. ast[w] # Nothing => ast[w].content \in ContentsOf[name]
    BY <2>2 DEF TextInv
  <2> HIDE DEF name
  <2>5. ASSUME NEW n \in Cached'
        PROVE  g_cache'[n].content \in ContentsOf[n]
    <3>1. n \in Names /\ g_cache'[n] \notin {Nothing, Unsupported}
      BY DEF Cached
    <3>2. CASE g_cache'[n] = g_cache[n]
      BY <3>1, <3>2 DEF TextInv, Cached
    <3>3. CASE g_cache'[n] # g_cache[n]
      BY <2>3, <2>4, <3>1, <3>3
    <3> QED
      BY <3>2, <3>3
  <2> QED
    BY <2>1, <2>5 DEF TextInv
<1>9. CASE ReturnDisabled(w) \/ RenderNative(w) \/ ensure_ruby_daemon(w) \/ CheckFailed(w)
  <2>1. /\ job' = job /\ g_cache' = g_cache
        /\ ast'[w] = ast[w] \/ ast'[w] = Nothing
        /\ pc'[w] \in {"idle", "daemon", "check", "enqueue"}
        /\ pc[w] \in {"skip", "render", "daemon", "check"}
        /\ pc[w] = "skip" => pc'[w] = "idle"
    BY <1>0, <1>9 DEF ReturnDisabled, RenderNative, ensure_ruby_daemon, CheckFailed, Finish, Goto,
                      TypeOK, callVars, nativeVars
  <2> QED
    BY <2>1 DEF TextInv, Cached
<1>10. CASE Enqueue(w) \/ AwaitReply(w)
  <2>1. /\ job' = job /\ g_cache' = g_cache /\ ast' = ast /\ request' = request
        /\ pc'[w] \in {"idle", "wait", "blocked"}
        /\ pc[w] \in {"enqueue", "wait"} /\ (pc[w] = "enqueue" => ~request[w].done)
    BY <1>0, <1>10 DEF Enqueue, AwaitReply, Finish, Goto, TypeOK, callVars, nativeVars, ControlInv
  <2> QED
    BY <2>1 DEF TextInv, Cached
<1> QED
  BY <1>5, <1>6, <1>7, <1>8, <1>9, <1>10 DEF Worker

\* What a step of the Ruby thread does to it: the text compiled under a name is
\* the text of that name, so the result belongs to the request.
LEMMA DaemonTexts ==
    ASSUME IndInv, TextInv, TemplatesAreFiles, Daemon \/ SpuriousWakeup
    PROVE  TextInv'
<1>0. TypeOK /\ ControlInv /\ DaemonInv /\ RequestsAlive
  BY DEF IndInv, MemorySafe
<1>1. /\ job' = job /\ ast' = ast /\ g_cache' = g_cache /\ skip_erb' = skip_erb
      /\ Cached' = Cached
  BY DEF Daemon, BootRuby, Take, RenderRuby, Reply, SpuriousWakeup, callVars, nativeVars, optVars,
         Cached
<1>2. CASE BootRuby \/ Take
  BY <1>1, <1>2 DEF BootRuby, Take, TextInv, rubyVars, Rendering
<1>3. CASE RenderRuby
  <2> DEFINE n    == job[current].name
             code == IF puppet_erb_cache[n] = Nothing THEN job[current].content
                                                      ELSE puppet_erb_cache[n]
  <2>1. current \in Workers /\ pc[current] \in {"wait", "blocked"}
    BY <1>0, <1>3 DEF RenderRuby, DaemonInv, TypeOK, RequestsAlive, Pending
  <2>2. n \in Names /\ job[current].content \in ContentsOf[n]
    BY <1>0, <2>1 DEF ControlInv, Jobs, TextInv
  <2>3. code \in ContentsOf[n]
    BY <2>2 DEF TextInv
  <2>4. code = job[current].content /\ code \notin Unset
    BY <2>2, <2>3, OneText
  <2>5. /\ pc' = pc /\ request' = request /\ current' = current
        /\ puppet_vars' = {current}
        /\ rendered' \in {Failed, Rendering(code, IF code \in Unset THEN main_ivars'
                                                                    ELSE puppet_vars')}
        /\ puppet_erb_cache' \in {puppet_erb_cache, [puppet_erb_cache EXCEPT ![n] = code]}
    BY <1>3 DEF RenderRuby
  <2> HIDE DEF n, code
  <2>6. rendered' \in {Failed, Rendering(job'[current'].content, {current'})}
    BY <1>1, <2>4, <2>5
  <2>7. \A m \in Names : puppet_erb_cache'[m] # Nothing => puppet_erb_cache'[m] \in ContentsOf[m]
    BY <1>0, <2>2, <2>3, <2>5 DEF TextInv, TypeOK
  <2> QED
    BY <1>1, <2>5, <2>6, <2>7 DEF TextInv, Rendering
<1>4. CASE Reply
  <2>1. current \in Workers /\ pc[current] \in {"wait", "blocked"}
    BY <1>0, <1>4 DEF Reply, DaemonInv, TypeOK, RequestsAlive, Pending
  <2>2. /\ request'[current].result = rendered /\ pc'[current] = "wait"
        /\ \A v \in Workers : v # current => pc'[v] = pc[v] /\ request'[v] = request[v]
        /\ daemon' = "test" /\ puppet_erb_cache' = puppet_erb_cache
    BY <1>0, <1>4, <2>1 DEF Reply, TypeOK
  <2>3. rendered \in {Failed, Rendering(job[current].content, {current})}
    BY <1>4 DEF Reply, TextInv
  <2> QED
    BY <1>1, <2>1, <2>2, <2>3 DEF TextInv, Rendering
<1>5. CASE SpuriousWakeup
  <2>1. \A v \in Workers : \/ pc'[v] = pc[v]
                           \/ pc[v] = "blocked" /\ pc'[v] = "wait"
    BY <1>0, <1>5 DEF SpuriousWakeup, Goto, TypeOK
  <2>2. /\ request' = request /\ current' = current /\ rendered' = rendered
        /\ puppet_erb_cache' = puppet_erb_cache /\ (daemon' = "answer" => daemon = "answer")
    BY <1>5 DEF SpuriousWakeup, rubyVars
  <2> QED
    BY <1>1, <2>1, <2>2 DEF TextInv, Rendering
<1> QED
  BY <1>2, <1>3, <1>4, <1>5 DEF Daemon

LEMMA TextInvariance == TemplatesAreFiles => (Spec => []TextInv)
<1> SUFFICES ASSUME TemplatesAreFiles PROVE Spec => []TextInv
  OBVIOUS
<1>1. Init => TextInv
  BY DEF Init, TextInv, Cached
<1>2. IndInv /\ TextInv /\ [Next]_vars => TextInv'
  <2> SUFFICES ASSUME IndInv, TextInv, [Next]_vars PROVE TextInv'
    OBVIOUS
  <2>1. CASE Next
    BY <2>1, WorkerTexts, DaemonTexts DEF Next
  <2>2. CASE UNCHANGED vars
    BY <2>2 DEF vars, optVars, callVars, nativeVars, flagVars, rubyVars, TextInv, Cached, Rendering
  <2> QED
    BY <2>1, <2>2
<1> QED
  BY <1>1, <1>2, Invariance, PTL DEF Spec

\* A worker that returns from puppet_erb_render gives the service's answer.
LEMMA FinishAnswers ==
    ASSUME TypeOK, NEW w \in Workers, pc[w] # "idle", NEW result, Finish(w, result),
           UNCHANGED optVars,
           \/ result = IF skip_erb THEN Disabled ELSE Rendering(job[w].content, {w})
           \/ ~skip_erb /\ result = Failed,
           job[w] \in Jobs
    PROVE  Service!Answer(w)
<1> DEFINE busy == {v \in Workers : pc[v] # "idle"}
<1>1. w \in busy /\ busy' = busy \ {w}
  BY DEF Finish, Goto, TypeOK
<1>2. /\ reply' = [reply EXCEPT ![w] = result]
      /\ errors' = [errors EXCEPT ![w] = IF result = Failed THEN @ + 1 ELSE @]
      /\ job' = job /\ skip_erb' = skip_erb /\ strict_erb' = strict_erb
  BY DEF Finish, optVars
<1>3. Rendering(job[w].content, {w}) \in Texts
  BY RenderingType DEF Jobs
<1>4. Service!Rendering(job[w].content, {w}) = Rendering(job[w].content, {w})
  BY DEF Service!Rendering, Rendering
<1>5. CASE result = Failed
  <2>1. ~skip_erb
    BY <1>3, <1>5, NullAssumption
  <2> QED
    BY <1>1, <1>2, <1>5, <2>1 DEF Service!Answer
<1>6. CASE result # Failed
  <2>1. result = IF skip_erb THEN Disabled ELSE Service!Rendering(job[w].content, {w})
    BY <1>4, <1>6
  <2>2. errors' = errors
    BY <1>2, <1>6 DEF TypeOK
  <2> QED
    BY <1>1, <1>2, <2>1, <2>2 DEF Service!Answer
<1> QED
  BY <1>5, <1>6

LEMMA ImplementsInit == Init => Service!Init
  BY DEF Init, Service!Init

\* Calling is asking, returning is answering, and nobody outside sees the rest.
LEMMA ImplementsNext ==
    ASSUME IndInv, TextInv, [Next]_vars
    PROVE  [Service!Next]_(Service!vars)
<1> DEFINE busy == {v \in Workers : pc[v] # "idle"}
<1>0. TypeOK /\ ControlInv /\ RequestsAlive /\ DaemonInv
  BY DEF IndInv, MemorySafe
<1>1. ASSUME NEW w \in Workers, Call(w)
      PROVE  Service!Ask(w)
  <2>1. w \notin busy /\ busy' = busy \cup {w}
    BY <1>0, <1>1 DEF Call, Goto, TypeOK
  <2>2. skip_erb' = skip_erb /\ strict_erb' = strict_erb /\ reply' = reply
    BY <1>1 DEF Call, optVars
  <2>3. PICK n \in Names : \E t \in ContentsOf[n] :
          /\ job' = [job EXCEPT ![w] = [name |-> n, content |-> t]]
          /\ errors' = [errors EXCEPT ![w] =
                          IF strict_erb /\ ~skip_erb /\ t \in Deprecated THEN @ + 1 ELSE @]
    BY <1>1 DEF Call
  <2>4. PICK t \in ContentsOf[n] :
          /\ job' = [job EXCEPT ![w] = [name |-> n, content |-> t]]
          /\ errors' = [errors EXCEPT ![w] =
                          IF strict_erb /\ ~skip_erb /\ t \in Deprecated THEN @ + 1 ELSE @]
    BY <2>3
  <2>5. errors[w] \in Nat
    BY <1>0 DEF TypeOK
  <2>6. errors' = [errors EXCEPT ![w] = @ + Service!Reported(t)]
    <3> DEFINE counts == strict_erb /\ ~skip_erb /\ t \in Deprecated
    <3>1. CASE counts
      <4>1. Service!Reported(t) = 1
        BY <3>1 DEF Service!Reported
      <4> QED
        BY <2>4, <3>1, <4>1
    <3>2. CASE ~counts
      <4>1. Service!Reported(t) = 0 /\ errors[w] + 0 = errors[w]
        BY <2>5, <3>2 DEF Service!Reported
      <4> QED
        BY <2>4, <3>2, <4>1
    <3> QED
      BY <3>1, <3>2
  <2> QED
    BY <2>1, <2>2, <2>4, <2>6 DEF Service!Ask
<1>2. ASSUME NEW w \in Workers, Worker(w)
      PROVE  Service!Answer(w) \/ UNCHANGED Service!vars
  <2>1. pc[w] # "idle" /\ job[w] \in Jobs /\ UNCHANGED optVars
    BY <1>0, <1>2 DEF ControlInv, Worker, ReturnDisabled, LookupAst, build_ast, InsertAst,
       RenderNative, ensure_ruby_daemon, CheckFailed, Enqueue, AwaitReply
  <2>2. CASE pc'[w] = "idle"
    <3>1. PICK result : /\ Finish(w, result)
                        /\ \/ ReturnDisabled(w) /\ result = Disabled
                           \/ RenderNative(w) /\ result = Rendering(ast[w].content, {w})
                           \/ CheckFailed(w) /\ result = Failed
                           \/ AwaitReply(w) /\ request[w].done /\ result = request[w].result
      BY <1>0, <1>2, <2>2 DEF TypeOK, Goto, Worker, ReturnDisabled, LookupAst, build_ast, InsertAst,
         RenderNative, ensure_ruby_daemon, CheckFailed, Enqueue, AwaitReply
    <3>2. \/ result = IF skip_erb THEN Disabled ELSE Rendering(job[w].content, {w})
          \/ ~skip_erb /\ result = Failed
      <4>1. CASE ReturnDisabled(w) /\ result = Disabled
        BY <4>1 DEF ReturnDisabled, TextInv
      <4>2. CASE RenderNative(w) /\ result = Rendering(ast[w].content, {w})
        BY <1>0, <4>2 DEF RenderNative, TextInv, ControlInv
      <4>3. CASE CheckFailed(w) /\ result = Failed
        BY <4>3 DEF CheckFailed, TextInv
      <4>4. CASE AwaitReply(w) /\ request[w].done /\ result = request[w].result
        BY <4>4 DEF AwaitReply, TextInv
      <4> QED
        BY <3>1, <4>1, <4>2, <4>3, <4>4
    <3> QED
      BY <1>0, <2>1, <3>1, <3>2, FinishAnswers
  <2>3. CASE pc'[w] # "idle"
    <3>1. UNCHANGED <<job, reply, errors>>
      BY <1>0, <1>2, <2>3 DEF Worker, ReturnDisabled, LookupAst, build_ast, InsertAst, RenderNative,
         ensure_ruby_daemon, CheckFailed, Enqueue, AwaitReply, Finish, Goto, TypeOK, callVars
    <3>2. busy' = busy
      BY <1>0, <1>2, <2>1, <2>3, WorkerFrame
    <3> QED
      BY <2>1, <3>1, <3>2 DEF Service!vars, optVars
  <2> QED
    BY <2>2, <2>3
<1>3. CASE Daemon \/ SpuriousWakeup
  <2>1. UNCHANGED <<skip_erb, strict_erb, job, reply, errors>>
    BY <1>3 DEF Daemon, BootRuby, Take, RenderRuby, Reply, SpuriousWakeup, callVars, optVars
  <2>2. \A v \in Workers : pc[v] = "idle" <=> pc'[v] = "idle"
    <3>1. CASE Reply
      <4>1. current \in Workers /\ pc[current] \in {"wait", "blocked"}
        BY <1>0, <3>1 DEF Reply, DaemonInv, TypeOK, RequestsAlive, Pending
      <4> QED
        BY <1>0, <3>1, <4>1 DEF Reply, TypeOK
    <3>2. CASE ~Reply
      BY <1>0, <1>3, <3>2 DEF Daemon, BootRuby, Take, RenderRuby, SpuriousWakeup, Goto, TypeOK
    <3> QED
      BY <3>1, <3>2
  <2>3. busy' = busy
    BY <2>2
  <2> QED
    BY <2>1, <2>3 DEF Service!vars
<1>4. CASE UNCHANGED vars
  BY <1>4 DEF vars, optVars, callVars, Service!vars
<1> QED
  BY <1>1, <1>2, <1>3, <1>4 DEF Next, Service!Next

\* As long as templates are files and read what their caller has set, the native
\* engine, its cache and the one Ruby thread together do what RenderService
\* promises: each caller gets its own text with its own variables, or an error
\* counted (puppet_erb_render).
THEOREM RendersTheCallersTemplate == TemplatesAreFiles => (Spec => Implements)
<1> SUFFICES ASSUME TemplatesAreFiles PROVE Spec => Implements
  OBVIOUS
<1> QED
  BY ImplementsInit, ImplementsNext, Invariance, TextInvariance, PTL
     DEF Spec, Implements, Service!Spec
=============================================================================
