------------------------- MODULE Evaluation_proofs --------------------------
(***************************************************************************)
(* Theorems about Evaluation, for every set of manifests.                  *)
(*                                                                         *)
(* What is left to do, env.todo, restores by itself what the evaluation    *)
(* began with: each task finds a context (the stack, the scope, the class, *)
(* the mode, the length of deferred_defines) and leaves the one the next   *)
(* task finds, and after the last task everything is as in the beginning.  *)
(* The invariant says that there are such contexts (Leads).  A context     *)
(* also has the scopes that are still to be destroyed; what it refers to   *)
(* is one of these or is kept for ever, so nothing refers to a scope that  *)
(* is gone by then.  The last sections are about the tables of resources:  *)
(* what a step may change of them, and what is there when it is asked for. *)
(***************************************************************************)
EXTENDS Evaluation, NaturalsInduction, WellFoundedInduction, TLAPS

Fields == {"todo", "scopes", "stack", "current_scope", "class_scope", "class_scopes",
           "class_resource_decls", "class_reexecuting", "classes", "resource_catalog",
           "catalog", "virtual_resources", "exported_resources", "pending_realizes",
           "puppetdb", "deferred_defines", "capacity", "generation", "errors"}

ScopeFields == {"parent", "variables", "live"}
EntryFields == {"id", "value", "override_attrs", "class_reexecuting", "caller_scope"}

ClassNames == UNION {DOMAIN p.classes : p \in Programs}

IsSeq(s) == s \in Seq({s[i] : i \in 1..Len(s)})

-----------------------------------------------------------------------------
(* Contexts *)

Contexts ==
    [stack : Seq(Nat), scope : Nat, class : Nat, mode : BOOLEAN, len : Nat,
     doomed   : SUBSET Nat,         \* scopes to be destroyed from here on
     safe     : SUBSET Nat,         \* those of them the list at hand does not see destroyed
     included : SUBSET ClassNames]  \* classes that have a scope by then

\* Scopes that are never destroyed
Kept(e) == {GlobalScope, NodeScope} \cup {e.class_scopes[class] : class \in DOMAIN e.class_scopes}

Pops     == {"leave", "created", "endDefine", "endClass", "endReexecution"}
Destroys == {"leave", "created", "endDefine"}

IsInstance(p, stmt) == stmt.op = "resource" /\ stmt.type \in DOMAIN p.defines

Known(p) == Stmts \cup {[op |-> "include", class |-> class] : class \in DOMAIN p.classes}

\* What a context refers to is there, and so is what that is looked up through
Sound(e, c) ==
    /\ c.scope \in Kept(e) \cup c.doomed
    /\ \A i \in 1..Len(c.stack) : c.stack[i] \in Kept(e) \cup c.doomed
    /\ c.class \in Kept(e) \cup {0}
    /\ \A s \in c.doomed : e.scopes[s].parent \in Kept(e) \cup c.doomed

\* What task t relies on when it starts in context c
Ready(p, e, t, c) ==
    /\ t.do \in Pops => c.stack # <<>>
    /\ t.do \in Destroys => c.scope \in c.doomed
    /\ t.do = "stmt" => /\ t.stmt \in Known(p)
                        /\ IsInstance(p, t.stmt) => c.scope \in Kept(e) \cup c.safe
    /\ t.do = "class" => /\ t.class \in DOMAIN p.classes
                         /\ p.classes[t.class].inherits \in c.included \cup {"NULL"}
    /\ t.do = "endClass" => t.class \in DOMAIN e.class_scopes
    /\ t.do = "endDefine" => t.entry \in 1..c.len
    /\ t.do = "created" => t.id \in e.resource_catalog
    /\ t.do = "collecting" => DOMAIN t = {"do", "type", "filter", "first", "passed"}
    /\ t.do = "deferred" =>
          /\ DOMAIN t = {"do", "saved", "cursor"}
          /\ t.saved \in Nat /\ t.cursor \in Nat /\ t.saved <= t.cursor /\ t.cursor <= c.len
          /\ c.safe = c.doomed
          /\ \A i \in (t.cursor + 1)..c.len :
                e.deferred_defines[i].caller_scope \in Kept(e) \cup c.doomed

Brings(t) ==
    CASE t.do = "class" -> {t.class}
      [] t.do = "stmt" /\ t.stmt.op = "include" -> {t.stmt.class}
      [] OTHER -> {}

\* Task t turns context c into d
Follows(t, c, d) ==
    /\ d.stack = IF t.do \in Pops THEN Drop(c.stack, 1) ELSE c.stack
    /\ d.scope = IF t.do = "endDefine" THEN t.caller
                 ELSE IF t.do \in Pops THEN Last(c.stack) ELSE c.scope
    /\ d.class = IF t.do \in {"endClass", "endReexecution"} THEN t.outer ELSE c.class
    /\ d.mode = IF t.do \in {"endDefine", "endReexecution"} THEN t.reexecuting ELSE c.mode
    /\ d.len = IF t.do = "deferred" THEN t.saved ELSE c.len
    /\ d.doomed = IF t.do \in Destroys THEN c.doomed \ {c.scope} ELSE c.doomed
    /\ t.do # "deferred" => d.safe = c.safe
    /\ d.included \subseteq c.included \cup Brings(t)

\* As it was in the beginning
AtEnd(c) ==
    /\ c.stack = <<GlobalScope>> /\ c.scope = NodeScope /\ c.class = 0 /\ c.mode = FALSE
    /\ c.len = 0 /\ c.doomed = {}

Path(p, e, tasks, f) ==
    /\ f \in [1..(Len(tasks) + 1) -> Contexts]
    /\ AtEnd(f[Len(tasks) + 1])
    /\ \A i \in 1..(Len(tasks) + 1) : Sound(e, f[i])
    /\ \A i \in 1..Len(tasks) : Ready(p, e, tasks[i], f[i]) /\ Follows(tasks[i], f[i], f[i + 1])

\* The tasks, begun in context c, restore everything
Leads(p, e, tasks, c) ==
    \E f \in [1..(Len(tasks) + 1) -> Contexts] : Path(p, e, tasks, f) /\ f[1] = c

-----------------------------------------------------------------------------
(* The invariant *)

ShapeInv(e) ==
    /\ DOMAIN e = Fields
    /\ e.stack \in Seq(Nat) /\ e.current_scope \in Nat /\ e.class_scope \in Nat
    /\ e.class_reexecuting \in BOOLEAN
    /\ IsSeq(e.todo) /\ IsSeq(e.scopes) /\ IsSeq(e.deferred_defines)
    /\ \A s \in 1..Len(e.scopes) :
          /\ DOMAIN e.scopes[s] = ScopeFields
          /\ e.scopes[s].parent \in Nat /\ e.scopes[s].parent < s
          /\ e.scopes[s].live \in BOOLEAN
    /\ \A i \in 1..Len(e.deferred_defines) :
          /\ DOMAIN e.deferred_defines[i] = EntryFields
          /\ e.deferred_defines[i].caller_scope \in Nat
          /\ e.deferred_defines[i].class_reexecuting \in BOOLEAN
    /\ DOMAIN e.class_scopes \subseteq ClassNames

\* The list at the end of all tasks is that of the manifest itself
LastInv(e) == e.todo # <<>> => e.todo[Len(e.todo)].do = "deferred"

KeptInv(e) ==
    /\ Kept(e) \subseteq 1..Len(e.scopes)
    /\ \A s \in Kept(e) : e.scopes[s].parent \in Kept(e) \cup {0}

\* The context at hand
Here(e, c) ==
    /\ c.stack = e.stack /\ c.scope = e.current_scope /\ c.class = e.class_scope
    /\ c.mode = e.class_reexecuting /\ c.len = Len(e.deferred_defines)
    /\ Kept(e) \cap c.doomed = {}
    /\ {s \in 1..Len(e.scopes) : e.scopes[s].live} = Kept(e) \cup c.doomed

PathInv(p, e) ==
    \E c \in Contexts : /\ Here(e, c) /\ c.included \subseteq DOMAIN e.class_scopes
                        /\ Leads(p, e, e.todo, c)

FrameInv(p, e) == ShapeInv(e) /\ LastInv(e) /\ KeptInv(e) /\ PathInv(p, e)

VirtualTypes == {stmt.type : stmt \in {s \in Stmts : s.op = "virtual"}}

\* What is declared is marked as declared; what waits is of a defined type
CatalogInv(p, e) ==
    /\ DOMAIN e.catalog \subseteq e.resource_catalog
    /\ \A id \in DOMAIN e.virtual_resources :
          /\ DOMAIN e.virtual_resources[id] = {"value", "realized"}
          /\ e.virtual_resources[id].realized => id \in e.resource_catalog
          /\ id[1] \in VirtualTypes
    /\ e.classes \subseteq DOMAIN e.class_scopes
    /\ \A i \in 1..Len(e.deferred_defines) :
          /\ e.deferred_defines[i].id \in e.resource_catalog
          /\ e.deferred_defines[i].id[1] \in DOMAIN p.defines

IndInv ==
    /\ program \in Programs
    /\ FrameInv(program, env)
    /\ CatalogInv(program, env)

-----------------------------------------------------------------------------
(* Contexts and what leads back *)

\* A non-empty set of natural numbers has a least element.
LEMMA LeastExists ==
    ASSUME NEW T \in SUBSET Nat, T # {}
    PROVE  \E x \in T : \A y \in T : x <= y
<1>1. PICK x \in T : \A y \in T : ~ (<<y, x>> \in OpToRel(<, Nat))
  BY NatLessThanWellFounded, WFMin
<1>2. ASSUME NEW y \in T PROVE x <= y
  <2>1. ~ (y < x)
    BY <1>1 DEF OpToRel
  <2> QED
    BY <2>1
<1> QED
  BY <1>2

\* A task makes deferred_defines no longer, and no more is left to be destroyed.
LEMMA FollowsShrinks ==
    ASSUME NEW p, NEW e, NEW t, NEW c \in Contexts, NEW d \in Contexts,
           Ready(p, e, t, c), Follows(t, c, d)
    PROVE  c.len \in Nat /\ d.len \in Nat /\ d.len <= c.len /\ d.doomed \subseteq c.doomed
<1>1. c.len \in Nat /\ d.len \in Nat
  BY DEF Contexts
<1>2. d.len <= c.len
  <2>1. CASE t.do = "deferred"
    <3>1. t.saved \in Nat /\ t.cursor \in Nat /\ t.saved <= t.cursor /\ t.cursor <= c.len
      BY <2>1 DEF Ready
    <3>2. d.len = t.saved
      BY <2>1 DEF Follows
    <3> QED
      BY <1>1, <3>1, <3>2
  <2>2. CASE t.do # "deferred"
    <3>1. d.len = c.len
      BY <2>2 DEF Follows
    <3> QED
      BY <1>1, <3>1
  <2> QED
    BY <2>1, <2>2
<1>3. d.doomed \subseteq c.doomed
  BY DEF Follows
<1> QED
  BY <1>1, <1>2, <1>3

\* Along a path deferred_defines gets shorter and less is left to be destroyed.
LEMMA FirstIsLargest ==
    ASSUME NEW p, NEW e, NEW tasks, Len(tasks) \in Nat,
           NEW f \in [1..(Len(tasks) + 1) -> Contexts], Path(p, e, tasks, f),
           NEW j \in 1..(Len(tasks) + 1)
    PROVE  f[j].len <= f[1].len /\ f[j].doomed \subseteq f[1].doomed
<1> DEFINE n == Len(tasks) + 1
           Fails(i) == ~ (f[i].len <= f[1].len /\ f[i].doomed \subseteq f[1].doomed)
           T == {i \in 1..n : Fails(i)}
<1>1. SUFFICES ASSUME T # {} PROVE FALSE
  OBVIOUS
<1>2. PICK k \in T : \A i \in T : k <= i
  <2>1. T \in SUBSET Nat
    OBVIOUS
  <2> HIDE DEF T
  <2> QED
    BY <1>1, <2>1, LeastExists
<1>3. k # 1
  BY DEF Contexts
<1>4. k - 1 \in 1..Len(tasks) /\ ~ Fails(k - 1)
  BY <1>2, <1>3
<1>5. Ready(p, e, tasks[k - 1], f[k - 1]) /\ Follows(tasks[k - 1], f[k - 1], f[k])
  BY <1>4 DEF Path
<1>6. f[k] \in Contexts /\ f[k - 1] \in Contexts /\ f[1] \in Contexts
  BY <1>4
<1>7. /\ f[1].len \in Nat /\ f[k - 1].len \in Nat /\ f[k].len \in Nat
      /\ f[k].len <= f[k - 1].len /\ f[k].doomed \subseteq f[k - 1].doomed
  <2>1. f[1].len \in Nat
    BY <1>6 DEF Contexts
  <2> HIDE DEF T, Fails, n
  <2> QED
    BY <1>5, <1>6, <2>1, FollowsShrinks
<1>8. f[k - 1].len <= f[1].len /\ f[k - 1].doomed \subseteq f[1].doomed
  BY <1>4
<1>9. ~ Fails(k)
  <2>1. f[k].len <= f[1].len
    BY <1>7, <1>8
  <2>2. f[k].doomed \subseteq f[1].doomed
    BY <1>7, <1>8
  <2> QED
    BY <2>1, <2>2
<1> QED
  BY <1>2, <1>9

\* What a path comes to is decided by what it goes through.
LEMMA PathParts ==
    ASSUME NEW p, NEW e, NEW tasks, Len(tasks) \in Nat, NEW c, Leads(p, e, tasks, c)
    PROVE  c \in Contexts /\ Sound(e, c)
BY DEF Leads, Path

\* No task is left: everything is restored.
LEMMA PathEnds ==
    ASSUME NEW p, NEW e, NEW c, Leads(p, e, <<>>, c)
    PROVE  AtEnd(c)
BY DEF Leads, Path

\* One more task to begin with.
LEMMA ConsPath ==
    ASSUME NEW p, NEW e, NEW t, NEW tasks, IsSeq(tasks), NEW c \in Contexts, NEW d,
           Leads(p, e, tasks, d), Sound(e, c), Ready(p, e, t, c), Follows(t, c, d)
    PROVE  Leads(p, e, <<t>> \o tasks, c)
<1> DEFINE n == Len(tasks)
           all == <<t>> \o tasks
<1>1. n \in Nat /\ Len(all) = n + 1 /\ all[1] = t /\ \A i \in 1..n : all[i + 1] = tasks[i]
  BY DEF IsSeq
<1>2. PICK f \in [1..(n + 1) -> Contexts] : Path(p, e, tasks, f) /\ f[1] = d
  BY DEF Leads
<1> DEFINE g == [i \in 1..(n + 2) |-> IF i = 1 THEN c ELSE f[i - 1]]
<1>3. g \in [1..(n + 2) -> Contexts]
  BY <1>1
<1>4. g[1] = c /\ \A i \in 1..(n + 1) : g[i + 1] = f[i]
  BY <1>1
<1>5. AtEnd(g[n + 2])
  BY <1>1, <1>2, <1>4 DEF Path
<1>6. ASSUME NEW i \in 1..(n + 2) PROVE Sound(e, g[i])
  <2>1. CASE i = 1
    BY <2>1, <1>4
  <2>2. CASE i # 1
    BY <2>2, <1>1, <1>2 DEF Path
  <2> QED
    BY <2>1, <2>2
<1>7. ASSUME NEW i \in 1..(n + 1)
      PROVE  Ready(p, e, all[i], g[i]) /\ Follows(all[i], g[i], g[i + 1])
  <2>1. CASE i = 1
    BY <2>1, <1>1, <1>2, <1>4
  <2>2. CASE i # 1
    <3>1. i - 1 \in 1..n /\ all[i] = tasks[i - 1] /\ g[i] = f[i - 1] /\ g[i + 1] = f[i]
      BY <2>2, <1>1, <1>4
    <3>2. Ready(p, e, tasks[i - 1], f[i - 1]) /\ Follows(tasks[i - 1], f[i - 1], f[(i - 1) + 1])
      BY <3>1, <1>2 DEF Path
    <3> QED
      BY <3>1, <3>2
  <2> QED
    BY <2>1, <2>2
<1>8. Len(all) + 1 = n + 2 /\ 1..Len(all) = 1..(n + 1)
  BY <1>1
<1> HIDE DEF g, all, n
<1>9. Path(p, e, all, g)
  BY <1>3, <1>5, <1>6, <1>7, <1>8 DEF Path
<1> QED
  BY <1>3, <1>4, <1>8, <1>9 DEF Leads, all

\* The first task is done.
LEMMA TailPath ==
    ASSUME NEW p, NEW e, NEW tasks, IsSeq(tasks), tasks # <<>>, NEW c, Leads(p, e, tasks, c)
    PROVE  /\ Ready(p, e, Head(tasks), c)
           /\ \E d \in Contexts : Follows(Head(tasks), c, d) /\ Leads(p, e, Tail(tasks), d)
<1> DEFINE n == Len(tasks)
           rest == Tail(tasks)
<1>1. /\ n \in Nat \ {0} /\ Len(rest) = n - 1 /\ Head(tasks) = tasks[1]
      /\ \A i \in 1..(n - 1) : rest[i] = tasks[i + 1]
  BY DEF IsSeq
<1>2. PICK f \in [1..(n + 1) -> Contexts] : Path(p, e, tasks, f) /\ f[1] = c
  BY DEF Leads
<1>3. Ready(p, e, tasks[1], f[1]) /\ Follows(tasks[1], f[1], f[2])
  BY <1>1, <1>2 DEF Path
<1> DEFINE g == [i \in 1..n |-> f[i + 1]]
<1>4. g \in [1..n -> Contexts] /\ Len(rest) + 1 = n /\ 1..Len(rest) = 1..(n - 1)
  BY <1>1
<1>5. AtEnd(g[n]) /\ \A i \in 1..n : Sound(e, g[i])
  BY <1>1, <1>2 DEF Path
<1>6. ASSUME NEW i \in 1..(n - 1)
      PROVE  Ready(p, e, rest[i], g[i]) /\ Follows(rest[i], g[i], g[i + 1])
  <2>1. i + 1 \in 1..n /\ rest[i] = tasks[i + 1] /\ g[i] = f[i + 1] /\ g[i + 1] = f[(i + 1) + 1]
    BY <1>1
  <2>2. Ready(p, e, tasks[i + 1], f[i + 1]) /\ Follows(tasks[i + 1], f[i + 1], f[(i + 1) + 1])
    BY <2>1, <1>2 DEF Path
  <2> QED
    BY <2>1, <2>2
<1>7. g[1] = f[2] /\ f[2] \in Contexts
  BY <1>1
<1> HIDE DEF g, rest, n
<1>8. Path(p, e, rest, g)
  BY <1>4, <1>5, <1>6 DEF Path
<1>9. Leads(p, e, rest, g[1])
  BY <1>4, <1>8 DEF Leads
<1> QED
  BY <1>1, <1>2, <1>3, <1>7, <1>9 DEF rest

\* All that a path of e up to n deferred instances knows of e is so in e2, too.
Extends(e, e2, n) ==
    /\ Kept(e) \subseteq Kept(e2)
    /\ e.resource_catalog \subseteq e2.resource_catalog
    /\ DOMAIN e.class_scopes \subseteq DOMAIN e2.class_scopes
    /\ \A s \in 1..Len(e.scopes) : e2.scopes[s].parent = e.scopes[s].parent
    /\ \A i \in 1..n : e2.deferred_defines[i].caller_scope = e.deferred_defines[i].caller_scope

LEMMA SoundExtends ==
    ASSUME NEW e, NEW e2, NEW c \in Contexts, NEW n, Extends(e, e2, n), Sound(e, c),
           c.doomed \subseteq 1..Len(e.scopes)
    PROVE  Sound(e2, c)
<1>1. \A s \in c.doomed : e2.scopes[s].parent = e.scopes[s].parent
  BY DEF Extends
<1>2. Kept(e) \subseteq Kept(e2)
  BY DEF Extends
<1> QED
  BY <1>1, <1>2 DEF Sound

LEMMA ReadyExtends ==
    ASSUME NEW p, NEW e, NEW e2, NEW t, NEW c \in Contexts, NEW n \in Nat, c.len <= n,
           Extends(e, e2, n), Ready(p, e, t, c)
    PROVE  Ready(p, e2, t, c)
<1>1. /\ Kept(e) \subseteq Kept(e2)
      /\ e.resource_catalog \subseteq e2.resource_catalog
      /\ DOMAIN e.class_scopes \subseteq DOMAIN e2.class_scopes
  BY DEF Extends
<1>2. ASSUME t.do = "deferred", NEW i \in (t.cursor + 1)..c.len
      PROVE  e2.deferred_defines[i].caller_scope = e.deferred_defines[i].caller_scope
  <2>1. i \in 1..n
    BY <1>2 DEF Ready, Contexts
  <2> QED
    BY <2>1 DEF Extends
<1>3. t.do = "deferred" =>
          \A i \in (t.cursor + 1)..c.len : e2.deferred_defines[i].caller_scope \in Kept(e2) \cup c.doomed
  BY <1>1, <1>2 DEF Ready
<1> QED
  BY <1>1, <1>3 DEF Ready

\* A path stays one when the environment grows.
LEMMA ExtendPath ==
    ASSUME NEW p, NEW e, NEW e2, NEW tasks, IsSeq(tasks), NEW c, Leads(p, e, tasks, c),
           Extends(e, e2, c.len), c.doomed \subseteq 1..Len(e.scopes)
    PROVE  Leads(p, e2, tasks, c)
<1>1. Len(tasks) \in Nat
  BY DEF IsSeq
<1>2. PICK f \in [1..(Len(tasks) + 1) -> Contexts] : Path(p, e, tasks, f) /\ f[1] = c
  BY DEF Leads
<1>3. ASSUME NEW i \in 1..(Len(tasks) + 1)
      PROVE  f[i] \in Contexts /\ f[i].len <= c.len /\ f[i].doomed \subseteq 1..Len(e.scopes)
  BY <1>1, <1>2, FirstIsLargest
<1>4. ASSUME NEW i \in 1..(Len(tasks) + 1) PROVE Sound(e2, f[i])
  <2>1. Sound(e, f[i])
    BY <1>2 DEF Path
  <2> QED
    BY <2>1, <1>3, SoundExtends
<1>5. ASSUME NEW i \in 1..Len(tasks) PROVE Ready(p, e2, tasks[i], f[i])
  <2>1. Ready(p, e, tasks[i], f[i]) /\ i \in 1..(Len(tasks) + 1)
    BY <1>1, <1>2 DEF Path
  <2>2. f[i] \in Contexts /\ f[i].len <= c.len
    BY <2>1, <1>3
  <2>3. c.len \in Nat
    BY <1>1, <1>2 DEF Contexts
  <2> QED
    BY <2>1, <2>2, <2>3, ReadyExtends
<1>6. Path(p, e2, tasks, f)
  BY <1>2, <1>4, <1>5 DEF Path
<1> QED
  BY <1>2, <1>6 DEF Leads

\* Tasks that start in the same context each, and leave it.
LEMMA ListPath ==
    ASSUME NEW p, NEW e, NEW tasks, IsSeq(tasks), NEW list, IsSeq(list), NEW c,
           Leads(p, e, tasks, c),
           \A i \in 1..Len(list) : Ready(p, e, list[i], c) /\ Follows(list[i], c, c)
    PROVE  Leads(p, e, list \o tasks, c)
<1> DEFINE n == Len(tasks)
           m == Len(list)
           all == list \o tasks
<1>1. /\ n \in Nat /\ m \in Nat /\ Len(all) = m + n
      /\ \A i \in 1..m : all[i] = list[i]
      /\ \A i \in (m + 1)..(m + n) : all[i] = tasks[i - m]
  BY DEF IsSeq
<1>2. PICK f \in [1..(n + 1) -> Contexts] : Path(p, e, tasks, f) /\ f[1] = c
  BY DEF Leads
<1>3. c \in Contexts /\ Sound(e, c)
  BY <1>1, PathParts
<1> DEFINE g == [i \in 1..(m + n + 1) |-> IF i <= m THEN c ELSE f[i - m]]
<1>4. g \in [1..(m + n + 1) -> Contexts]
  BY <1>1, <1>3
<1>5. (\A i \in 1..(m + 1) : g[i] = c) /\ \A i \in (m + 1)..(m + n + 1) : g[i] = f[i - m]
  BY <1>1, <1>2
<1>6. AtEnd(g[m + n + 1])
  <2>1. g[m + n + 1] = f[n + 1]
    BY <1>1, <1>5
  <2> QED
    BY <2>1, <1>2 DEF Path
<1>7. ASSUME NEW i \in 1..(m + n + 1) PROVE Sound(e, g[i])
  <2>1. CASE i <= m
    BY <2>1, <1>3, <1>5
  <2>2. CASE i > m
    <3>1. i - m \in 1..(n + 1) /\ g[i] = f[i - m]
      BY <2>2, <1>1, <1>5
    <3> QED
      BY <3>1, <1>2 DEF Path
  <2> QED
    BY <2>1, <2>2, <1>1
<1>8. ASSUME NEW i \in 1..(m + n)
      PROVE  Ready(p, e, all[i], g[i]) /\ Follows(all[i], g[i], g[i + 1])
  <2>1. CASE i <= m
    <3>1. i \in 1..m /\ i \in 1..(m + 1) /\ i + 1 \in 1..(m + 1)
      BY <2>1, <1>1
    <3>2. g[i] = c /\ g[i + 1] = c /\ all[i] = list[i]
      BY <3>1, <1>1, <1>5
    <3> QED
      BY <3>1, <3>2
  <2>2. CASE i > m
    <3>1. /\ i - m \in 1..n /\ all[i] = tasks[i - m]
          /\ g[i] = f[i - m] /\ g[i + 1] = f[(i - m) + 1]
      BY <2>2, <1>1, <1>5
    <3>2. Ready(p, e, tasks[i - m], f[i - m]) /\ Follows(tasks[i - m], f[i - m], f[(i - m) + 1])
      BY <3>1, <1>2 DEF Path
    <3> QED
      BY <3>1, <3>2
  <2> QED
    BY <2>1, <2>2, <1>1
<1>9. Len(all) + 1 = m + n + 1 /\ 1..Len(all) = 1..(m + n) /\ g[1] = c
  <2>1. 1 \in 1..(m + 1)
    BY <1>1
  <2>2. g[1] = c
    BY <2>1, <1>5
  <2> HIDE DEF g
  <2> QED
    BY <2>2, <1>1
<1> HIDE DEF g, all, n, m
<1>10. Path(p, e, all, g)
  BY <1>4, <1>6, <1>7, <1>8, <1>9 DEF Path
<1> QED
  BY <1>4, <1>9, <1>10 DEF Leads, all

\* No list has ended among the tasks before the j-th.
Early(tasks, j) == \A i \in 1..(j - 1) : tasks[i].do # "deferred"

\* The list at hand sees all instances, and nothing of its own destroyed.
LEMMA EarlyContext ==
    ASSUME NEW p, NEW e, NEW tasks, Len(tasks) \in Nat,
           NEW f \in [1..(Len(tasks) + 1) -> Contexts], Path(p, e, tasks, f),
           NEW j \in 1..(Len(tasks) + 1), Early(tasks, j)
    PROVE  f[j].len = f[1].len /\ f[j].safe = f[1].safe
<1> DEFINE n == Len(tasks) + 1
           Same(i) == f[i].len = f[1].len /\ f[i].safe = f[1].safe
           T == {i \in 1..n : Early(tasks, i) /\ ~ Same(i)}
<1>1. SUFFICES ASSUME T # {} PROVE FALSE
  OBVIOUS
<1>2. PICK k \in T : \A i \in T : k <= i
  <2>1. T \in SUBSET Nat
    OBVIOUS
  <2> HIDE DEF T
  <2> QED
    BY <1>1, <2>1, LeastExists
<1>3. k # 1
  OBVIOUS
<1>4. k - 1 \in 1..Len(tasks) /\ k - 1 \in 1..n
  BY <1>3
<1>5. tasks[k - 1].do # "deferred" /\ Early(tasks, k - 1)
  BY <1>4 DEF Early
<1>6. Same(k - 1)
  <2>1. k - 1 \notin T
    BY <1>2
  <2> QED
    BY <2>1, <1>4, <1>5
<1>7. Follows(tasks[k - 1], f[k - 1], f[k])
  BY <1>4 DEF Path
<1>8. f[k].len = f[k - 1].len /\ f[k].safe = f[k - 1].safe
  BY <1>5, <1>7 DEF Follows
<1> QED
  BY <1>2, <1>6, <1>8

\* One more instance for the list at hand, declared in a scope it does not see
\* destroyed.
LEMMA MorePath ==
    ASSUME NEW p, NEW e, NEW tasks, IsSeq(tasks), tasks # <<>>,
           tasks[Len(tasks)].do = "deferred", NEW c, Leads(p, e, tasks, c),
           e.deferred_defines[c.len + 1].caller_scope \in Kept(e) \cup c.safe
    PROVE  Leads(p, e, tasks, [c EXCEPT !.len = @ + 1])
<1> DEFINE n == Len(tasks)
           More(d) == [d EXCEPT !.len = @ + 1]
<1>1. n \in Nat \ {0}
  BY DEF IsSeq
<1>2. PICK f \in [1..(n + 1) -> Contexts] : Path(p, e, tasks, f) /\ f[1] = c
  BY DEF Leads
<1> DEFINE g == [i \in 1..(n + 1) |-> IF Early(tasks, i) THEN More(f[i]) ELSE f[i]]
<1>3. ASSUME NEW d \in Contexts
      PROVE  /\ More(d) \in Contexts /\ More(d).len = d.len + 1
             /\ More(d).stack = d.stack /\ More(d).scope = d.scope /\ More(d).class = d.class
             /\ More(d).mode = d.mode /\ More(d).doomed = d.doomed /\ More(d).safe = d.safe
             /\ More(d).included = d.included
  <2>1. d.len + 1 \in Nat
    BY DEF Contexts
  <2>2. More(d) = [stack |-> d.stack, scope |-> d.scope, class |-> d.class, mode |-> d.mode,
                   len |-> d.len + 1, doomed |-> d.doomed, safe |-> d.safe,
                   included |-> d.included]
    BY DEF Contexts
  <2> HIDE DEF More
  <2> QED
    BY <2>1, <2>2 DEF Contexts
<1> HIDE DEF More
<1>4. g \in [1..(n + 1) -> Contexts]
  BY <1>3
<1>5. g[1] = More(c)
  BY <1>1, <1>2 DEF Early
<1>6. AtEnd(g[n + 1])
  <2>1. ~ Early(tasks, n + 1)
    BY <1>1 DEF Early
  <2> QED
    BY <2>1, <1>1, <1>2 DEF Path
<1>7. ASSUME NEW i \in 1..(n + 1) PROVE Sound(e, g[i])
  <2>1. Sound(e, f[i])
    BY <1>2 DEF Path
  <2>2. Sound(e, More(f[i]))
    BY <2>1, <1>3 DEF Sound
  <2> QED
    BY <2>1, <2>2
<1>8. ASSUME NEW i \in 1..n PROVE Ready(p, e, tasks[i], g[i])
  <2>1. i \in 1..(n + 1) /\ f[i] \in Contexts /\ Ready(p, e, tasks[i], f[i])
    BY <1>1, <1>2 DEF Path
  <2>2. CASE ~ Early(tasks, i)
    BY <2>1, <2>2
  <2>3. CASE Early(tasks, i)
    <3>1. g[i] = More(f[i])
      BY <2>1, <2>3
    <3>2. f[i].len = c.len /\ f[i].safe = c.safe
      BY <1>1, <1>2, <2>1, <2>3, EarlyContext
    <3>3. ASSUME tasks[i].do = "deferred", NEW k \in (tasks[i].cursor + 1)..(f[i].len + 1)
          PROVE  e.deferred_defines[k].caller_scope \in Kept(e) \cup f[i].doomed
      <4>1. f[i].safe = f[i].doomed
        BY <2>1, <3>3 DEF Ready
      <4>2. CASE k = f[i].len + 1
        BY <4>1, <4>2, <3>2
      <4>3. CASE k # f[i].len + 1
        <5>1. k \in (tasks[i].cursor + 1)..f[i].len
          BY <4>3, <3>3, <2>1 DEF Ready, Contexts
        <5> QED
          BY <5>1, <2>1, <3>3 DEF Ready
      <4> QED
        BY <4>2, <4>3
    <3> DEFINE k == f[i].len
    <3>a. k \in Nat /\ More(f[i]).len = k + 1
      BY <2>1, <1>3 DEF Contexts
    <3>4. tasks[i].do = "deferred" => tasks[i].cursor <= More(f[i]).len
      <4>1. tasks[i].do = "deferred" => tasks[i].cursor \in Nat /\ tasks[i].cursor <= k
        BY <2>1 DEF Ready
      <4> HIDE DEF k
      <4> QED
        BY <3>a, <4>1
    <3>5. tasks[i].do = "endDefine" => tasks[i].entry \in 1..More(f[i]).len
      <4>1. tasks[i].do = "endDefine" => tasks[i].entry \in 1..k
        BY <2>1 DEF Ready
      <4> HIDE DEF k
      <4> QED
        BY <3>a, <4>1
    <3>6. Ready(p, e, tasks[i], More(f[i]))
      BY <2>1, <1>3, <3>3, <3>4, <3>5 DEF Ready
    <3> QED
      BY <3>1, <3>6
  <2> QED
    BY <2>2, <2>3
<1>9. ASSUME NEW i \in 1..n PROVE Follows(tasks[i], g[i], g[i + 1])
  <2>1. /\ i \in 1..(n + 1) /\ i + 1 \in 1..(n + 1)
        /\ f[i] \in Contexts /\ f[i + 1] \in Contexts /\ Follows(tasks[i], f[i], f[i + 1])
    BY <1>1, <1>2 DEF Path
  <2>2. Early(tasks, i + 1) <=> (Early(tasks, i) /\ tasks[i].do # "deferred")
    BY <1>1 DEF Early
  <2>3. CASE ~ Early(tasks, i)
    BY <2>1, <2>2, <2>3
  <2>4. CASE Early(tasks, i) /\ tasks[i].do = "deferred"
    <3>1. g[i] = More(f[i]) /\ g[i + 1] = f[i + 1]
      BY <2>1, <2>2, <2>4
    <3>2. Follows(tasks[i], More(f[i]), f[i + 1])
      BY <2>1, <2>4, <1>3 DEF Follows, Pops, Destroys
    <3> QED
      BY <3>1, <3>2
  <2>5. CASE Early(tasks, i) /\ tasks[i].do # "deferred"
    <3>1. g[i] = More(f[i]) /\ g[i + 1] = More(f[i + 1])
      BY <2>1, <2>2, <2>5
    <3>2. f[i + 1].len = f[i].len => More(f[i + 1]).len = More(f[i]).len
      BY <2>1, <1>3
    <3>3. Follows(tasks[i], f[i], f[i + 1]) => Follows(tasks[i], More(f[i]), More(f[i + 1]))
      BY <2>1, <2>5, <1>3, <3>2 DEF Follows
    <3> QED
      BY <2>1, <3>1, <3>3
  <2> QED
    BY <2>3, <2>4, <2>5
<1> HIDE DEF g, n
<1>10. Path(p, e, tasks, g)
  BY <1>4, <1>6, <1>7, <1>8, <1>9 DEF Path, n
<1> QED
  BY <1>4, <1>5, <1>10 DEF Leads, n, More

-----------------------------------------------------------------------------
(* Sequences, and the tasks of a list *)

LEMMA SeqOfAny ==
    ASSUME NEW T, NEW s \in Seq(T)
    PROVE  IsSeq(s) /\ Len(s) \in Nat /\ DOMAIN s = 1..Len(s)
BY DEF IsSeq

LEMMA ConsIsSeq ==
    ASSUME NEW t, NEW s, IsSeq(s)
    PROVE  /\ IsSeq(<<t>> \o s) /\ <<t>> \o s # <<>>
           /\ Head(<<t>> \o s) = t /\ Tail(<<t>> \o s) = s
           /\ (<<t>> \o s)[1] = t /\ Len(<<t>> \o s) = Len(s) + 1
<1> DEFINE T == {s[i] : i \in 1..Len(s)} \cup {t}
<1>1. s \in Seq(T) /\ t \in T
  BY DEF IsSeq
<1> HIDE DEF T
<1>2. <<t>> \o s \in Seq(T) /\ Len(<<t>> \o s) = Len(s) + 1 /\ Len(s) \in Nat
  BY <1>1
<1>3. (<<t>> \o s)[1] = t /\ <<t>> \o s # <<>>
  BY <1>1
<1>4. Head(<<t>> \o s) = t
  BY <1>2, <1>3
<1>5. Tail(<<t>> \o s) = s
  BY <1>1
<1> QED
  BY <1>2, <1>3, <1>4, <1>5, SeqOfAny

LEMMA ConcatIsSeq ==
    ASSUME NEW a, IsSeq(a), NEW s, IsSeq(s)
    PROVE  /\ IsSeq(a \o s) /\ Len(a \o s) = Len(a) + Len(s)
           /\ s # <<>> => (a \o s)[Len(a \o s)] = s[Len(s)] /\ a \o s # <<>>
<1> DEFINE T == {s[i] : i \in 1..Len(s)} \cup {a[i] : i \in 1..Len(a)}
<1>1. s \in Seq(T) /\ a \in Seq(T)
  BY DEF IsSeq
<1> HIDE DEF T
<1>2. a \o s \in Seq(T) /\ Len(a) \in Nat /\ Len(s) \in Nat
  BY <1>1
<1>3. IsSeq(a \o s) /\ Len(a \o s) = Len(a) + Len(s)
  <2>1. Len(a \o s) = Len(a) + Len(s)
    BY <1>1
  <2>2. IsSeq(a \o s)
    BY <1>2, SeqOfAny
  <2> QED
    BY <2>1, <2>2
<1>4. ASSUME s # <<>>
      PROVE  (a \o s)[Len(a \o s)] = s[Len(s)] /\ a \o s # <<>>
  <2>1. Len(s) # 0
    BY <1>1, <1>4
  <2>2. a \o s # <<>>
    BY <1>2, <1>3, <2>1
  <2>3. Len(a) + Len(s) \in (Len(a) + 1)..(Len(a) + Len(s))
    BY <1>2, <2>1
  <2>4. (a \o s)[Len(a) + Len(s)] = s[(Len(a) + Len(s)) - Len(a)]
    BY <1>1, <1>2, <2>3
  <2>5. (Len(a) + Len(s)) - Len(a) = Len(s)
    BY <1>2
  <2> QED
    BY <1>3, <2>2, <2>4, <2>5
<1> QED
  BY <1>3, <1>4

LEMMA EachIsSeq ==
    ASSUME NEW body \in Seq(Stmts)
    PROVE  /\ IsSeq(Each(body)) /\ Len(Each(body)) = Len(body)
           /\ \A i \in 1..Len(body) : Each(body)[i] = [do |-> "stmt", stmt |-> body[i]]
<1> DEFINE T == {[do |-> "stmt", stmt |-> stmt] : stmt \in Stmts}
<1>1. Each(body) \in Seq(T) /\ Len(Each(body)) = Len(body)
  BY DEF Each
<1> QED
  BY <1>1, SeqOfAny DEF Each

\* Statements that are executed one by one.
LEMMA EachPath ==
    ASSUME NEW p, NEW e, NEW tasks, IsSeq(tasks), NEW c, Leads(p, e, tasks, c),
           NEW body \in Seq(Stmts),
           \A i \in 1..Len(body) : IsInstance(p, body[i]) => c.scope \in Kept(e) \cup c.safe
    PROVE  Leads(p, e, Each(body) \o tasks, c)
<1>1. ASSUME NEW i \in 1..Len(Each(body))
      PROVE  Ready(p, e, Each(body)[i], c) /\ Follows(Each(body)[i], c, c)
  <2>1. Each(body)[i] = [do |-> "stmt", stmt |-> body[i]] /\ i \in 1..Len(body)
    BY EachIsSeq
  <2>2. body[i] \in Known(p)
    BY <2>1 DEF Known
  <2>3. Ready(p, e, [do |-> "stmt", stmt |-> body[i]], c)
    BY <2>1, <2>2 DEF Ready, Pops, Destroys
  <2>4. Follows([do |-> "stmt", stmt |-> body[i]], c, c)
    BY DEF Follows, Pops, Destroys
  <2> QED
    BY <2>1, <2>3, <2>4
<1> QED
  BY <1>1, EachIsSeq, ListPath

\* A statement list: its instances run while its scope is there.
LEMMA ExecListPath ==
    ASSUME NEW p, NEW e, NEW tasks, IsSeq(tasks), NEW c, Leads(p, e, tasks, c),
           c.len = Len(e.deferred_defines), NEW body \in Seq(Stmts)
    PROVE  /\ IsSeq(ExecList(e, body) \o tasks)
           /\ Leads(p, e, ExecList(e, body) \o tasks, [c EXCEPT !.safe = c.doomed])
<1> DEFINE d == [c EXCEPT !.safe = c.doomed]
           t == [do |-> "deferred", saved  |-> Len(e.deferred_defines),
                                    cursor |-> Len(e.deferred_defines)]
<1>1. c \in Contexts /\ Sound(e, c)
  BY PathParts DEF IsSeq
<1>2. /\ d \in Contexts /\ d.safe = d.doomed /\ d.stack = c.stack /\ d.scope = c.scope
      /\ d.class = c.class /\ d.mode = c.mode /\ d.len = c.len /\ d.doomed = c.doomed
      /\ d.included = c.included
  BY <1>1 DEF Contexts
<1>3. Sound(e, d) /\ c.len \in Nat
  BY <1>1, <1>2 DEF Sound, Contexts
<1>4. ExecList(e, body) \o tasks = Each(body) \o (<<t>> \o tasks)
  BY EachIsSeq, ConsIsSeq DEF ExecList, IsSeq
<1>5. t.do = "deferred" /\ t.saved = c.len /\ t.cursor = c.len /\ DOMAIN t = {"do", "saved", "cursor"}
  OBVIOUS
<1> HIDE DEF d, t
<1>6. Ready(p, e, t, d)
  BY <1>2, <1>3, <1>5 DEF Ready, Pops, Destroys
<1>7. Follows(t, d, c)
  BY <1>2, <1>5 DEF Follows, Pops, Destroys
<1>8. Leads(p, e, <<t>> \o tasks, d)
  BY <1>2, <1>3, <1>6, <1>7, ConsPath
<1>9. d.scope \in Kept(e) \cup d.safe
  BY <1>1, <1>2 DEF Sound
<1>10. IsSeq(<<t>> \o tasks)
  BY ConsIsSeq
<1>11. Leads(p, e, Each(body) \o (<<t>> \o tasks), d)
  BY <1>8, <1>9, <1>10, EachPath
<1>12. IsSeq(Each(body) \o (<<t>> \o tasks))
  BY <1>10, EachIsSeq, ConcatIsSeq
<1> QED
  BY <1>4, <1>11, <1>12 DEF d

-----------------------------------------------------------------------------
(* Steps that keep the frame: what the contexts are about *)

\* What is to be destroyed exists.
LEMMA DoomedExist ==
    ASSUME NEW e, NEW c, Here(e, c)
    PROVE  c.doomed \subseteq 1..Len(e.scopes)
BY DEF Here

\* What has an empty tail has one task.
LEMMA LastOne ==
    ASSUME NEW T, NEW s \in Seq(T), s # <<>>, Tail(s) = <<>>
    PROVE  Len(s) = 1
<1> DEFINE n == Len(s)
           m == Len(Tail(s))
<1>1. n \in Nat /\ m = n - 1
  OBVIOUS
<1>2. m = Len(<<>>)
  OBVIOUS
<1>3. m = 0
  BY <1>2
<1> HIDE DEF n, m
<1>4. n = 1
  BY <1>1, <1>3
<1> QED
  BY <1>4 DEF n

\* Without its first task a list is still that of the manifest.
LEMMA LastOfTail ==
    ASSUME NEW tasks, IsSeq(tasks), tasks # <<>>, tasks[Len(tasks)].do = "deferred"
    PROVE  /\ IsSeq(Tail(tasks)) /\ Head(tasks) = tasks[1]
           /\ Tail(tasks) # <<>> => Tail(tasks)[Len(Tail(tasks))].do = "deferred"
           /\ Tail(tasks) = <<>> => Head(tasks).do = "deferred"
<1> DEFINE T == {tasks[i] : i \in 1..Len(tasks)}
<1>1. tasks \in Seq(T)
  BY DEF IsSeq
<1> HIDE DEF T
<1>2. /\ Len(tasks) \in Nat \ {0} /\ Tail(tasks) \in Seq(T) /\ Len(Tail(tasks)) = Len(tasks) - 1
      /\ Head(tasks) = tasks[1]
  BY <1>1
<1>3. IsSeq(Tail(tasks))
  BY <1>2, SeqOfAny
<1>4. Tail(tasks) # <<>> => Tail(tasks)[Len(Tail(tasks))] = tasks[Len(tasks)]
  <2> DEFINE n == Len(tasks)
  <2> HAVE Tail(tasks) # <<>>
  <2>1. n \in Nat /\ n - 1 \in Nat /\ n - 1 # 0
    BY <1>2
  <2>2. Tail(tasks)[n - 1] = tasks[(n - 1) + 1]
    BY <1>1, <2>1
  <2>3. (n - 1) + 1 = n
    BY <2>1
  <2> QED
    BY <1>2, <2>2, <2>3
<1>5. Tail(tasks) = <<>> => Len(tasks) = 1
  BY <1>1, LastOne
<1>6. Tail(tasks) = <<>> => Head(tasks).do = "deferred"
  <2> HAVE Tail(tasks) = <<>>
  <2>1. tasks[Len(tasks)] = tasks[1]
    BY <1>5
  <2> QED
    BY <1>2, <2>1
<1>7. Tail(tasks) # <<>> => Tail(tasks)[Len(Tail(tasks))].do = "deferred"
  BY <1>4
<1> QED
  BY <1>2, <1>3, <1>6, <1>7

\* The task at hand, and what leads back when it is done.
LEMMA FirstTask ==
    ASSUME NEW p, NEW e, FrameInv(p, e), e.todo # <<>>
    PROVE  /\ IsSeq(Tail(e.todo)) /\ Head(e.todo) = e.todo[1]
           /\ Tail(e.todo) # <<>> => Tail(e.todo)[Len(Tail(e.todo))].do = "deferred"
           /\ Tail(e.todo) = <<>> => Head(e.todo).do = "deferred"
           /\ \E c \in Contexts, d \in Contexts :
                 /\ Here(e, c) /\ Sound(e, c) /\ c.included \subseteq DOMAIN e.class_scopes
                 /\ Ready(p, e, Head(e.todo), c) /\ Follows(Head(e.todo), c, d)
                 /\ Leads(p, e, Tail(e.todo), d)
<1>1. IsSeq(e.todo) /\ e.todo[Len(e.todo)].do = "deferred"
  BY DEF FrameInv, ShapeInv, LastInv
<1>2. PICK c \in Contexts : /\ Here(e, c) /\ c.included \subseteq DOMAIN e.class_scopes
                            /\ Leads(p, e, e.todo, c)
  BY DEF FrameInv, PathInv
<1>3. Sound(e, c)
  BY <1>1, <1>2, PathParts DEF IsSeq
<1>4. /\ Ready(p, e, Head(e.todo), c)
      /\ \E d \in Contexts : Follows(Head(e.todo), c, d) /\ Leads(p, e, Tail(e.todo), d)
  BY <1>1, <1>2, TailPath
<1> QED
  BY <1>1, <1>2, <1>3, <1>4, LastOfTail

\* A statement, or a walk over the virtual resources, is left in the context it is
\* entered in.
LEMMA FirstStmt ==
    ASSUME NEW p, NEW e, FrameInv(p, e), e.todo # <<>>,
           Head(e.todo).do \in {"stmt", "collecting"}
    PROVE  /\ Tail(e.todo) # <<>>
           /\ \E d \in Contexts :
                 /\ Here(e, d) /\ Sound(e, d) /\ Leads(p, e, Tail(e.todo), d)
                 /\ Ready(p, e, Head(e.todo), d)
                 /\ d.included \subseteq DOMAIN e.class_scopes \cup Brings(Head(e.todo))
<1>1. PICK c \in Contexts, d \in Contexts :
                 /\ Here(e, c) /\ Sound(e, c) /\ c.included \subseteq DOMAIN e.class_scopes
                 /\ Ready(p, e, Head(e.todo), c) /\ Follows(Head(e.todo), c, d)
                 /\ Leads(p, e, Tail(e.todo), d)
  BY FirstTask
<1>2. /\ d.stack = c.stack /\ d.scope = c.scope /\ d.class = c.class /\ d.mode = c.mode
      /\ d.len = c.len /\ d.doomed = c.doomed /\ d.safe = c.safe
      /\ d.included \subseteq c.included \cup Brings(Head(e.todo))
  BY <1>1 DEF Follows, Pops, Destroys
<1>3. Here(e, d)
  BY <1>1, <1>2 DEF Here
<1>4. Sound(e, d)
  BY <1>1, <1>2 DEF Sound
<1>5. Ready(p, e, Head(e.todo), d)
  BY <1>1, <1>2 DEF Ready, Pops, Destroys
<1>6. d.included \subseteq DOMAIN e.class_scopes \cup Brings(Head(e.todo))
  BY <1>1, <1>2
<1>7. Tail(e.todo) # <<>>
  BY FirstTask
<1> QED
  BY <1>1, <1>3, <1>4, <1>5, <1>6, <1>7

\* Nothing that the contexts are about is different in e2, but for the tasks.
SameFrame(e, e2) ==
    /\ DOMAIN e2 = Fields
    /\ e2.stack = e.stack /\ e2.current_scope = e.current_scope
    /\ e2.class_scope = e.class_scope /\ e2.class_scopes = e.class_scopes
    /\ e2.class_reexecuting = e.class_reexecuting
    /\ IsSeq(e2.scopes) /\ Len(e2.scopes) = Len(e.scopes)
    /\ \A s \in 1..Len(e.scopes) : /\ DOMAIN e2.scopes[s] = ScopeFields
                                   /\ e2.scopes[s].parent = e.scopes[s].parent
                                   /\ e2.scopes[s].live = e.scopes[s].live
    /\ IsSeq(e2.deferred_defines) /\ Len(e2.deferred_defines) = Len(e.deferred_defines)
    /\ \A i \in 1..Len(e.deferred_defines) :
          /\ DOMAIN e2.deferred_defines[i] = EntryFields
          /\ e2.deferred_defines[i].caller_scope = e.deferred_defines[i].caller_scope
          /\ e2.deferred_defines[i].class_reexecuting = e.deferred_defines[i].class_reexecuting
    /\ e.resource_catalog \subseteq e2.resource_catalog

LEMMA SameFrameKeeps ==
    ASSUME NEW e, NEW e2, ShapeInv(e), KeptInv(e), SameFrame(e, e2), IsSeq(e2.todo)
    PROVE  /\ ShapeInv(e2) /\ KeptInv(e2)
           /\ \A c : Here(e, c) => Here(e2, c) /\ Extends(e, e2, c.len)
<1>1. Kept(e2) = Kept(e)
  BY DEF SameFrame, Kept
<1>2. ShapeInv(e2)
  BY DEF SameFrame, ShapeInv
<1>3. KeptInv(e2)
  BY <1>1 DEF SameFrame, KeptInv
<1>4. ASSUME NEW c, Here(e, c) PROVE Here(e2, c)
  <2>1. {s \in 1..Len(e2.scopes) : e2.scopes[s].live} = {s \in 1..Len(e.scopes) : e.scopes[s].live}
    BY DEF SameFrame
  <2> QED
    BY <1>1, <1>4, <2>1 DEF SameFrame, Here
<1>5. ASSUME NEW c, Here(e, c) PROVE Extends(e, e2, c.len)
  BY <1>1, <1>5 DEF SameFrame, Here, Extends
<1> QED
  BY <1>2, <1>3, <1>4, <1>5

\* A statement is replaced by tasks, none or several, that lead back to its context.
LEMMA Replace ==
    ASSUME NEW p, NEW e, NEW e2, ShapeInv(e2), KeptInv(e2), NEW tasks, IsSeq(tasks),
           tasks # <<>>, tasks[Len(tasks)].do = "deferred", NEW new, IsSeq(new),
           e2.todo = new \o tasks, NEW c \in Contexts, Here(e2, c),
           c.included \subseteq DOMAIN e2.class_scopes, Leads(p, e2, new \o tasks, c)
    PROVE  FrameInv(p, e2)
<1>1. LastInv(e2)
  BY ConcatIsSeq DEF LastInv
<1>2. PathInv(p, e2)
  BY DEF PathInv
<1> QED
  BY <1>1, <1>2 DEF FrameInv

\* The statement is done and has changed nothing of the frame.
LEMMA Advance ==
    ASSUME NEW p, NEW e, NEW e2, FrameInv(p, e), e.todo # <<>>,
           Head(e.todo).do \in {"stmt", "collecting"},
           Brings(Head(e.todo)) \subseteq DOMAIN e.class_scopes,
           SameFrame(e, e2), e2.todo = Tail(e.todo)
    PROVE  FrameInv(p, e2)
<1>1. PICK d \in Contexts :
          /\ Here(e, d) /\ Leads(p, e, Tail(e.todo), d)
          /\ d.included \subseteq DOMAIN e.class_scopes \cup Brings(Head(e.todo))
  BY FirstStmt
<1>2. /\ IsSeq(Tail(e.todo)) /\ Tail(e.todo) # <<>>
      /\ Tail(e.todo)[Len(Tail(e.todo))].do = "deferred"
  BY FirstTask, FirstStmt
<1>3. ShapeInv(e2) /\ KeptInv(e2) /\ Here(e2, d) /\ Extends(e, e2, d.len)
  BY <1>1, <1>2, SameFrameKeeps DEF FrameInv
<1>4. Leads(p, e2, e2.todo, d)
  BY <1>1, <1>2, <1>3, DoomedExist, ExtendPath
<1>5. d.included \subseteq DOMAIN e2.class_scopes
  BY <1>1 DEF SameFrame
<1>6. LastInv(e2)
  BY <1>2 DEF LastInv
<1>7. PathInv(p, e2)
  BY <1>3, <1>4, <1>5 DEF PathInv
<1> QED
  BY <1>3, <1>6, <1>7 DEF FrameInv

\* What a statement finds when it has changed nothing of the frame so far.
LEMMA Stays ==
    ASSUME NEW p, NEW e, NEW e2, FrameInv(p, e), e.todo # <<>>,
           Head(e.todo).do \in {"stmt", "collecting"}, SameFrame(e, e2), IsSeq(e2.todo)
    PROVE  /\ ShapeInv(e2) /\ KeptInv(e2)
           /\ IsSeq(Tail(e.todo)) /\ Tail(e.todo) # <<>>
           /\ Tail(e.todo)[Len(Tail(e.todo))].do = "deferred"
           /\ \E d \in Contexts :
                 /\ Here(e2, d) /\ Sound(e2, d) /\ Leads(p, e2, Tail(e.todo), d)
                 /\ Ready(p, e2, Head(e.todo), d)
                 /\ d.included \subseteq DOMAIN e2.class_scopes \cup Brings(Head(e.todo))
<1>1. PICK d \in Contexts :
          /\ Here(e, d) /\ Sound(e, d) /\ Leads(p, e, Tail(e.todo), d)
          /\ Ready(p, e, Head(e.todo), d)
          /\ d.included \subseteq DOMAIN e.class_scopes \cup Brings(Head(e.todo))
  BY FirstStmt
<1>2. /\ IsSeq(Tail(e.todo)) /\ Tail(e.todo) # <<>>
      /\ Tail(e.todo)[Len(Tail(e.todo))].do = "deferred"
  BY FirstTask, FirstStmt
<1>3. ShapeInv(e2) /\ KeptInv(e2) /\ Here(e2, d) /\ Extends(e, e2, d.len)
  BY <1>1, SameFrameKeeps DEF FrameInv
<1>4. d.doomed \subseteq 1..Len(e.scopes) /\ d.len \in Nat /\ d.len <= d.len
  BY <1>1, DoomedExist DEF Contexts
<1>5. Leads(p, e2, Tail(e.todo), d)
  BY <1>1, <1>2, <1>3, <1>4, ExtendPath
<1>6. Sound(e2, d)
  BY <1>1, <1>3, <1>4, SoundExtends
<1>7. Ready(p, e2, Head(e.todo), d)
  BY <1>1, <1>3, <1>4, ReadyExtends
<1>8. d.included \subseteq DOMAIN e2.class_scopes \cup Brings(Head(e.todo))
  BY <1>1 DEF SameFrame
<1> QED
  BY <1>2, <1>3, <1>5, <1>6, <1>7, <1>8

-----------------------------------------------------------------------------
(* Steps that create a scope *)

\* e2 is e in a new scope, a child of parent; back is what the stack keeps.
Enters(e, e2, parent, back) ==
    /\ DOMAIN e2 = Fields /\ IsSeq(e2.todo)
    /\ e2.stack = Append(e.stack, back)
    /\ e2.current_scope = Len(e.scopes) + 1
    /\ e2.class_reexecuting \in BOOLEAN
    /\ e2.deferred_defines = e.deferred_defines
    /\ IsSeq(e2.scopes) /\ Len(e2.scopes) = Len(e.scopes) + 1
    /\ \A s \in 1..Len(e.scopes) : /\ DOMAIN e2.scopes[s] = ScopeFields
                                   /\ e2.scopes[s].parent = e.scopes[s].parent
                                   /\ e2.scopes[s].live = e.scopes[s].live
    /\ DOMAIN e2.scopes[Len(e.scopes) + 1] = ScopeFields
    /\ e2.scopes[Len(e.scopes) + 1].parent = parent
    /\ e2.scopes[Len(e.scopes) + 1].live = TRUE
    /\ e.resource_catalog \subseteq e2.resource_catalog

LEMMA EntersShape ==
    ASSUME NEW e, NEW e2, NEW parent \in 1..Len(e.scopes), NEW back \in 1..Len(e.scopes),
           ShapeInv(e), Enters(e, e2, parent, back), e2.class_scope \in Nat,
           DOMAIN e2.class_scopes \subseteq ClassNames
    PROVE  ShapeInv(e2)
<1>1. Len(e.scopes) \in Nat
  BY DEF ShapeInv, IsSeq
<1>2. e2.stack \in Seq(Nat) /\ e2.current_scope \in Nat
  BY <1>1 DEF Enters, ShapeInv
<1>3. ASSUME NEW s \in 1..Len(e2.scopes)
      PROVE  /\ DOMAIN e2.scopes[s] = ScopeFields
             /\ e2.scopes[s].parent \in Nat /\ e2.scopes[s].parent < s
             /\ e2.scopes[s].live \in BOOLEAN
  <2>1. s \in 1..(Len(e.scopes) + 1)
    BY DEF Enters
  <2>2. CASE s \in 1..Len(e.scopes)
    <3>1. /\ e.scopes[s].parent \in Nat /\ e.scopes[s].parent < s
          /\ e.scopes[s].live \in BOOLEAN
      BY <2>2 DEF ShapeInv
    <3>2. /\ DOMAIN e2.scopes[s] = ScopeFields
          /\ e2.scopes[s].parent = e.scopes[s].parent
          /\ e2.scopes[s].live = e.scopes[s].live
      BY <2>2 DEF Enters
    <3> QED
      BY <3>1, <3>2
  <2>3. CASE s = Len(e.scopes) + 1
    <3>1. DOMAIN e2.scopes[s] = ScopeFields /\ e2.scopes[s].parent = parent
          /\ e2.scopes[s].live = TRUE
      BY <2>3 DEF Enters
    <3>2. parent \in Nat /\ parent < s
      BY <2>3, <1>1
    <3> QED
      BY <3>1, <3>2
  <2> QED
    BY <2>1, <2>2, <2>3, <1>1
<1> QED
  BY <1>2, <1>3 DEF Enters, ShapeInv

LEMMA EntersExtends ==
    ASSUME NEW e, NEW e2, NEW parent, NEW back, NEW n, ShapeInv(e), KeptInv(e),
           Enters(e, e2, parent, back), Kept(e) \subseteq Kept(e2),
           DOMAIN e.class_scopes \subseteq DOMAIN e2.class_scopes
    PROVE  Extends(e, e2, n)
<1>1. Len(e.scopes) \in Nat
  BY DEF ShapeInv, IsSeq
<1> QED
  BY <1>1 DEF Enters, Extends

\* The scope of a function or of a defined type, destroyed by the task end.
LEMMA EnterTransient ==
    ASSUME NEW p, NEW e, NEW e2, ShapeInv(e), KeptInv(e), NEW tasks, IsSeq(tasks),
           NEW d \in Contexts, Leads(p, e, tasks, d), Here(e, d), Sound(e, d),
           d.included \subseteq DOMAIN e.class_scopes,
           NEW parent \in Kept(e) \cup d.doomed, NEW back \in Kept(e) \cup d.doomed,
           Enters(e, e2, parent, back),
           e2.class_scope = e.class_scope, e2.class_scopes = e.class_scopes,
           NEW end, end.do \in Destroys,
           end.do = "created" => end.id \in e2.resource_catalog,
           IF end.do = "endDefine"
           THEN end.entry \in 1..d.len /\ end.caller = d.scope /\ end.reexecuting = d.mode
           ELSE back = d.scope /\ e2.class_reexecuting = e.class_reexecuting
    PROVE  /\ ShapeInv(e2) /\ KeptInv(e2) /\ IsSeq(<<end>> \o tasks)
           /\ \E c \in Contexts :
                 /\ Here(e2, c) /\ c.included \subseteq DOMAIN e2.class_scopes
                 /\ Leads(p, e2, <<end>> \o tasks, c)
<1> DEFINE n == Len(e.scopes) + 1
           c == [stack |-> Append(e.stack, back), scope |-> n, class |-> d.class,
                 mode |-> e2.class_reexecuting, len |-> d.len, doomed |-> d.doomed \cup {n},
                 safe |-> d.safe, included |-> d.included]
<1>1. n \in Nat \ {0} /\ Len(e.scopes) \in Nat /\ n \notin 1..Len(e.scopes)
  BY DEF ShapeInv, IsSeq
<1>2. Kept(e2) = Kept(e)
  BY DEF Kept
<1>3. Kept(e) \subseteq 1..Len(e.scopes) /\ d.doomed \subseteq 1..Len(e.scopes)
  BY DoomedExist DEF KeptInv
<1>4. parent \in 1..Len(e.scopes) /\ back \in 1..Len(e.scopes) /\ back \in Nat
  BY <1>1, <1>3
<1>5. ShapeInv(e2)
  BY <1>4, EntersShape DEF ShapeInv
<1>6. KeptInv(e2)
  <2>1. Kept(e) \subseteq 1..Len(e2.scopes)
    BY <1>1, <1>3 DEF Enters
  <2>2. \A s \in Kept(e) : e2.scopes[s].parent = e.scopes[s].parent
    BY <1>1, <1>3 DEF Enters
  <2> QED
    BY <2>1, <2>2, <1>2 DEF KeptInv
<1>7. Extends(e, e2, d.len)
  BY <1>2, EntersExtends
<1>8. Leads(p, e2, tasks, d) /\ Sound(e2, d)
  BY <1>3, <1>7, ExtendPath, SoundExtends
<1>9. c \in Contexts
  <2>1. Append(e.stack, back) \in Seq(Nat) /\ e2.class_reexecuting \in BOOLEAN
    BY <1>4 DEF ShapeInv, Enters
  <2> QED
    BY <1>1, <2>1 DEF Contexts
<1>10. /\ c.stack = Append(e.stack, back) /\ c.scope = n /\ c.class = d.class
       /\ c.mode = e2.class_reexecuting /\ c.len = d.len /\ c.doomed = d.doomed \cup {n}
       /\ c.safe = d.safe /\ c.included = d.included
  OBVIOUS
<1> HIDE DEF c
<1>11. /\ Len(c.stack) = Len(e.stack) + 1 /\ c.stack # <<>> /\ Last(c.stack) = back
       /\ Drop(c.stack, 1) = e.stack
       /\ \A i \in 1..Len(c.stack) : c.stack[i] = IF i <= Len(e.stack) THEN e.stack[i] ELSE back
  <2>1. e.stack \in Seq(Nat) /\ back \in Nat /\ Len(e.stack) \in Nat
    BY <1>4 DEF ShapeInv
  <2>2. /\ Len(c.stack) = Len(e.stack) + 1 /\ c.stack # <<>>
        /\ \A i \in 1..Len(c.stack) : c.stack[i] = IF i <= Len(e.stack) THEN e.stack[i] ELSE back
    BY <2>1, <1>10
  <2>3. Last(c.stack) = back
    BY <2>1, <2>2 DEF Last
  <2>4. Drop(c.stack, 1) = e.stack
    BY <2>1, <2>2, <1>10 DEF Drop
  <2> QED
    BY <2>2, <2>3, <2>4
<1>12. Sound(e2, c)
  <2>1. c.scope \in Kept(e2) \cup c.doomed /\ c.class \in Kept(e2) \cup {0}
    BY <1>2, <1>10 DEF Sound
  <2>2. \A i \in 1..Len(c.stack) : c.stack[i] \in Kept(e2) \cup c.doomed
    <3>1. \A i \in 1..Len(e.stack) : e.stack[i] \in Kept(e) \cup d.doomed
      BY DEF Sound, Here
    <3>2. Len(e.stack) \in Nat
      BY DEF ShapeInv
    <3> QED
      BY <3>1, <3>2, <1>2, <1>10, <1>11
  <2>3. ASSUME NEW s \in c.doomed PROVE e2.scopes[s].parent \in Kept(e2) \cup c.doomed
    <3>1. CASE s = n
      <4>1. e2.scopes[n].parent = parent
        BY <1>1 DEF Enters
      <4> QED
        BY <4>1, <3>1, <1>2, <1>10
    <3>2. CASE s \in d.doomed
      BY <3>2, <1>8, <1>10 DEF Sound
    <3> QED
      BY <3>1, <3>2, <1>10
  <2> QED
    BY <2>1, <2>2, <2>3 DEF Sound
<1>13. Ready(p, e2, end, c)
  BY <1>10, <1>11 DEF Ready, Pops, Destroys
<1>14. Follows(end, c, d)
  <2>1. /\ d.stack = e.stack /\ d.scope = e.current_scope /\ d.class = c.class /\ d.len = c.len
        /\ d.doomed = c.doomed \ {c.scope} /\ d.safe = c.safe /\ d.included = c.included
        /\ d.mode = e.class_reexecuting
    BY <1>1, <1>3, <1>10 DEF Here
  <2> QED
    BY <2>1, <1>10, <1>11 DEF Follows, Pops, Destroys
<1>15. Leads(p, e2, <<end>> \o tasks, c)
  BY <1>8, <1>9, <1>12, <1>13, <1>14, ConsPath
<1>16. Here(e2, c)
  <2>1. {s \in 1..Len(e2.scopes) : e2.scopes[s].live}
        = {s \in 1..Len(e.scopes) : e.scopes[s].live} \cup {n}
    <3>1. 1..Len(e2.scopes) = 1..Len(e.scopes) \cup {n}
      BY <1>1 DEF Enters
    <3>2. e2.scopes[n].live /\ \A s \in 1..Len(e.scopes) : e2.scopes[s].live = e.scopes[s].live
      BY DEF Enters
    <3> HIDE DEF n
    <3> QED
      BY <3>1, <3>2
  <2>2. {s \in 1..Len(e.scopes) : e.scopes[s].live} = Kept(e) \cup d.doomed
    BY DEF Here
  <2>3. {s \in 1..Len(e2.scopes) : e2.scopes[s].live} = Kept(e2) \cup c.doomed
    BY <2>1, <2>2, <1>2, <1>10
  <2>4. Kept(e2) \cap c.doomed = {}
    BY <1>1, <1>2, <1>3, <1>10 DEF Here
  <2> QED
    BY <2>3, <2>4, <1>10 DEF Here, Enters
<1> QED
  BY <1>5, <1>6, <1>9, <1>10, <1>15, <1>16, ConsIsSeq

\* The stack with one more scope on it, seen from the context that put it there.
LEMMA Pushed ==
    ASSUME NEW stack \in Seq(Nat), NEW back \in Nat
    PROVE  /\ Append(stack, back) \in Seq(Nat) /\ Append(stack, back) # <<>>
           /\ Last(Append(stack, back)) = back /\ Drop(Append(stack, back), 1) = stack
           /\ Len(stack) \in Nat /\ Len(Append(stack, back)) = Len(stack) + 1
           /\ \A i \in 1..Len(stack) : Append(stack, back)[i] = stack[i]
           /\ Append(stack, back)[Len(stack) + 1] = back
<1>1. /\ Append(stack, back) \in Seq(Nat) /\ Append(stack, back) # <<>>
      /\ Len(stack) \in Nat /\ Len(Append(stack, back)) = Len(stack) + 1
      /\ \A i \in 1..Len(stack) : Append(stack, back)[i] = stack[i]
      /\ Append(stack, back)[Len(stack) + 1] = back
  OBVIOUS
<1>2. Last(Append(stack, back)) = back
  BY <1>1 DEF Last
<1>3. Drop(Append(stack, back), 1) = stack
  BY <1>1 DEF Drop
<1> QED
  BY <1>1, <1>2, <1>3

\* The scope of a class, which is kept.
LEMMA EnterClass ==
    ASSUME NEW p, NEW e, NEW e2, ShapeInv(e), KeptInv(e), NEW tasks, IsSeq(tasks),
           NEW d \in Contexts, Leads(p, e, tasks, d), Here(e, d), Sound(e, d),
           NEW class \in ClassNames, class \notin DOMAIN e.class_scopes,
           d.included \subseteq DOMAIN e.class_scopes \cup {class},
           NEW parent \in Kept(e), Enters(e, e2, parent, e.current_scope),
           e2.class_scope = Len(e.scopes) + 1,
           e2.class_scopes = Put(e.class_scopes, class, Len(e.scopes) + 1),
           e2.class_reexecuting = e.class_reexecuting,
           NEW end, end.do = "endClass", end.class = class, end.outer = e.class_scope
    PROVE  /\ ShapeInv(e2) /\ KeptInv(e2) /\ IsSeq(<<end>> \o tasks)
           /\ \E c \in Contexts :
                 /\ Here(e2, c) /\ c.included \subseteq DOMAIN e2.class_scopes
                 /\ Leads(p, e2, <<end>> \o tasks, c)
<1> DEFINE n == Len(e.scopes) + 1
           c == [stack |-> Append(e.stack, e.current_scope), scope |-> n, class |-> n,
                 mode |-> d.mode, len |-> d.len, doomed |-> d.doomed, safe |-> d.safe,
                 included |-> d.included]
<1>1. n \in Nat \ {0} /\ Len(e.scopes) \in Nat /\ n \notin 1..Len(e.scopes)
  BY DEF ShapeInv, IsSeq
<1>2. /\ DOMAIN e2.class_scopes = DOMAIN e.class_scopes \cup {class}
      /\ e2.class_scopes[class] = n
      /\ \A k \in DOMAIN e.class_scopes : e2.class_scopes[k] = e.class_scopes[k]
  BY DEF Put
<1>3. Kept(e2) = Kept(e) \cup {n}
  <2> HIDE DEF n
  <2> QED
    BY <1>2 DEF Kept
<1>4. Kept(e) \subseteq 1..Len(e.scopes) /\ d.doomed \subseteq 1..Len(e.scopes)
  BY DoomedExist DEF KeptInv
<1>5. parent \in 1..Len(e.scopes) /\ e.current_scope \in 1..Len(e.scopes)
  BY <1>4 DEF Here, Sound
<1>6. ShapeInv(e2)
  <2>1. e2.class_scope \in Nat /\ DOMAIN e2.class_scopes \subseteq ClassNames
    BY <1>1, <1>2 DEF ShapeInv
  <2> QED
    BY <1>5, <2>1, EntersShape
<1>7. KeptInv(e2)
  <2>1. Kept(e2) \subseteq 1..Len(e2.scopes)
    BY <1>1, <1>3, <1>4 DEF Enters
  <2>2. ASSUME NEW s \in Kept(e) PROVE e2.scopes[s].parent \in Kept(e2) \cup {0}
    <3>1. e2.scopes[s].parent = e.scopes[s].parent
      BY <1>4 DEF Enters
    <3> QED
      BY <3>1, <1>3 DEF KeptInv
  <2>3. e2.scopes[n].parent \in Kept(e2)
    BY <1>3 DEF Enters
  <2> QED
    BY <2>1, <2>2, <2>3, <1>3 DEF KeptInv
<1>8. Extends(e, e2, d.len)
  BY <1>2, <1>3, EntersExtends
<1>9. Leads(p, e2, tasks, d) /\ Sound(e2, d)
  BY <1>4, <1>8, ExtendPath, SoundExtends
<1>10. e.stack \in Seq(Nat) /\ e.current_scope \in Nat
  BY DEF ShapeInv
<1>11. c \in Contexts
  BY <1>1, <1>10, Pushed DEF Contexts
<1>12. /\ c.stack = Append(e.stack, e.current_scope) /\ c.scope = n /\ c.class = n
       /\ c.mode = d.mode /\ c.len = d.len /\ c.doomed = d.doomed
       /\ c.safe = d.safe /\ c.included = d.included
  OBVIOUS
<1> HIDE DEF c
<1>13. Sound(e2, c)
  <2>1. ASSUME NEW i \in 1..Len(c.stack) PROVE c.stack[i] \in Kept(e2) \cup c.doomed
    <3>1. CASE i \in 1..Len(e.stack)
      BY <3>1, <1>9, <1>10, <1>12, Pushed DEF Sound, Here
    <3>2. CASE i = Len(e.stack) + 1
      BY <3>2, <1>9, <1>10, <1>12, Pushed DEF Sound, Here
    <3> QED
      BY <3>1, <3>2, <1>10, <1>12, Pushed
  <2>2. c.scope \in Kept(e2) /\ c.class \in Kept(e2)
    BY <1>3, <1>12
  <2>3. \A s \in c.doomed : e2.scopes[s].parent \in Kept(e2) \cup c.doomed
    BY <1>9, <1>12 DEF Sound
  <2> QED
    BY <2>1, <2>2, <2>3 DEF Sound
<1>14. Ready(p, e2, end, c)
  BY <1>2, <1>10, <1>12, Pushed DEF Ready, Pops, Destroys
<1>15. Follows(end, c, d)
  BY <1>10, <1>12, Pushed DEF Follows, Pops, Destroys, Here
<1>16. Leads(p, e2, <<end>> \o tasks, c)
  BY <1>9, <1>11, <1>13, <1>14, <1>15, ConsPath
<1>17. Here(e2, c)
  <2>1. {s \in 1..Len(e2.scopes) : e2.scopes[s].live}
        = {s \in 1..Len(e.scopes) : e.scopes[s].live} \cup {n}
    <3>1. 1..Len(e2.scopes) = 1..Len(e.scopes) \cup {n}
      BY <1>1 DEF Enters
    <3>2. e2.scopes[n].live /\ \A s \in 1..Len(e.scopes) : e2.scopes[s].live = e.scopes[s].live
      BY DEF Enters
    <3> HIDE DEF n
    <3> QED
      BY <3>1, <3>2
  <2>2. {s \in 1..Len(e.scopes) : e.scopes[s].live} = Kept(e) \cup d.doomed
    BY DEF Here
  <2>3. {s \in 1..Len(e2.scopes) : e2.scopes[s].live} = Kept(e2) \cup c.doomed
    BY <2>1, <2>2, <1>3, <1>12
  <2>4. Kept(e2) \cap c.doomed = {}
    BY <1>1, <1>3, <1>4, <1>12 DEF Here
  <2> QED
    BY <2>3, <2>4, <1>12 DEF Here, Enters
<1> QED
  BY <1>2, <1>6, <1>7, <1>11, <1>12, <1>16, <1>17, ConsIsSeq

\* The scope of a class that is executed again.
LEMMA ReenterClass ==
    ASSUME NEW p, NEW e, NEW e2, ShapeInv(e2), KeptInv(e2), Kept(e2) = Kept(e),
           Extends(e, e2, Len(e.deferred_defines)), NEW tasks, IsSeq(tasks),
           NEW d \in Contexts, Leads(p, e, tasks, d), Here(e, d), Sound(e, d),
           e.stack \in Seq(Nat), e.current_scope \in Nat,
           d.included \subseteq DOMAIN e2.class_scopes,
           NEW scope \in Kept(e), e2.current_scope = scope, e2.class_scope = scope,
           e2.stack = Append(e.stack, e.current_scope),
           e2.deferred_defines = e.deferred_defines,
           {s \in 1..Len(e2.scopes) : e2.scopes[s].live}
               = {s \in 1..Len(e.scopes) : e.scopes[s].live},
           NEW end, end.do = "endReexecution", end.outer = e.class_scope,
           end.reexecuting = e.class_reexecuting
    PROVE  \E c \in Contexts :
              /\ Here(e2, c) /\ c.included \subseteq DOMAIN e2.class_scopes
              /\ c.scope \in Kept(e2)
              /\ Leads(p, e2, <<end>> \o tasks, c)
<1> DEFINE c == [stack |-> Append(e.stack, e.current_scope), scope |-> scope, class |-> scope,
                 mode |-> e2.class_reexecuting, len |-> d.len, doomed |-> d.doomed,
                 safe |-> d.safe, included |-> d.included]
<1>1. d.doomed \subseteq 1..Len(e.scopes) /\ d.len = Len(e.deferred_defines)
  BY DoomedExist DEF Here
<1>2. Leads(p, e2, tasks, d) /\ Sound(e2, d)
  BY <1>1, ExtendPath, SoundExtends
<1>3. scope \in Nat /\ e2.class_reexecuting \in BOOLEAN
  BY DEF ShapeInv
<1>4. c \in Contexts
  BY <1>3, Pushed DEF Contexts
<1>5. /\ c.stack = Append(e.stack, e.current_scope) /\ c.scope = scope /\ c.class = scope
      /\ c.mode = e2.class_reexecuting /\ c.len = d.len /\ c.doomed = d.doomed
      /\ c.safe = d.safe /\ c.included = d.included
  OBVIOUS
<1> HIDE DEF c
<1>6. Sound(e2, c)
  <2>1. ASSUME NEW i \in 1..Len(c.stack) PROVE c.stack[i] \in Kept(e2) \cup c.doomed
    <3>1. CASE i \in 1..Len(e.stack)
      BY <3>1, <1>2, <1>5, Pushed DEF Sound, Here
    <3>2. CASE i = Len(e.stack) + 1
      BY <3>2, <1>2, <1>5, Pushed DEF Sound, Here
    <3> QED
      BY <3>1, <3>2, <1>5, Pushed
  <2>2. c.scope \in Kept(e2) /\ c.class \in Kept(e2)
    BY <1>5
  <2>3. \A s \in c.doomed : e2.scopes[s].parent \in Kept(e2) \cup c.doomed
    BY <1>2, <1>5 DEF Sound
  <2> QED
    BY <2>1, <2>2, <2>3 DEF Sound
<1>7. Ready(p, e2, end, c)
  BY <1>5, Pushed DEF Ready, Pops, Destroys
<1>8. Follows(end, c, d)
  BY <1>5, Pushed DEF Follows, Pops, Destroys, Here
<1>9. Leads(p, e2, <<end>> \o tasks, c)
  BY <1>2, <1>4, <1>6, <1>7, <1>8, ConsPath
<1>10. Here(e2, c)
  BY <1>5 DEF Here
<1> QED
  BY <1>4, <1>5, <1>9, <1>10

-----------------------------------------------------------------------------
(* Steps that go back, and the lists of instances *)

\* Only the scope that is left, the class and the mode are different in e2.
Leaves(e, e2) ==
    /\ DOMAIN e2 = Fields /\ e2.todo = Tail(e.todo)
    /\ e2.stack = Drop(e.stack, 1)
    /\ e2.class_scopes = e.class_scopes /\ e2.deferred_defines = e.deferred_defines
    /\ IsSeq(e2.scopes) /\ Len(e2.scopes) = Len(e.scopes)
    /\ \A s \in 1..Len(e.scopes) : /\ DOMAIN e2.scopes[s] = ScopeFields
                                   /\ e2.scopes[s].parent = e.scopes[s].parent
    /\ e.resource_catalog \subseteq e2.resource_catalog

\* The task that ends a body goes back to where the body was entered.
LEMMA GoBack ==
    ASSUME NEW p, NEW e, NEW e2, FrameInv(p, e), e.todo # <<>>, Head(e.todo).do \in Pops,
           Leaves(e, e2),
           e2.current_scope = IF Head(e.todo).do = "endDefine" THEN Head(e.todo).caller
                              ELSE Last(e.stack),
           e2.class_scope = IF Head(e.todo).do \in {"endClass", "endReexecution"}
                            THEN Head(e.todo).outer ELSE e.class_scope,
           e2.class_reexecuting = IF Head(e.todo).do \in {"endDefine", "endReexecution"}
                                  THEN Head(e.todo).reexecuting ELSE e.class_reexecuting,
           \A s \in 1..Len(e.scopes) : e2.scopes[s].live
               = IF Head(e.todo).do \in Destroys /\ s = e.current_scope
                 THEN FALSE ELSE e.scopes[s].live
    PROVE  FrameInv(p, e2)
<1> DEFINE t == Head(e.todo)
<1>1. PICK c \in Contexts, d \in Contexts :
          /\ Here(e, c) /\ Sound(e, c) /\ c.included \subseteq DOMAIN e.class_scopes
          /\ Ready(p, e, t, c) /\ Follows(t, c, d) /\ Leads(p, e, Tail(e.todo), d)
  BY FirstTask
<1>2. /\ IsSeq(Tail(e.todo)) /\ Tail(e.todo) # <<>>
      /\ Tail(e.todo)[Len(Tail(e.todo))].do = "deferred"
  BY FirstTask DEF Pops
<1>3. t.do \in Pops /\ t.do # "deferred" /\ Brings(t) = {}
  BY DEF Pops, Brings
<1>4. /\ d.stack = e2.stack /\ d.scope = e2.current_scope /\ d.class = e2.class_scope
      /\ d.mode = e2.class_reexecuting /\ d.len = Len(e2.deferred_defines)
      /\ d.included \subseteq DOMAIN e2.class_scopes
      /\ d.len = c.len
      /\ d.doomed = IF t.do \in Destroys THEN c.doomed \ {e.current_scope} ELSE c.doomed
  BY <1>1, <1>3 DEF Follows, Leaves, Here
<1>5. Kept(e2) = Kept(e) /\ ShapeInv(e) /\ KeptInv(e) /\ Len(e.scopes) \in Nat
  <2>1. Kept(e2) = Kept(e)
    BY DEF Leaves, Kept
  <2>2. ShapeInv(e) /\ KeptInv(e)
    BY DEF FrameInv
  <2>3. IsSeq(e.scopes)
    BY <2>2 DEF ShapeInv
  <2> QED
    BY <2>1, <2>2, <2>3 DEF IsSeq
<1>6. ShapeInv(e2)
  <2>1. /\ e2.stack \in Seq(Nat) /\ e2.current_scope \in Nat /\ e2.class_scope \in Nat
        /\ e2.class_reexecuting \in BOOLEAN
    BY <1>4 DEF Contexts
  <2>2. IsSeq(e2.todo)
    BY <1>2 DEF Leaves
  <2>3. \A s \in 1..Len(e2.scopes) :
            /\ DOMAIN e2.scopes[s] = ScopeFields
            /\ e2.scopes[s].parent \in Nat /\ e2.scopes[s].parent < s
            /\ e2.scopes[s].live \in BOOLEAN
    BY <1>5 DEF Leaves, ShapeInv
  <2> QED
    BY <2>1, <2>2, <2>3, <1>5 DEF Leaves, ShapeInv
<1>7. KeptInv(e2)
  BY <1>5 DEF KeptInv, Leaves
<1>8. Extends(e, e2, d.len)
  BY <1>5 DEF Leaves, Extends
<1>9. Leads(p, e2, Tail(e.todo), d)
  <2>1. c.doomed \subseteq 1..Len(e.scopes)
    BY <1>1, DoomedExist
  <2>2. d.doomed \subseteq 1..Len(e.scopes)
    BY <2>1, <1>4
  <2> QED
    BY <1>1, <1>2, <1>8, <2>2, ExtendPath
<1>10. Here(e2, d)
  <2>1. {s \in 1..Len(e.scopes) : e.scopes[s].live} = Kept(e) \cup c.doomed
        /\ Kept(e) \cap c.doomed = {}
    BY <1>1 DEF Here
  <2>2. CASE t.do \in Destroys
    <3>1. {s \in 1..Len(e2.scopes) : e2.scopes[s].live}
          = {s \in 1..Len(e.scopes) : e.scopes[s].live} \ {e.current_scope}
      BY <2>2 DEF Leaves
    <3>2. e.current_scope \in c.doomed
      BY <2>2, <1>1 DEF Ready, Here
    <3>3. d.doomed = c.doomed \ {e.current_scope}
      BY <2>2, <1>4
    <3>4. (Kept(e) \cup c.doomed) \ {e.current_scope} = Kept(e2) \cup d.doomed
      BY <2>1, <3>2, <3>3, <1>5
    <3> QED
      BY <2>1, <3>1, <3>3, <3>4, <1>4, <1>5 DEF Here
  <2>3. CASE t.do \notin Destroys
    <3>1. {s \in 1..Len(e2.scopes) : e2.scopes[s].live}
          = {s \in 1..Len(e.scopes) : e.scopes[s].live}
      BY <2>3 DEF Leaves
    <3> QED
      BY <2>1, <2>3, <3>1, <1>4, <1>5 DEF Here
  <2> QED
    BY <2>2, <2>3
<1>11. LastInv(e2)
  BY <1>2 DEF LastInv, Leaves
<1>12. PathInv(p, e2)
  BY <1>4, <1>9, <1>10 DEF PathInv, Leaves
<1> QED
  BY <1>6, <1>7, <1>11, <1>12 DEF FrameInv

\* A list has ended: what it deferred is forgotten.
LEMMA ListEnds ==
    ASSUME NEW p, NEW e, NEW e2, FrameInv(p, e), e.todo # <<>>, Head(e.todo).do = "deferred",
           DOMAIN e2 = Fields, e2.todo = Tail(e.todo),
           e2.deferred_defines = SubSeq(e.deferred_defines, 1, Head(e.todo).saved),
           \A x \in Fields \ {"todo", "deferred_defines"} : e2[x] = e[x]
    PROVE  FrameInv(p, e2)
<1> DEFINE t == Head(e.todo)
           D == e.deferred_defines
<1>1. PICK c \in Contexts, d \in Contexts :
          /\ Here(e, c) /\ Sound(e, c) /\ c.included \subseteq DOMAIN e.class_scopes
          /\ Ready(p, e, t, c) /\ Follows(t, c, d) /\ Leads(p, e, Tail(e.todo), d)
  BY FirstTask
<1>2. /\ IsSeq(Tail(e.todo))
      /\ Tail(e.todo) # <<>> => Tail(e.todo)[Len(Tail(e.todo))].do = "deferred"
  BY FirstTask
<1>3. t.do = "deferred" /\ Brings(t) = {}
  BY DEF Brings
<1>4. /\ e2.stack = e.stack /\ e2.current_scope = e.current_scope
      /\ e2.class_scope = e.class_scope /\ e2.class_scopes = e.class_scopes
      /\ e2.class_reexecuting = e.class_reexecuting /\ e2.scopes = e.scopes
      /\ e2.resource_catalog = e.resource_catalog
  BY DEF Fields
<1>5. t.saved \in Nat /\ t.saved <= Len(D) /\ Len(D) \in Nat /\ IsSeq(D)
  <2>1. c.len = Len(D) /\ c.len \in Nat
    BY <1>1 DEF Here, Contexts
  <2>2. t.saved \in Nat /\ t.cursor \in Nat /\ t.saved <= t.cursor /\ t.cursor <= c.len
    BY <1>1, <1>3 DEF Ready
  <2> QED
    BY <2>1, <2>2 DEF FrameInv, ShapeInv
<1>6. /\ IsSeq(e2.deferred_defines) /\ Len(e2.deferred_defines) = t.saved
      /\ \A i \in 1..t.saved : e2.deferred_defines[i] = D[i]
  <2>1. PICK T : D \in Seq(T)
    BY <1>5 DEF IsSeq
  <2> HIDE DEF D, t
  <2>2. SubSeq(D, 1, t.saved) \in Seq(T) /\ Len(SubSeq(D, 1, t.saved)) = t.saved
    BY <2>1, <1>5
  <2>3. \A i \in 1..t.saved : SubSeq(D, 1, t.saved)[i] = D[i]
    BY <2>1, <1>5
  <2>4. e2.deferred_defines = SubSeq(D, 1, t.saved)
    BY DEF D, t
  <2> QED
    BY <2>2, <2>3, <2>4, SeqOfAny
<1>7. /\ d.stack = c.stack /\ d.scope = c.scope /\ d.class = c.class /\ d.mode = c.mode
      /\ d.len = t.saved /\ d.doomed = c.doomed
      /\ d.included \subseteq DOMAIN e.class_scopes
  BY <1>1, <1>3 DEF Follows, Pops, Destroys
<1>8. Kept(e2) = Kept(e)
  BY <1>4 DEF Kept
<1>9. ShapeInv(e2)
  <2>1. ASSUME NEW i \in 1..Len(e2.deferred_defines)
        PROVE  /\ DOMAIN e2.deferred_defines[i] = EntryFields
               /\ e2.deferred_defines[i].caller_scope \in Nat
               /\ e2.deferred_defines[i].class_reexecuting \in BOOLEAN
    <3>1. i \in 1..Len(D) /\ e2.deferred_defines[i] = D[i]
      BY <1>5, <1>6
    <3> QED
      BY <3>1 DEF FrameInv, ShapeInv
  <2> QED
    BY <2>1, <1>2, <1>4, <1>6 DEF FrameInv, ShapeInv
<1>10. KeptInv(e2)
  BY <1>4, <1>8 DEF FrameInv, KeptInv
<1>11. Extends(e, e2, d.len)
  BY <1>4, <1>6, <1>7, <1>8 DEF Extends
<1>12. Leads(p, e2, Tail(e.todo), d)
  <2>1. d.doomed \subseteq 1..Len(e.scopes)
    BY <1>1, <1>7, DoomedExist
  <2> QED
    BY <1>1, <1>2, <1>11, <2>1, ExtendPath
<1>13. Here(e2, d)
  BY <1>1, <1>4, <1>6, <1>7, <1>8 DEF Here
<1>14. LastInv(e2)
  BY <1>2 DEF LastInv
<1>15. PathInv(p, e2)
  BY <1>4, <1>7, <1>12, <1>13 DEF PathInv
<1> QED
  BY <1>9, <1>10, <1>14, <1>15 DEF FrameInv

\* The list at hand has one more instance.
LEMMA ListGrows ==
    ASSUME NEW p, NEW e, NEW e2, FrameInv(p, e), e.todo # <<>>, Head(e.todo).do = "stmt",
           IsInstance(p, Head(e.todo).stmt),
           DOMAIN e2 = Fields, e2.todo = Tail(e.todo),
           NEW entry, DOMAIN entry = EntryFields, entry.caller_scope = e.current_scope,
           entry.class_reexecuting = e.class_reexecuting,
           e2.deferred_defines = Append(e.deferred_defines, entry),
           \A x \in {"stack", "current_scope", "class_scope", "class_scopes",
                     "class_reexecuting", "scopes"} : e2[x] = e[x],
           e.resource_catalog \subseteq e2.resource_catalog
    PROVE  FrameInv(p, e2)
<1> DEFINE D == e.deferred_defines
<1>1. PICK d \in Contexts :
          /\ Here(e, d) /\ Sound(e, d) /\ Leads(p, e, Tail(e.todo), d)
          /\ Ready(p, e, Head(e.todo), d)
          /\ d.included \subseteq DOMAIN e.class_scopes \cup Brings(Head(e.todo))
  BY FirstStmt
<1>2. /\ IsSeq(Tail(e.todo)) /\ Tail(e.todo) # <<>>
      /\ Tail(e.todo)[Len(Tail(e.todo))].do = "deferred"
  BY FirstTask, FirstStmt
<1>3. Brings(Head(e.todo)) = {}
  BY DEF Brings, IsInstance
<1>4. e.current_scope \in Kept(e) \cup d.safe
  BY <1>1 DEF Ready, Here
<1>5. /\ e2.stack = e.stack /\ e2.current_scope = e.current_scope
      /\ e2.class_scope = e.class_scope /\ e2.class_scopes = e.class_scopes
      /\ e2.class_reexecuting = e.class_reexecuting /\ e2.scopes = e.scopes
  OBVIOUS
<1>6. /\ IsSeq(e2.deferred_defines) /\ Len(D) \in Nat
      /\ Len(e2.deferred_defines) = Len(D) + 1
      /\ e2.deferred_defines[Len(D) + 1] = entry
      /\ \A i \in 1..Len(D) : e2.deferred_defines[i] = D[i]
  <2> DEFINE T == {D[i] : i \in 1..Len(D)} \cup {entry}
  <2>1. D \in Seq(T) /\ entry \in T
    BY DEF FrameInv, ShapeInv, IsSeq
  <2> HIDE DEF T
  <2>2. Append(D, entry) \in Seq(T)
    BY <2>1
  <2>3. IsSeq(Append(D, entry))
    BY <2>2, SeqOfAny
  <2> QED
    BY <2>1, <2>3
<1>7. Kept(e2) = Kept(e)
  BY <1>5 DEF Kept
<1>8. ShapeInv(e2)
  <2>1. ASSUME NEW i \in 1..Len(e2.deferred_defines)
        PROVE  /\ DOMAIN e2.deferred_defines[i] = EntryFields
               /\ e2.deferred_defines[i].caller_scope \in Nat
               /\ e2.deferred_defines[i].class_reexecuting \in BOOLEAN
    <3>1. CASE i \in 1..Len(D)
      BY <3>1, <1>6 DEF FrameInv, ShapeInv
    <3>2. CASE i = Len(D) + 1
      BY <3>2, <1>6 DEF FrameInv, ShapeInv
    <3> QED
      BY <3>1, <3>2, <1>6
  <2> QED
    BY <2>1, <1>2, <1>5, <1>6 DEF FrameInv, ShapeInv
<1>9. KeptInv(e2)
  BY <1>5, <1>7 DEF FrameInv, KeptInv
<1>10. d.len = Len(D) /\ d.doomed \subseteq 1..Len(e.scopes)
  BY <1>1, DoomedExist DEF Here
<1>11. Extends(e, e2, d.len)
  BY <1>5, <1>6, <1>7, <1>10 DEF Extends
<1>12. Leads(p, e2, Tail(e.todo), d)
  BY <1>1, <1>2, <1>10, <1>11, ExtendPath
<1> DEFINE x == [d EXCEPT !.len = @ + 1]
<1>13. Leads(p, e2, Tail(e.todo), x)
  <2>1. e2.deferred_defines[d.len + 1].caller_scope \in Kept(e2) \cup d.safe
    BY <1>4, <1>6, <1>7, <1>10
  <2> QED
    BY <2>1, <1>2, <1>12, MorePath
<1>14. /\ x.stack = d.stack /\ x.scope = d.scope /\ x.class = d.class /\ x.mode = d.mode
       /\ x.doomed = d.doomed /\ x.included = d.included /\ x.len = d.len + 1
  BY DEF Contexts
<1>15. x \in Contexts
  BY <1>2, <1>13, PathParts DEF IsSeq
<1> HIDE DEF x
<1>16. Here(e2, x)
  BY <1>1, <1>5, <1>6, <1>7, <1>10, <1>14 DEF Here
<1>17. LastInv(e2)
  BY <1>2 DEF LastInv
<1>18. PathInv(p, e2)
  BY <1>1, <1>3, <1>5, <1>13, <1>14, <1>15, <1>16 DEF PathInv
<1> QED
  BY <1>8, <1>9, <1>17, <1>18 DEF FrameInv

-----------------------------------------------------------------------------
(* What the invariant says of the properties *)

LEMMA EnvSequences ==
    ASSUME ShapeInv(env)
    PROVE  /\ Scopes = 1..Len(env.scopes) /\ DOMAIN env.todo = 1..Len(env.todo)
           /\ DOMAIN env.stack = 1..Len(env.stack)
           /\ DOMAIN env.deferred_defines = 1..Len(env.deferred_defines)
           /\ Len(env.todo) \in Nat /\ Len(env.deferred_defines) \in Nat
BY DEF ShapeInv, IsSeq, Scopes

\* A path that begins with more than k instances and ends with none comes to a list
\* that has or will run the k-th.
LEMMA SomeListHas ==
    ASSUME NEW p, NEW e, NEW tasks, Len(tasks) \in Nat,
           NEW f \in [1..(Len(tasks) + 1) -> Contexts], Path(p, e, tasks, f),
           NEW k \in 1..f[1].len
    PROVE  \E j \in 1..Len(tasks) :
              /\ tasks[j].do = "deferred" /\ tasks[j].saved < k /\ k <= f[j].len
<1> DEFINE n == Len(tasks) + 1
           T == {i \in 1..n : f[i].len < k}
<1>1. f[1].len \in Nat /\ k \in Nat \ {0} /\ n \in T
  BY DEF Path, AtEnd, Contexts
<1>2. PICK m \in T : \A i \in T : m <= i
  <2>1. T \in SUBSET Nat /\ T # {}
    BY <1>1
  <2> HIDE DEF T
  <2> QED
    BY <2>1, LeastExists
<1>3. m # 1
  BY <1>1
<1>4. m - 1 \in 1..Len(tasks) /\ m - 1 \in 1..n /\ m - 1 \notin T
  BY <1>2, <1>3
<1>5. f[m] \in Contexts /\ f[m - 1] \in Contexts
  BY <1>4
<1>6. Follows(tasks[m - 1], f[m - 1], f[m])
  BY <1>4 DEF Path
<1>7. k <= f[m - 1].len /\ f[m].len < k
  BY <1>1, <1>4, <1>5 DEF Contexts
<1>8. tasks[m - 1].do = "deferred" /\ tasks[m - 1].saved = f[m].len
  BY <1>5, <1>6, <1>7 DEF Follows, Contexts
<1> QED
  BY <1>4, <1>7, <1>8

\* The scope an instance waits for is there.
LEMMA CallersLive ==
    ASSUME FrameInv(program, env), NEW i \in DOMAIN env.deferred_defines, Waiting(i)
    PROVE  Live(env.deferred_defines[i].caller_scope)
<1> DEFINE n == Len(env.todo)
<1>1. /\ i \in 1..Len(env.deferred_defines) /\ DOMAIN env.todo = 1..n /\ n \in Nat
      /\ Len(env.deferred_defines) \in Nat
  BY EnvSequences DEF FrameInv
<1>2. PICK c \in Contexts : Here(env, c) /\ Leads(program, env, env.todo, c)
  BY DEF FrameInv, PathInv
<1>3. PICK f \in [1..(n + 1) -> Contexts] : Path(program, env, env.todo, f) /\ f[1] = c
  BY <1>2 DEF Leads
<1>4. PICK j \in 1..n : /\ env.todo[j].do = "deferred" /\ env.todo[j].saved < i
                        /\ i <= f[j].len
  <2>1. i \in 1..f[1].len
    BY <1>1, <1>2, <1>3 DEF Here
  <2> QED
    BY <2>1, <1>1, <1>3, SomeListHas
<1>5. ~ (i <= env.todo[j].cursor)
  BY <1>1, <1>4 DEF Waiting
<1>6. j \in 1..(n + 1) /\ Ready(program, env, env.todo[j], f[j]) /\ f[j] \in Contexts
  BY <1>1, <1>3 DEF Path
<1>7. i \in (env.todo[j].cursor + 1)..f[j].len
  BY <1>1, <1>4, <1>5, <1>6 DEF Ready, Contexts
<1>8. env.deferred_defines[i].caller_scope \in Kept(env) \cup f[j].doomed
  BY <1>4, <1>6, <1>7 DEF Ready
<1>9. f[j].doomed \subseteq c.doomed
  BY <1>1, <1>3, <1>6, FirstIsLargest
<1> QED
  BY <1>2, <1>8, <1>9 DEF Here, Live

LEMMA FrameImplies ==
    ASSUME FrameInv(program, env)
    PROVE  ScopesLive /\ Restored
<1>1. ShapeInv(env) /\ KeptInv(env)
  BY DEF FrameInv
<1>2. PICK c \in Contexts : Here(env, c) /\ Leads(program, env, env.todo, c)
  BY DEF FrameInv, PathInv
<1>3. Sound(env, c)
  BY <1>1, <1>2, EnvSequences, PathParts
<1>4. /\ {s \in Scopes : env.scopes[s].live} = Kept(env) \cup c.doomed
      /\ \A s \in Kept(env) \cup c.doomed : Live(s)
      /\ Live(0)
  BY <1>1, <1>2, EnvSequences DEF Here, Live
<1>5. ScopesLive
  <2>1. ASSUME NEW s \in Scopes, env.scopes[s].live PROVE Live(env.scopes[s].parent)
    <3>1. s \in Kept(env) \cup c.doomed
      BY <2>1, <1>4
    <3>2. env.scopes[s].parent \in Kept(env) \cup c.doomed \cup {0}
      BY <3>1, <1>1, <1>3 DEF KeptInv, Sound
    <3> QED
      BY <3>2, <1>4
  <2>2. Live(env.current_scope) /\ Live(env.class_scope)
    BY <1>2, <1>3, <1>4 DEF Here, Sound
  <2>3. \A i \in DOMAIN env.stack : Live(env.stack[i])
    BY <1>1, <1>2, <1>3, <1>4, EnvSequences DEF Here, Sound
  <2>4. \A class \in DOMAIN env.class_scopes : Live(env.class_scopes[class])
    BY <1>4 DEF Kept
  <2> QED
    BY <2>1, <2>2, <2>3, <2>4, CallersLive DEF ScopesLive
<1>6. Restored
  <2>1. SUFFICES ASSUME env.todo = <<>>
                 PROVE  /\ env.stack = <<GlobalScope>> /\ env.current_scope = NodeScope
                        /\ env.class_scope = 0 /\ ~ env.class_reexecuting
                        /\ env.deferred_defines = <<>>
                        /\ {s \in Scopes : env.scopes[s].live} = Kept(env)
    BY DEF Restored, Finished, Kept
  <2>2. AtEnd(c)
    BY <1>2, <2>1, PathEnds
  <2>3. env.deferred_defines = <<>>
    BY <1>1, <1>2, <2>2 DEF AtEnd, Here, ShapeInv, IsSeq
  <2> QED
    BY <1>2, <1>4, <2>2, <2>3 DEF AtEnd, Here
<1> QED
  BY <1>5, <1>6

LEMMA InvImplies ==
    ASSUME IndInv
    PROVE  ScopesKept
<1>1. ShapeInv(env) /\ KeptInv(env)
  BY DEF IndInv, FrameInv
<1>2. PICK c \in Contexts : Here(env, c) /\ Leads(program, env, env.todo, c)
  BY DEF IndInv, FrameInv, PathInv
<1>3. Sound(env, c) /\ c.doomed \subseteq 1..Len(env.scopes)
  BY <1>1, <1>2, EnvSequences, PathParts, DoomedExist
<1>4. TypeOK
  <2>1. \A s \in Scopes : env.scopes[s].parent < s
    BY <1>1, EnvSequences DEF ShapeInv
  <2>2. {env.current_scope, env.class_scope} \subseteq Scopes \cup {0}
    BY <1>1, <1>2, <1>3, EnvSequences DEF Sound, Here, KeptInv
  <2>3. ASSUME NEW i \in DOMAIN env.todo, env.todo[i].do = "deferred"
        PROVE  env.todo[i].saved <= env.todo[i].cursor
    <3>1. PICK f \in [1..(Len(env.todo) + 1) -> Contexts] : Path(program, env, env.todo, f)
      BY <1>2 DEF Leads
    <3>2. Ready(program, env, env.todo[i], f[i])
      BY <1>1, <3>1, EnvSequences DEF Path
    <3> QED
      BY <2>3, <3>2 DEF Ready
  <2> QED
    BY <2>1, <2>2, <2>3 DEF TypeOK, IndInv, CatalogInv
<1> QED
  BY <1>4, FrameImplies DEF ScopesKept, IndInv

-----------------------------------------------------------------------------
(* What the operators of the model change *)

\* e2 is e but for some fields.
Only(e, e2, changed) ==
    DOMAIN e2 = Fields /\ \A x \in Fields \ changed : e2[x] = e[x]

\* A change of variables of a scope.
SameScopes(e, e2) ==
    /\ IsSeq(e2.scopes) /\ Len(e2.scopes) = Len(e.scopes)
    /\ \A s \in 1..Len(e.scopes) : /\ DOMAIN e2.scopes[s] = ScopeFields
                                   /\ e2.scopes[s].parent = e.scopes[s].parent
                                   /\ e2.scopes[s].live = e.scopes[s].live

LEMMA SetVarChanges ==
    ASSUME NEW e, DOMAIN e = Fields, IsSeq(e.scopes),
           \A t \in 1..Len(e.scopes) : DOMAIN e.scopes[t] = ScopeFields,
           NEW s \in 1..Len(e.scopes), NEW name, NEW v
    PROVE  /\ Only(e, puppet_scope_set_var(e, s, name, v), {"scopes"})
           /\ SameScopes(e, puppet_scope_set_var(e, s, name, v))
<1> DEFINE e2 == puppet_scope_set_var(e, s, name, v)
           x == [e.scopes[s] EXCEPT !.variables = Put(@, name, v)]
<1>1. Only(e, e2, {"scopes"}) /\ e2.scopes = [e.scopes EXCEPT ![s] = x]
  BY DEF Only, puppet_scope_set_var, Fields
<1>2. DOMAIN x = ScopeFields /\ x.parent = e.scopes[s].parent /\ x.live = e.scopes[s].live
  BY DEF ScopeFields
<1> HIDE DEF x, e2
<1>3. IsSeq(e2.scopes) /\ Len(e2.scopes) = Len(e.scopes)
  <2> DEFINE T == {e.scopes[i] : i \in 1..Len(e.scopes)} \cup {x}
  <2>1. e.scopes \in Seq(T) /\ x \in T
    BY DEF IsSeq
  <2> HIDE DEF T
  <2>2. [e.scopes EXCEPT ![s] = x] \in Seq(T) /\ Len([e.scopes EXCEPT ![s] = x]) = Len(e.scopes)
    BY <2>1
  <2> QED
    BY <2>2, <1>1, SeqOfAny
<1>4. \A t \in 1..Len(e.scopes) : e2.scopes[t] = IF t = s THEN x ELSE e.scopes[t]
  BY <1>1 DEF IsSeq
<1>5. SameScopes(e, e2)
  BY <1>2, <1>3, <1>4 DEF SameScopes
<1> QED
  BY <1>1, <1>5 DEF e2

\* x is e in the new scope n.
NewScope(e, x, n, parent) ==
    /\ Only(e, x, {"scopes", "stack", "current_scope"})
    /\ x.stack = Append(e.stack, e.current_scope) /\ x.current_scope = n
    /\ IsSeq(x.scopes) /\ Len(x.scopes) = n /\ n \in 1..Len(x.scopes)
    /\ \A s \in 1..Len(e.scopes) : x.scopes[s] = e.scopes[s]
    /\ x.scopes[n].parent = parent /\ x.scopes[n].live = TRUE
    /\ \A s \in 1..n : DOMAIN x.scopes[s] = ScopeFields

LEMMA EnterScopeChanges ==
    ASSUME NEW e, DOMAIN e = Fields, IsSeq(e.scopes),
           \A s \in 1..Len(e.scopes) : DOMAIN e.scopes[s] = ScopeFields,
           NEW parent, NEW variables
    PROVE  NewScope(e, EnterScope(e, parent, variables), Len(e.scopes) + 1, parent)
<1> DEFINE e2 == EnterScope(e, parent, variables)
           n  == Len(e.scopes) + 1
           x == [parent |-> parent, variables |-> variables, live |-> TRUE]
<1>1. /\ Only(e, e2, {"scopes", "stack", "current_scope"})
      /\ e2.stack = Append(e.stack, e.current_scope) /\ e2.current_scope = n
      /\ e2.scopes = Append(e.scopes, x)
  BY DEF Only, EnterScope, Fields
<1>2. x.parent = parent /\ x.live = TRUE /\ DOMAIN x = ScopeFields
  BY DEF ScopeFields
<1> HIDE DEF x, e2
<1>3. /\ IsSeq(e2.scopes) /\ Len(e2.scopes) = n /\ n \in 1..Len(e2.scopes)
      /\ e2.scopes[n] = x /\ \A s \in 1..Len(e.scopes) : e2.scopes[s] = e.scopes[s]
      /\ 1..n = 1..Len(e.scopes) \cup {n}
  <2> DEFINE T == {e.scopes[i] : i \in 1..Len(e.scopes)} \cup {x}
  <2>1. e.scopes \in Seq(T) /\ x \in T
    BY DEF IsSeq
  <2> HIDE DEF T
  <2>2. Append(e.scopes, x) \in Seq(T) /\ Len(e.scopes) \in Nat
    BY <2>1
  <2>3. IsSeq(e2.scopes)
    BY <2>2, <1>1, SeqOfAny
  <2> QED
    BY <2>1, <2>2, <2>3, <1>1
<1>4. \A s \in 1..n : DOMAIN e2.scopes[s] = ScopeFields
  BY <1>2, <1>3
<1> QED
  BY <1>1, <1>2, <1>3, <1>4 DEF NewScope, e2

LEMMA PopChanges ==
    ASSUME NEW e, DOMAIN e = Fields
    PROVE  /\ Only(e, puppet_scope_pop(e), {"stack", "current_scope"})
           /\ puppet_scope_pop(e).stack = Drop(e.stack, 1)
           /\ puppet_scope_pop(e).current_scope = Last(e.stack)
BY DEF Only, puppet_scope_pop, Fields

LEMMA LeaveChanges ==
    ASSUME NEW e, DOMAIN e = Fields, IsSeq(e.scopes),
           \A t \in 1..Len(e.scopes) : DOMAIN e.scopes[t] = ScopeFields,
           e.current_scope \in 1..Len(e.scopes)
    PROVE  LET e2 == LeaveScope(e)
           IN  /\ Only(e, e2, {"scopes", "stack", "current_scope"})
               /\ e2.stack = Drop(e.stack, 1) /\ e2.current_scope = Last(e.stack)
               /\ IsSeq(e2.scopes) /\ Len(e2.scopes) = Len(e.scopes)
               /\ \A s \in 1..Len(e.scopes) :
                     /\ DOMAIN e2.scopes[s] = ScopeFields
                     /\ e2.scopes[s].parent = e.scopes[s].parent
                     /\ e2.scopes[s].live = IF s = e.current_scope THEN FALSE ELSE e.scopes[s].live
<1> DEFINE x  == [e.scopes[e.current_scope] EXCEPT !.live = FALSE]
           e1 == [e EXCEPT !.scopes[e.current_scope].live = FALSE]
           e2 == LeaveScope(e)
<1>1. Only(e, e1, {"scopes"}) /\ e1.scopes = [e.scopes EXCEPT ![e.current_scope] = x]
  BY DEF Only, Fields
<1>2. e2 = puppet_scope_pop(e1)
  BY DEF LeaveScope
<1>3. /\ DOMAIN x = ScopeFields /\ x.parent = e.scopes[e.current_scope].parent
      /\ x.live = FALSE
  BY DEF ScopeFields
<1> HIDE DEF x, e1, e2
<1>4. /\ Only(e, e2, {"scopes", "stack", "current_scope"})
      /\ e2.stack = Drop(e.stack, 1) /\ e2.current_scope = Last(e.stack)
      /\ e2.scopes = e1.scopes
  BY <1>1, <1>2, PopChanges DEF Only, Fields
<1>5. IsSeq(e2.scopes) /\ Len(e2.scopes) = Len(e.scopes)
  <2> DEFINE T == {e.scopes[i] : i \in 1..Len(e.scopes)} \cup {x}
  <2>1. e.scopes \in Seq(T) /\ x \in T
    BY DEF IsSeq
  <2> HIDE DEF T
  <2>2. /\ [e.scopes EXCEPT ![e.current_scope] = x] \in Seq(T)
        /\ Len([e.scopes EXCEPT ![e.current_scope] = x]) = Len(e.scopes)
    BY <2>1
  <2> QED
    BY <2>2, <1>1, <1>4, SeqOfAny
<1>6. \A t \in 1..Len(e.scopes) : e2.scopes[t] = IF t = e.current_scope THEN x ELSE e.scopes[t]
  BY <1>1, <1>4 DEF IsSeq
<1>7. \A s \in 1..Len(e.scopes) :
          /\ DOMAIN e2.scopes[s] = ScopeFields
          /\ e2.scopes[s].parent = e.scopes[s].parent
          /\ e2.scopes[s].live = IF s = e.current_scope THEN FALSE ELSE e.scopes[s].live
  BY <1>3, <1>6
<1> QED
  BY <1>4, <1>5, <1>7 DEF e2

LEMMA DoChanges ==
    ASSUME NEW e, DOMAIN e = Fields, NEW tasks
    PROVE  Only(e, Do(e, tasks), {"todo"}) /\ Do(e, tasks).todo = tasks \o e.todo
BY DEF Only, Do, Fields

LEMMA MarkChanges ==
    ASSUME NEW e, DOMAIN e = Fields, NEW id
    PROVE  /\ Only(e, Mark(e, id), {"resource_catalog"})
           /\ Mark(e, id).resource_catalog = e.resource_catalog \cup {id}
BY DEF Only, Mark, Fields

LEMMA ErrorChanges ==
    ASSUME NEW e, DOMAIN e = Fields
    PROVE  Only(e, puppet_env_increment_error(e), {"errors"})
BY DEF Only, puppet_env_increment_error, Fields

LEMMA AddResourceChanges ==
    ASSUME NEW e, DOMAIN e = Fields, NEW id, NEW v
    PROVE  LET e2 == puppet_catalog_add_resource(e, id, v)
           IN  /\ Only(e, e2, {"catalog"})
               /\ DOMAIN e2.catalog = DOMAIN e.catalog \cup {id}
               /\ \A k \in DOMAIN e.catalog : e2.catalog[k] = e.catalog[k]
<1>1. CASE id \in DOMAIN e.catalog
  BY <1>1 DEF Only, puppet_catalog_add_resource
<1>2. CASE id \notin DOMAIN e.catalog
  BY <1>2 DEF Only, puppet_catalog_add_resource, Put, Fields
<1> QED
  BY <1>1, <1>2

LEMMA AddOrUpdateChanges ==
    ASSUME NEW e, DOMAIN e = Fields, NEW id, NEW v
    PROVE  LET e2 == AddOrUpdate(e, id, v)
           IN  /\ Only(e, e2, {"catalog"})
               /\ DOMAIN e2.catalog = DOMAIN e.catalog \cup {id}
               /\ ~ e.class_reexecuting =>
                      \A k \in DOMAIN e.catalog : e2.catalog[k] = e.catalog[k]
<1>1. CASE e.class_reexecuting
  BY <1>1 DEF Only, AddOrUpdate, Put, Fields
<1>2. CASE ~ e.class_reexecuting
  BY <1>2, AddResourceChanges DEF AddOrUpdate
<1> QED
  BY <1>1, <1>2

LEMMA RealizedChanges ==
    ASSUME NEW e, DOMAIN e = Fields, NEW id
    PROVE  /\ Only(e, Realized(e, id), {"virtual_resources"})
           /\ Realized(e, id).virtual_resources
                = [e.virtual_resources EXCEPT ![id].realized = TRUE]
BY DEF Only, Realized, Fields

LEMMA DeferChanges ==
    ASSUME NEW e, DOMAIN e = Fields, NEW entry
    PROVE  /\ Only(e, DeferDefine(e, entry), {"deferred_defines", "capacity", "generation"})
           /\ DeferDefine(e, entry).deferred_defines = Append(e.deferred_defines, entry)
BY DEF Only, DeferDefine, Fields

LEMMA RestChanges ==
    ASSUME DOMAIN env = Fields
    PROVE  Only(env, Rest, {"todo"}) /\ Rest.todo = Tail(env.todo)
BY DEF Only, Rest, Fields

-----------------------------------------------------------------------------
(* The invariant holds in the beginning *)

LEMMA StartInv ==
    ASSUME NEW p \in Programs
    PROVE  FrameInv(p, Start(p)) /\ CatalogInv(p, Start(p))
<1> DEFINE e    == Start(p)
           last == [do |-> "deferred", saved |-> 0, cursor |-> 0]
           c    == [stack |-> <<GlobalScope>>, scope |-> NodeScope, class |-> 0, mode |-> FALSE,
                    len |-> 0, doomed |-> {}, safe |-> {}, included |-> {}]
<1>1. /\ DOMAIN e = Fields /\ e.todo = Each(p.top) \o <<last>>
      /\ e.stack = <<GlobalScope>> /\ e.current_scope = NodeScope /\ e.class_scope = 0
      /\ e.class_scopes = <<>> /\ e.class_reexecuting = FALSE /\ e.classes = {}
      /\ e.resource_catalog = {} /\ e.catalog = <<>> /\ e.virtual_resources = <<>>
      /\ e.deferred_defines = <<>>
      /\ e.scopes = <<[parent |-> 0, variables |-> <<>>, live |-> TRUE],
                      [parent |-> GlobalScope, variables |-> <<>>, live |-> TRUE]>>
  BY DEF Start, Fields
<1>2. p.top \in Seq(Stmts)
  BY ProgramsAssumption
<1>3. IsSeq(Each(p.top)) /\ IsSeq(<<last>>) /\ IsSeq(<<>>) /\ <<last>> # <<>>
      /\ Len(<<last>>) = 1 /\ <<last>>[1] = last /\ last.do = "deferred"
  BY <1>2, EachIsSeq DEF IsSeq
<1>4. /\ Len(e.scopes) = 2 /\ IsSeq(e.scopes)
      /\ e.scopes[1].parent = 0 /\ e.scopes[2].parent = 1
      /\ e.scopes[1].live = TRUE /\ e.scopes[2].live = TRUE
      /\ DOMAIN e.scopes[1] = ScopeFields /\ DOMAIN e.scopes[2] = ScopeFields
  <2> DEFINE x == [parent |-> 0, variables |-> <<>>, live |-> TRUE]
             y == [parent |-> GlobalScope, variables |-> <<>>, live |-> TRUE]
  <2>1. /\ x.parent = 0 /\ x.live = TRUE /\ DOMAIN x = ScopeFields
        /\ y.parent = 1 /\ y.live = TRUE /\ DOMAIN y = ScopeFields
    BY DEF ScopeFields, GlobalScope
  <2>2. e.scopes = <<x, y>>
    BY <1>1
  <2> HIDE DEF x, y, e
  <2>3. <<x, y>> \in Seq({x, y}) /\ Len(<<x, y>>) = 2 /\ <<x, y>>[1] = x /\ <<x, y>>[2] = y
    OBVIOUS
  <2> QED
    BY <2>1, <2>2, <2>3, SeqOfAny
<1>5. Kept(e) = {1, 2}
  BY <1>1 DEF Kept, GlobalScope, NodeScope
<1> HIDE DEF e, last
<1>6. c \in Contexts /\ AtEnd(c)
  BY DEF Contexts, AtEnd, GlobalScope, NodeScope
<1>7. /\ c.stack = <<1>> /\ c.scope = 2 /\ c.class = 0 /\ c.mode = FALSE /\ c.len = 0
      /\ c.doomed = {} /\ c.safe = {} /\ c.included = {}
  BY DEF GlobalScope, NodeScope
<1> HIDE DEF c
<1>8. Sound(e, c)
  BY <1>5, <1>7 DEF Sound
<1>9. Leads(p, e, <<>>, c)
  <2> DEFINE f == [i \in 1..(Len(<<>>) + 1) |-> c]
  <2>1. f \in [1..(Len(<<>>) + 1) -> Contexts] /\ f[1] = c /\ f[Len(<<>>) + 1] = c
    BY <1>6
  <2>2. Path(p, e, <<>>, f)
    BY <1>6, <1>8, <2>1 DEF Path
  <2> QED
    BY <2>1, <2>2 DEF Leads
<1>10. last.saved = 0 /\ last.cursor = 0 /\ DOMAIN last = {"do", "saved", "cursor"}
  BY DEF last
<1>11. Ready(p, e, last, c)
  BY <1>3, <1>7, <1>10 DEF Ready, Pops, Destroys
<1>12. Follows(last, c, c)
  BY <1>3, <1>7, <1>10 DEF Follows, Pops, Destroys
<1>13. <<last>> \o <<>> = <<last>>
  BY <1>3
<1>14. Leads(p, e, <<last>>, c)
  BY <1>3, <1>6, <1>8, <1>9, <1>11, <1>12, <1>13, ConsPath
<1>15. Leads(p, e, Each(p.top) \o <<last>>, c)
  BY <1>2, <1>3, <1>5, <1>7, <1>14, EachPath
<1>16. IsSeq(e.todo) /\ e.todo # <<>> /\ e.todo[Len(e.todo)].do = "deferred"
  BY <1>1, <1>3, ConcatIsSeq
<1>17. ShapeInv(e)
  <2>1. e.stack \in Seq(Nat) /\ IsSeq(e.deferred_defines) /\ Len(e.deferred_defines) = 0
    BY <1>1, <1>3 DEF GlobalScope
  <2>2. ASSUME NEW s \in 1..Len(e.scopes)
        PROVE  /\ DOMAIN e.scopes[s] = ScopeFields
               /\ e.scopes[s].parent \in Nat /\ e.scopes[s].parent < s
               /\ e.scopes[s].live \in BOOLEAN
    <3>1. s = 1 \/ s = 2
      BY <1>4
    <3>2. CASE s = 1
      <4>1. e.scopes[s].parent \in Nat /\ e.scopes[s].parent < s
        BY <3>2, <1>4
      <4>2. DOMAIN e.scopes[s] = ScopeFields /\ e.scopes[s].live = TRUE
        BY <3>2, <1>4
      <4> QED
        BY <4>1, <4>2
    <3>3. CASE s = 2
      <4>1. e.scopes[s].parent \in Nat /\ e.scopes[s].parent < s
        BY <3>3, <1>4
      <4>2. DOMAIN e.scopes[s] = ScopeFields /\ e.scopes[s].live = TRUE
        BY <3>3, <1>4
      <4> QED
        BY <4>1, <4>2
    <3> QED
      BY <3>1, <3>2, <3>3
  <2>3. e.current_scope \in Nat /\ e.class_scope \in Nat /\ DOMAIN e.class_scopes \subseteq ClassNames
    BY <1>1 DEF NodeScope
  <2> QED
    <3>1. \A i \in 1..Len(e.deferred_defines) : FALSE
      BY <2>1
    <3> QED
      BY <3>1, <1>1, <1>4, <1>16, <2>1, <2>2, <2>3 DEF ShapeInv
<1>18. KeptInv(e)
  BY <1>4, <1>5 DEF KeptInv
<1>19. Here(e, c)
  <2>1. {s \in 1..Len(e.scopes) : e.scopes[s].live} = {1, 2}
    BY <1>4
  <2> QED
    BY <1>1, <1>5, <1>7, <2>1 DEF Here, GlobalScope, NodeScope
<1>20. PathInv(p, e)
  BY <1>1, <1>6, <1>7, <1>15, <1>19 DEF PathInv
<1>21. CatalogInv(p, e)
  BY <1>1 DEF CatalogInv
<1> QED
  BY <1>16, <1>17, <1>18, <1>20, <1>21 DEF FrameInv, LastInv, e

LEMMA InitInv ==
    ASSUME Init
    PROVE  IndInv
BY StartInv DEF Init, IndInv

-----------------------------------------------------------------------------
(* Steps that declare something and go on with the next statement *)

DataFields == {"todo", "class_resource_decls", "resource_catalog", "catalog",
               "virtual_resources", "exported_resources", "pending_realizes", "puppetdb",
               "errors"}

Preserved ==
    /\ program' = program
    /\ FrameInv(program, env')
    /\ CatalogInv(program, env')

\* The environment without the statement at hand.
LEMMA RestFields ==
    ASSUME DOMAIN env = Fields
    PROVE  /\ DOMAIN Rest = Fields /\ Rest.todo = Tail(env.todo)
           /\ Rest.scopes = env.scopes /\ Rest.stack = env.stack
           /\ Rest.current_scope = env.current_scope /\ Rest.class_scope = env.class_scope
           /\ Rest.class_scopes = env.class_scopes
           /\ Rest.class_reexecuting = env.class_reexecuting
           /\ Rest.class_resource_decls = env.class_resource_decls
           /\ Rest.classes = env.classes /\ Rest.resource_catalog = env.resource_catalog
           /\ Rest.catalog = env.catalog /\ Rest.virtual_resources = env.virtual_resources
           /\ Rest.deferred_defines = env.deferred_defines
BY DEF Rest, Fields

\* What the invariant says of the environment itself.
LEMMA InvShape ==
    ASSUME IndInv
    PROVE  /\ DOMAIN env = Fields /\ ShapeInv(env) /\ KeptInv(env)
           /\ IsSeq(env.scopes) /\ IsSeq(env.todo) /\ IsSeq(env.deferred_defines)
           /\ \A s \in 1..Len(env.scopes) : DOMAIN env.scopes[s] = ScopeFields
           /\ Len(env.scopes) \in Nat
           /\ env.current_scope \in 1..Len(env.scopes)
<1>1. ShapeInv(env) /\ KeptInv(env)
  BY DEF IndInv, FrameInv
<1>2. PICK c \in Contexts : Here(env, c) /\ Leads(program, env, env.todo, c)
  BY DEF IndInv, FrameInv, PathInv
<1>3. Sound(env, c) /\ c.doomed \subseteq 1..Len(env.scopes)
  BY <1>1, <1>2, EnvSequences, PathParts, DoomedExist
<1>4. env.current_scope \in 1..Len(env.scopes)
  BY <1>1, <1>2, <1>3 DEF Sound, Here, KeptInv
<1>5. /\ DOMAIN env = Fields
      /\ IsSeq(env.scopes) /\ IsSeq(env.todo) /\ IsSeq(env.deferred_defines)
  BY <1>1 DEF ShapeInv
<1>6. \A s \in 1..Len(env.scopes) : DOMAIN env.scopes[s] = ScopeFields
  BY <1>1 DEF ShapeInv
<1>7. Len(env.scopes) \in Nat
  BY <1>5 DEF IsSeq
<1> QED
  BY <1>1, <1>4, <1>5, <1>6, <1>7

\* A step that keeps to the tables of what is declared.
LEMMA DataFrame ==
    ASSUME NEW e, NEW e2, ShapeInv(e), Only(e, e2, DataFields),
           e.resource_catalog \subseteq e2.resource_catalog
    PROVE  SameFrame(e, e2)
<1>1. /\ DOMAIN e2 = Fields
      /\ e2.stack = e.stack /\ e2.current_scope = e.current_scope
      /\ e2.class_scope = e.class_scope /\ e2.class_scopes = e.class_scopes
      /\ e2.class_reexecuting = e.class_reexecuting
      /\ e2.scopes = e.scopes /\ e2.deferred_defines = e.deferred_defines
  BY DEF Only, Fields, DataFields
<1> QED
  BY <1>1 DEF SameFrame, ShapeInv

LEMMA DataStep ==
    ASSUME NEW p, NEW e, NEW e2, FrameInv(p, e), e.todo # <<>>,
           Head(e.todo).do \in {"stmt", "collecting"},
           Brings(Head(e.todo)) \subseteq DOMAIN e.class_scopes,
           Only(e, e2, DataFields), e2.todo = Tail(e.todo),
           e.resource_catalog \subseteq e2.resource_catalog
    PROVE  FrameInv(p, e2)
<1>1. SameFrame(e, e2)
  BY DataFrame DEF FrameInv
<1> QED
  BY <1>1, Advance

\* The catalog has what is marked, and the virtual resources are as they were.
LEMMA CatalogGrows ==
    ASSUME NEW p, NEW e, NEW e2, CatalogInv(p, e),
           e.resource_catalog \subseteq e2.resource_catalog,
           DOMAIN e2.catalog \subseteq DOMAIN e.catalog \cup e2.resource_catalog,
           e2.virtual_resources = e.virtual_resources,
           e2.classes = e.classes, DOMAIN e.class_scopes \subseteq DOMAIN e2.class_scopes,
           e2.deferred_defines = e.deferred_defines
    PROVE  CatalogInv(p, e2)
BY DEF CatalogInv

\* Nothing that the catalog is about is different.
LEMMA CatalogSame ==
    ASSUME NEW p, NEW e, NEW e2, CatalogInv(p, e),
           Only(e, e2, Fields \ {"catalog", "resource_catalog", "virtual_resources", "classes",
                                 "class_scopes", "deferred_defines"})
    PROVE  CatalogInv(p, e2)
<1>1. /\ e2.catalog = e.catalog /\ e2.resource_catalog = e.resource_catalog
      /\ e2.virtual_resources = e.virtual_resources /\ e2.classes = e.classes
      /\ e2.class_scopes = e.class_scopes /\ e2.deferred_defines = e.deferred_defines
  BY DEF Only, Fields
<1> QED
  BY <1>1 DEF CatalogInv

\* Statements other than include bring no class.
LEMMA StmtBrings ==
    ASSUME NEW op, Stmt(op), op # "include"
    PROVE  Brings(Task) = {} /\ Task.do = "stmt" /\ env.todo # <<>> /\ Task = Head(env.todo)
BY DEF Stmt, At, Task, Brings

\* One of these statements that changes no more than the tables.
LEMMA TableStep ==
    ASSUME IndInv, NEW op, Stmt(op), op # "include", program' = program,
           NEW e2, env' = e2, Only(env, e2, DataFields), e2.todo = Tail(env.todo),
           env.resource_catalog \subseteq e2.resource_catalog, CatalogInv(program, e2)
    PROVE  Preserved
<1>1. FrameInv(program, e2)
  BY StmtBrings, DataStep DEF IndInv
<1> QED
  BY <1>1 DEF Preserved

LEMMA AssignmentKeeps ==
    ASSUME IndInv, puppet_exec_assignment
    PROVE  Preserved
<1> DEFINE v  == puppet_eval_expr(env, Task.stmt.value)
           e2 == puppet_scope_set_var(Rest, env.current_scope, Task.stmt.name, v)
<1>1. env' = e2 /\ program' = program /\ Stmt("assign")
  BY DEF puppet_exec_assignment, Becomes
<1> HIDE DEF v
<1>2. Only(Rest, e2, {"scopes"}) /\ SameScopes(Rest, e2)
  BY InvShape, RestFields, SetVarChanges
<1> HIDE DEF e2
<1>3. Only(env, Rest, {"todo"}) /\ Rest.todo = Tail(env.todo)
  BY InvShape, RestChanges
<1>4. Only(env, e2, {"todo", "scopes"}) /\ e2.todo = Tail(env.todo)
  BY <1>2, <1>3 DEF Only, Fields
<1>5. SameFrame(env, e2)
  <2>1. SameScopes(env, e2)
    BY <1>2, InvShape, RestFields DEF SameScopes
  <2>2. /\ DOMAIN e2 = Fields
        /\ e2.stack = env.stack /\ e2.current_scope = env.current_scope
        /\ e2.class_scope = env.class_scope /\ e2.class_scopes = env.class_scopes
        /\ e2.class_reexecuting = env.class_reexecuting
        /\ e2.deferred_defines = env.deferred_defines
        /\ e2.resource_catalog = env.resource_catalog
    BY <1>4 DEF Only, Fields
  <2> QED
    BY <2>1, <2>2, InvShape DEF SameFrame, SameScopes, ShapeInv
<1>6. FrameInv(program, e2)
  BY <1>1, <1>4, <1>5, StmtBrings, Advance DEF IndInv
<1>7. CatalogInv(program, e2)
  <2>1. Only(env, e2, Fields \ {"catalog", "resource_catalog", "virtual_resources", "classes",
                                 "class_scopes", "deferred_defines"})
    BY <1>4 DEF Only, Fields
  <2> QED
    BY <2>1, CatalogSame DEF IndInv
<1> QED
  BY <1>1, <1>6, <1>7 DEF Preserved

\* An error is counted.
LEMMA ErrorKeeps ==
    ASSUME IndInv, DeclareClassTwice \/ DuplicateDeclaration \/ OverrideUndeclared
    PROVE  Preserved
<1> DEFINE e2 == puppet_env_increment_error(Rest)
<1>1. env' = e2 /\ program' = program
  BY DEF DeclareClassTwice, DuplicateDeclaration, OverrideUndeclared, Becomes
<1>2. PICK op \in {"class", "resource", "override"} : Stmt(op)
  BY DEF DeclareClassTwice, DuplicateDeclaration, OverrideUndeclared
<1>3. Only(Rest, e2, {"errors"}) /\ Only(env, Rest, {"todo"}) /\ Rest.todo = Tail(env.todo)
  BY InvShape, RestFields, RestChanges, ErrorChanges
<1> HIDE DEF e2
<1>4. Only(env, e2, {"todo", "errors"}) /\ e2.todo = Tail(env.todo)
  BY <1>3 DEF Only, Fields
<1>5. Only(env, e2, DataFields) /\ e2.resource_catalog = env.resource_catalog
  BY <1>4 DEF Only, Fields, DataFields
<1>6. CatalogInv(program, e2)
  <2>1. Only(env, e2, Fields \ {"catalog", "resource_catalog", "virtual_resources", "classes",
                                 "class_scopes", "deferred_defines"})
    BY <1>4 DEF Only, Fields
  <2> QED
    BY <2>1, CatalogSame DEF IndInv
<1> QED
  BY <1>1, <1>2, <1>4, <1>5, <1>6, TableStep

\* A resource that is marked and added.
LEMMA AddedTo ==
    ASSUME NEW e, DOMAIN e = Fields, NEW id, NEW v
    PROVE  LET e2 == puppet_catalog_add_resource(Mark(e, id), id, v)
           IN  /\ Only(e, e2, {"catalog", "resource_catalog"})
               /\ e2.resource_catalog = e.resource_catalog \cup {id}
               /\ DOMAIN e2.catalog = DOMAIN e.catalog \cup {id}
               /\ \A k \in DOMAIN e.catalog : e2.catalog[k] = e.catalog[k]
<1> DEFINE m  == Mark(e, id)
           e2 == puppet_catalog_add_resource(m, id, v)
<1>1. /\ Only(e, m, {"resource_catalog"}) /\ m.resource_catalog = e.resource_catalog \cup {id}
      /\ DOMAIN m = Fields
  BY MarkChanges DEF Only
<1> HIDE DEF m
<1>2. /\ Only(m, e2, {"catalog"}) /\ DOMAIN e2.catalog = DOMAIN m.catalog \cup {id}
      /\ \A k \in DOMAIN m.catalog : e2.catalog[k] = m.catalog[k]
  BY <1>1, AddResourceChanges
<1> HIDE DEF e2
<1>3. /\ m.catalog = e.catalog /\ e2.resource_catalog = m.resource_catalog
      /\ Only(e, e2, {"catalog", "resource_catalog"})
  BY <1>1, <1>2 DEF Only, Fields
<1> QED
  BY <1>1, <1>2, <1>3 DEF e2, m

LEMMA ResourceKeeps ==
    ASSUME IndInv, DeclareResource
    PROVE  Preserved
<1> DEFINE id == Id(Task.stmt)
           v  == puppet_eval_expr(env, Task.stmt.value)
           m  == Mark(Rest, id)
           e2 == AddOrUpdate(m, id, v)
<1>1. env' = e2 /\ program' = program /\ Stmt("resource")
  BY DEF DeclareResource, Becomes
<1> HIDE DEF id, v
<1>2. Only(env, Rest, {"todo"}) /\ Rest.todo = Tail(env.todo) /\ DOMAIN Rest = Fields
  BY InvShape, RestFields, RestChanges
<1>3. Only(Rest, m, {"resource_catalog"}) /\ m.resource_catalog = Rest.resource_catalog \cup {id}
  BY <1>2, MarkChanges
<1> HIDE DEF m
<1>4. Only(m, e2, {"catalog"}) /\ DOMAIN e2.catalog = DOMAIN m.catalog \cup {id}
  BY <1>3, AddOrUpdateChanges DEF Only
<1> HIDE DEF e2
<1>5. /\ Only(env, e2, {"todo", "resource_catalog", "catalog"}) /\ e2.todo = Tail(env.todo)
      /\ e2.resource_catalog = env.resource_catalog \cup {id}
      /\ DOMAIN e2.catalog = DOMAIN env.catalog \cup {id}
  BY <1>2, <1>3, <1>4 DEF Only, Fields
<1>6. Only(env, e2, DataFields)
  BY <1>5 DEF Only, Fields, DataFields
<1>7. CatalogInv(program, e2)
  <2>1. /\ e2.virtual_resources = env.virtual_resources /\ e2.classes = env.classes
        /\ e2.class_scopes = env.class_scopes /\ e2.deferred_defines = env.deferred_defines
    BY <1>5 DEF Only, Fields
  <2> QED
    BY <1>5, <2>1, CatalogGrows DEF IndInv
<1> QED
  BY <1>1, <1>5, <1>6, <1>7, TableStep

\* The statement at hand is one of the manifests'.
LEMMA StmtKnown ==
    ASSUME IndInv, NEW op, Stmt(op), op # "include"
    PROVE  Task.stmt \in Stmts
<1>1. env.todo # <<>> /\ Head(env.todo) = Task /\ Task.do = "stmt" /\ Task.stmt.op = op
  BY DEF Stmt, At, Task
<1>2. PICK d \in Contexts : Ready(program, env, Task, d)
  BY <1>1, FirstStmt DEF IndInv
<1>3. Task.stmt \in Known(program)
  BY <1>1, <1>2 DEF Ready
<1> QED
  BY <1>1, <1>3 DEF Known

LEMMA DeclareVirtualKeeps ==
    ASSUME IndInv, DeclareVirtual
    PROVE  Preserved
<1> DEFINE id == Id(Task.stmt)
           v  == puppet_eval_expr(env, Task.stmt.value)
           x  == [value |-> v, realized |-> Awaited(id)]
           m  == [Rest EXCEPT !.virtual_resources = Put(@, id, x)]
           e2 == puppet_catalog_add_resource(Mark(m, id), id, v)
<1>1. /\ program' = program /\ Stmt("virtual")
      /\ \/ env' = Rest
         \/ id \notin DOMAIN env.virtual_resources /\ Awaited(id) /\ env' = e2
         \/ id \notin DOMAIN env.virtual_resources /\ ~ Awaited(id) /\ env' = m
  BY DEF DeclareVirtual, Becomes
<1>2. Only(env, Rest, {"todo"}) /\ Rest.todo = Tail(env.todo) /\ DOMAIN Rest = Fields
  BY InvShape, RestFields, RestChanges
<1>3. Only(Rest, m, {"virtual_resources"})
      /\ m.virtual_resources = Put(Rest.virtual_resources, id, x)
  BY <1>2 DEF Only, Fields
<1>4. id[1] \in VirtualTypes
  <2>1. Task.stmt \in Stmts /\ Task.stmt.op = "virtual"
    BY <1>1, StmtKnown DEF Stmt
  <2> QED
    BY <2>1 DEF VirtualTypes, Id
<1>5. DOMAIN x = {"value", "realized"} /\ x.realized = Awaited(id)
  OBVIOUS
<1> HIDE DEF id, v, x
<1>6. /\ Only(env, m, {"todo", "virtual_resources"}) /\ m.todo = Tail(env.todo)
      /\ DOMAIN m = Fields /\ m.virtual_resources = Put(env.virtual_resources, id, x)
  BY <1>2, <1>3 DEF Only, Fields
<1> HIDE DEF m
<1>7. /\ Only(m, e2, {"catalog", "resource_catalog"})
      /\ e2.resource_catalog = m.resource_catalog \cup {id}
      /\ DOMAIN e2.catalog = DOMAIN m.catalog \cup {id}
  BY <1>6, AddedTo
<1> HIDE DEF e2
<1>8. /\ DOMAIN m.virtual_resources = DOMAIN env.virtual_resources \cup {id}
      /\ m.virtual_resources[id] = x
      /\ \A k \in DOMAIN env.virtual_resources \ {id} :
             m.virtual_resources[k] = env.virtual_resources[k]
  BY <1>6 DEF Put
<1>9. CASE env' = Rest
  <2>1. Only(env, Rest, DataFields) /\ Rest.resource_catalog = env.resource_catalog
    BY <1>2 DEF Only, Fields, DataFields
  <2>2. CatalogInv(program, Rest)
    <3>1. Only(env, Rest, Fields \ {"catalog", "resource_catalog", "virtual_resources", "classes",
                                    "class_scopes", "deferred_defines"})
      BY <1>2 DEF Only, Fields
    <3> QED
      BY <3>1, CatalogSame DEF IndInv
  <2> QED
    BY <1>1, <1>2, <1>9, <2>1, <2>2, TableStep
<1>10. CASE Awaited(id) /\ env' = e2
  <2>1. /\ Only(env, e2, DataFields) /\ e2.todo = Tail(env.todo)
        /\ e2.resource_catalog = env.resource_catalog \cup {id}
        /\ DOMAIN e2.catalog = DOMAIN env.catalog \cup {id}
        /\ e2.virtual_resources = m.virtual_resources /\ e2.classes = env.classes
        /\ e2.class_scopes = env.class_scopes /\ e2.deferred_defines = env.deferred_defines
    BY <1>6, <1>7 DEF Only, Fields, DataFields
  <2>2. ASSUME NEW k \in DOMAIN e2.virtual_resources
        PROVE  /\ DOMAIN e2.virtual_resources[k] = {"value", "realized"}
               /\ e2.virtual_resources[k].realized => k \in e2.resource_catalog
               /\ k[1] \in VirtualTypes
    <3>1. CASE k = id
      BY <3>1, <2>1, <1>4, <1>5, <1>8
    <3>2. CASE k # id
      BY <3>2, <2>1, <2>2, <1>8 DEF IndInv, CatalogInv
    <3> QED
      BY <3>1, <3>2
  <2>3. CatalogInv(program, e2)
    BY <2>1, <2>2 DEF IndInv, CatalogInv
  <2> QED
    BY <1>1, <1>10, <2>1, <2>3, TableStep
<1>11. CASE ~ Awaited(id) /\ env' = m
  <2>1. /\ Only(env, m, DataFields) /\ m.resource_catalog = env.resource_catalog
        /\ m.catalog = env.catalog /\ m.classes = env.classes
        /\ m.class_scopes = env.class_scopes /\ m.deferred_defines = env.deferred_defines
    BY <1>6 DEF Only, Fields, DataFields
  <2>2. ASSUME NEW k \in DOMAIN m.virtual_resources
        PROVE  /\ DOMAIN m.virtual_resources[k] = {"value", "realized"}
               /\ m.virtual_resources[k].realized => k \in m.resource_catalog
               /\ k[1] \in VirtualTypes
    <3>1. CASE k = id
      BY <3>1, <1>4, <1>5, <1>8, <1>11
    <3>2. CASE k # id
      BY <3>2, <2>1, <2>2, <1>8 DEF IndInv, CatalogInv
    <3> QED
      BY <3>1, <3>2
  <2>3. CatalogInv(program, m)
    BY <2>1, <2>2 DEF IndInv, CatalogInv
  <2> QED
    BY <1>1, <1>6, <1>11, <2>1, <2>3, TableStep
<1> QED
  BY <1>1, <1>9, <1>10, <1>11

\* A virtual resource that is marked is realized.
LEMMA CatalogRealized ==
    ASSUME NEW p, NEW e, NEW e2, CatalogInv(p, e), NEW id \in DOMAIN e.virtual_resources,
           e2.resource_catalog = e.resource_catalog \cup {id},
           DOMAIN e2.catalog \subseteq DOMAIN e.catalog \cup {id},
           e2.virtual_resources = [e.virtual_resources EXCEPT ![id].realized = TRUE],
           e2.classes = e.classes, DOMAIN e2.class_scopes = DOMAIN e.class_scopes,
           e2.deferred_defines = e.deferred_defines
    PROVE  CatalogInv(p, e2)
<1>1. ASSUME NEW k \in DOMAIN e2.virtual_resources
      PROVE  /\ DOMAIN e2.virtual_resources[k] = {"value", "realized"}
             /\ e2.virtual_resources[k].realized => k \in e2.resource_catalog
             /\ k[1] \in VirtualTypes
  <2>1. k \in DOMAIN e.virtual_resources /\ k[1] \in VirtualTypes
        /\ DOMAIN e.virtual_resources[k] = {"value", "realized"}
    BY <1>1 DEF CatalogInv
  <2>2. CASE k = id
    BY <2>1, <2>2
  <2>3. CASE k # id
    BY <2>1, <2>3 DEF CatalogInv
  <2> QED
    BY <2>2, <2>3
<1> QED
  BY <1>1 DEF CatalogInv

\* The step that only goes on.
LEMMA RestKeeps ==
    ASSUME IndInv, env.todo # <<>>, Task.do \in {"stmt", "collecting"},
           Brings(Task) \subseteq DOMAIN env.class_scopes, program' = program, env' = Rest
    PROVE  Preserved
<1>1. Only(env, Rest, {"todo"}) /\ Rest.todo = Tail(env.todo)
  BY InvShape, RestChanges
<1>2. Only(env, Rest, DataFields) /\ Rest.resource_catalog = env.resource_catalog
  BY <1>1 DEF Only, Fields, DataFields
<1>3. CatalogInv(program, Rest)
  <2>1. Only(env, Rest, Fields \ {"catalog", "resource_catalog", "virtual_resources", "classes",
                                  "class_scopes", "deferred_defines"})
    BY <1>1 DEF Only, Fields
  <2> QED
    BY <2>1, CatalogSame DEF IndInv
<1>4. FrameInv(program, Rest)
  BY <1>1, <1>2, DataStep DEF IndInv, Task
<1> QED
  BY <1>3, <1>4 DEF Preserved

LEMMA RealizeVirtualKeeps ==
    ASSUME IndInv, RealizeVirtual
    PROVE  Preserved
<1> DEFINE id == Task.stmt.id
           v  == env.virtual_resources[id].value
           m  == puppet_catalog_add_resource(Mark(Rest, id), id, v)
           e2 == Realized(m, id)
<1>1. /\ program' = program /\ Stmt("realize") /\ id \in DOMAIN env.virtual_resources
      /\ env' = Rest \/ env' = e2
  BY DEF RealizeVirtual
<1> HIDE DEF id, v
<1>2. Only(env, Rest, {"todo"}) /\ Rest.todo = Tail(env.todo) /\ DOMAIN Rest = Fields
  BY InvShape, RestFields, RestChanges
<1>3. /\ Only(Rest, m, {"catalog", "resource_catalog"})
      /\ m.resource_catalog = Rest.resource_catalog \cup {id}
      /\ DOMAIN m.catalog = DOMAIN Rest.catalog \cup {id}
  BY <1>2, AddedTo
<1> HIDE DEF m
<1>4. /\ Only(m, e2, {"virtual_resources"})
      /\ e2.virtual_resources = [m.virtual_resources EXCEPT ![id].realized = TRUE]
  BY <1>3, RealizedChanges DEF Only
<1> HIDE DEF e2
<1>5. CASE env' = Rest
  BY <1>1, <1>5, StmtBrings, RestKeeps
<1>6. CASE env' = e2
  <2>1. /\ Only(env, e2, DataFields) /\ e2.todo = Tail(env.todo)
        /\ e2.resource_catalog = env.resource_catalog \cup {id}
        /\ DOMAIN e2.catalog = DOMAIN env.catalog \cup {id}
        /\ e2.virtual_resources = [env.virtual_resources EXCEPT ![id].realized = TRUE]
        /\ e2.classes = env.classes /\ e2.class_scopes = env.class_scopes
        /\ e2.deferred_defines = env.deferred_defines
    BY <1>2, <1>3, <1>4 DEF Only, Fields, DataFields
  <2>2. CatalogInv(program, e2)
    BY <1>1, <2>1, CatalogRealized DEF IndInv
  <2> QED
    BY <1>1, <1>6, <2>1, <2>2, TableStep
<1> QED
  BY <1>1, <1>5, <1>6

LEMMA RealizeUnknownKeeps ==
    ASSUME IndInv, RealizeUnknown
    PROVE  Preserved
<1> DEFINE e2 == [Rest EXCEPT !.pending_realizes = @ \cup {Task.stmt.id}]
<1>1. /\ program' = program /\ Stmt("realize")
      /\ env' = Rest \/ env' = e2
  BY DEF RealizeUnknown
<1>2. Only(env, Rest, {"todo"}) /\ Rest.todo = Tail(env.todo) /\ DOMAIN Rest = Fields
  BY InvShape, RestFields, RestChanges
<1>3. Only(Rest, e2, {"pending_realizes"})
  BY <1>2 DEF Only, Fields
<1> HIDE DEF e2
<1>4. CASE env' = Rest
  BY <1>1, <1>4, StmtBrings, RestKeeps
<1>5. CASE env' = e2
  <2>1. /\ Only(env, e2, DataFields) /\ e2.todo = Tail(env.todo)
        /\ e2.resource_catalog = env.resource_catalog
        /\ Only(env, e2, Fields \ {"catalog", "resource_catalog", "virtual_resources", "classes",
                                   "class_scopes", "deferred_defines"})
    BY <1>2, <1>3 DEF Only, Fields, DataFields
  <2>2. CatalogInv(program, e2)
    BY <2>1, CatalogSame DEF IndInv
  <2> QED
    BY <1>1, <1>5, <2>1, <2>2, TableStep
<1> QED
  BY <1>1, <1>4, <1>5

\* What other nodes exported is added to what is there.
LEMMA CollectedChanges ==
    ASSUME DOMAIN env = Fields, CollectExported
    PROVE  \E ids : /\ Only(env, env', {"todo", "resource_catalog", "catalog"})
                    /\ env'.todo = Tail(env.todo)
                    /\ env'.resource_catalog = env.resource_catalog \cup ids
                    /\ DOMAIN env'.catalog = DOMAIN env.catalog \cup ids
                    /\ \A k \in DOMAIN env.catalog : env'.catalog[k] = env.catalog[k]
<1> DEFINE new == {x \in env.puppetdb : /\ x.id[1] = Task.stmt.type
                                        /\ x.certname # program.certname
                                        /\ x.id \notin env.resource_catalog}
           ids == {x.id : x \in new}
           f   == [id \in DOMAIN Rest.catalog \cup ids |->
                      IF id \in DOMAIN Rest.catalog THEN Rest.catalog[id]
                      ELSE (CHOOSE x \in new : x.id = id).value]
<1>1. env' = [Rest EXCEPT !.resource_catalog = @ \cup ids, !.catalog = f]
  BY DEF CollectExported, Becomes
<1>2. DOMAIN f = DOMAIN Rest.catalog \cup ids
      /\ \A k \in DOMAIN Rest.catalog : f[k] = Rest.catalog[k]
  OBVIOUS
<1> HIDE DEF new, ids, f
<1>3. Only(env, Rest, {"todo"}) /\ Rest.todo = Tail(env.todo) /\ DOMAIN Rest = Fields
      /\ Rest.catalog = env.catalog
  BY RestFields, RestChanges
<1>4. /\ Only(Rest, env', {"resource_catalog", "catalog"})
      /\ env'.resource_catalog = Rest.resource_catalog \cup ids /\ env'.catalog = f
  BY <1>1, <1>3 DEF Only, Fields
<1>5. Only(env, env', {"todo", "resource_catalog", "catalog"})
      /\ env'.todo = Tail(env.todo)
      /\ env'.resource_catalog = env.resource_catalog \cup ids
  BY <1>3, <1>4 DEF Only, Fields
<1> QED
  BY <1>2, <1>3, <1>4, <1>5

LEMMA CollectExportedKeeps ==
    ASSUME IndInv, CollectExported
    PROVE  Preserved
<1>1. program' = program /\ Stmt("collect")
  BY DEF CollectExported, Becomes
<1>2. PICK ids : /\ Only(env, env', {"todo", "resource_catalog", "catalog"})
                 /\ env'.todo = Tail(env.todo)
                 /\ env'.resource_catalog = env.resource_catalog \cup ids
                 /\ DOMAIN env'.catalog = DOMAIN env.catalog \cup ids
  BY InvShape, CollectedChanges
<1>3. /\ Only(env, env', DataFields)
      /\ env'.virtual_resources = env.virtual_resources /\ env'.classes = env.classes
      /\ env'.class_scopes = env.class_scopes /\ env'.deferred_defines = env.deferred_defines
  BY <1>2 DEF Only, Fields, DataFields
<1>4. CatalogInv(program, env')
  BY <1>2, <1>3, CatalogGrows DEF IndInv
<1> QED
  BY <1>1, <1>2, <1>3, <1>4, TableStep

LEMMA ExportKeeps ==
    ASSUME IndInv, Export
    PROVE  Preserved
<1> DEFINE id == Id(Task.stmt)
           v  == puppet_eval_expr(env, Task.stmt.value)
           x  == Put(Rest.exported_resources, id, v)
           y  == IF program.database
                 THEN {z \in Rest.puppetdb : ~ (z.id = id /\ z.certname = program.certname)} \cup
                      {[certname |-> program.certname, id |-> id, value |-> v]}
                 ELSE Rest.puppetdb
           e2 == [Rest EXCEPT !.exported_resources = x, !.puppetdb = y]
<1>1. env' = e2 /\ program' = program /\ Stmt("export")
  BY DEF Export, Becomes
<1> HIDE DEF x, y
<1>2. Only(env, Rest, {"todo"}) /\ Rest.todo = Tail(env.todo) /\ DOMAIN Rest = Fields
  BY InvShape, RestFields, RestChanges
<1>3. Only(Rest, e2, {"exported_resources", "puppetdb"})
  BY <1>2 DEF Only, Fields
<1> HIDE DEF e2
<1>4. /\ Only(env, e2, DataFields) /\ e2.todo = Tail(env.todo)
      /\ e2.resource_catalog = env.resource_catalog
      /\ Only(env, e2, Fields \ {"catalog", "resource_catalog", "virtual_resources", "classes",
                                 "class_scopes", "deferred_defines"})
  BY <1>2, <1>3 DEF Only, Fields, DataFields
<1>5. CatalogInv(program, e2)
  BY <1>4, CatalogSame DEF IndInv
<1> QED
  BY <1>1, <1>4, <1>5, TableStep

LEMMA EndCollectKeeps ==
    ASSUME IndInv, EndCollect
    PROVE  Preserved
<1>1. env.todo # <<>> /\ Task.do = "collecting" /\ env' = Rest /\ program' = program
  BY DEF EndCollect, At, Becomes
<1>2. Brings(Task) = {}
  BY <1>1 DEF Brings
<1> QED
  BY <1>1, <1>2, RestKeeps

\* An override changes values only.
LEMMA OverrideChanges ==
    ASSUME ShapeInv(env), NEW id, NEW v
    PROVE  LET e2 == ApplyOverride(Rest, id, v)
               D  == env.deferred_defines
           IN  /\ Only(env, e2, {"todo", "deferred_defines", "virtual_resources",
                                 "exported_resources", "catalog"})
               /\ e2.todo = Tail(env.todo)
               /\ IsSeq(e2.deferred_defines) /\ Len(e2.deferred_defines) = Len(D)
               /\ \A i \in 1..Len(D) :
                     /\ DOMAIN e2.deferred_defines[i] = EntryFields
                     /\ e2.deferred_defines[i].caller_scope = D[i].caller_scope
                     /\ e2.deferred_defines[i].class_reexecuting = D[i].class_reexecuting
                     /\ e2.deferred_defines[i].id = D[i].id
               /\ DOMAIN e2.virtual_resources = DOMAIN env.virtual_resources
               /\ \A k \in DOMAIN env.virtual_resources :
                     \/ e2.virtual_resources[k] = env.virtual_resources[k]
                     \/ e2.virtual_resources[k] = [env.virtual_resources[k] EXCEPT !.value = v]
               /\ DOMAIN e2.catalog = DOMAIN env.catalog
               /\ \A k \in DOMAIN env.catalog \ {id} : e2.catalog[k] = env.catalog[k]
<1> DEFINE e2 == ApplyOverride(Rest, id, v)
           D  == env.deferred_defines
           D2 == e2.deferred_defines
           V  == env.virtual_resources
           C  == env.catalog
<1>1. DOMAIN env = Fields /\ DOMAIN Rest = Fields /\ Rest.deferred_defines = D
      /\ Rest.virtual_resources = V /\ Rest.catalog = C
  BY RestFields DEF ShapeInv
<1>2. Only(env, Rest, {"todo"}) /\ Rest.todo = Tail(env.todo)
  BY <1>1, RestChanges
<1> DEFINE known    == id \in Rest.resource_catalog
           virtual  == ~ known /\ id \in DOMAIN Rest.virtual_resources
           exported == ~ known /\ ~ virtual /\ id \in DOMAIN Rest.exported_resources
           d == IF Deferred(id) = {} THEN Rest.deferred_defines
                ELSE [Rest.deferred_defines EXCEPT ![FirstDeferred(id)].override_attrs = {v}]
           w == IF virtual THEN [Rest.virtual_resources EXCEPT ![id].value = v]
                ELSE Rest.virtual_resources
           x == IF exported THEN [Rest.exported_resources EXCEPT ![id] = v]
                ELSE Rest.exported_resources
           c == IF known /\ id \in DOMAIN Rest.catalog THEN [Rest.catalog EXCEPT ![id] = v]
                ELSE Rest.catalog
<1>20. e2 = [Rest EXCEPT !.deferred_defines = d, !.virtual_resources = w,
                         !.exported_resources = x, !.catalog = c]
  BY DEF ApplyOverride
<1>21. /\ d = D \/ d = [D EXCEPT ![FirstDeferred(id)].override_attrs = {v}]
       /\ w = V \/ w = [V EXCEPT ![id].value = v]
       /\ c = C \/ c = [C EXCEPT ![id] = v]
  BY <1>1
<1> HIDE DEF e2, d, w, x, c
<1>3. Only(Rest, e2, {"deferred_defines", "virtual_resources", "exported_resources", "catalog"})
      /\ D2 = d /\ e2.virtual_resources = w /\ e2.catalog = c
  BY <1>1, <1>20 DEF Only, Fields
<1>4. /\ D2 = D \/ D2 = [D EXCEPT ![FirstDeferred(id)].override_attrs = {v}]
      /\ e2.virtual_resources = V \/ e2.virtual_resources = [V EXCEPT ![id].value = v]
      /\ e2.catalog = C \/ e2.catalog = [C EXCEPT ![id] = v]
  BY <1>3, <1>21
<1>5. Only(env, e2, {"todo", "deferred_defines", "virtual_resources", "exported_resources",
                     "catalog"}) /\ e2.todo = Tail(env.todo)
  BY <1>2, <1>3 DEF Only, Fields
<1>6. IsSeq(D2) /\ Len(D2) = Len(D)
      /\ \A i \in 1..Len(D) : \/ D2[i] = D[i]
                              \/ D2[i] = [D[i] EXCEPT !.override_attrs = {v}]
  <2>1. IsSeq(D) /\ DOMAIN D = 1..Len(D)
    BY DEF ShapeInv, IsSeq
  <2>2. CASE D2 = D
    BY <2>1, <2>2
  <2>3. CASE D2 = [D EXCEPT ![FirstDeferred(id)].override_attrs = {v}]
    <3> DEFINE k == FirstDeferred(id)
               y == [D[k] EXCEPT !.override_attrs = {v}]
               T == {D[i] : i \in 1..Len(D)} \cup {y}
    <3>1. D2 = [D EXCEPT ![k] = y]
      BY <2>3
    <3>2. D \in Seq(T) /\ y \in T
      BY <2>1 DEF IsSeq
    <3> HIDE DEF k, y, T, D2, D
    <3>3. D2 \in Seq(T) /\ Len(D2) = Len(D)
      <4>1. CASE k \in 1..Len(D)
        BY <3>1, <3>2, <4>1
      <4>2. CASE k \notin 1..Len(D)
        <5>1. D2 = D
          <6>1. D \in [1..Len(D) -> T]
            BY <3>2
          <6>3. D2 \in [1..Len(D) -> T]
            BY <6>1, <3>1, <4>2
          <6>2. \A i \in 1..Len(D) : D2[i] = D[i]
            BY <2>1, <3>1, <4>2
          <6> QED
            BY <6>1, <6>2, <6>3
        <5> QED
          BY <3>2, <5>1
      <4> QED
        BY <4>1, <4>2
    <3>4. \A i \in 1..Len(D) : D2[i] = IF i = k THEN y ELSE D[i]
      BY <2>1, <3>1
    <3>5. ASSUME NEW i \in 1..Len(D)
          PROVE  D2[i] = D[i] \/ D2[i] = [D[i] EXCEPT !.override_attrs = {v}]
      BY <3>4 DEF y
    <3> QED
      BY <3>3, <3>5, SeqOfAny
  <2> QED
    BY <1>4, <2>2, <2>3
<1>7. ASSUME NEW i \in 1..Len(D)
      PROVE  /\ DOMAIN D2[i] = EntryFields
             /\ D2[i].caller_scope = D[i].caller_scope
             /\ D2[i].class_reexecuting = D[i].class_reexecuting
             /\ D2[i].id = D[i].id
  <2>1. DOMAIN D[i] = EntryFields
    BY DEF ShapeInv
  <2>2. CASE D2[i] = D[i]
    BY <2>1, <2>2
  <2>3. CASE D2[i] = [D[i] EXCEPT !.override_attrs = {v}]
    <3> HIDE DEF D, D2
    <3> QED
      BY <2>1, <2>3 DEF EntryFields
  <2> QED
    BY <1>6, <2>2, <2>3
<1>8. /\ DOMAIN e2.virtual_resources = DOMAIN V
      /\ \A k \in DOMAIN V : \/ e2.virtual_resources[k] = V[k]
                             \/ e2.virtual_resources[k] = [V[k] EXCEPT !.value = v]
  <2>1. CASE e2.virtual_resources = V
    BY <2>1
  <2>2. CASE e2.virtual_resources = [V EXCEPT ![id].value = v]
    <3>1. DOMAIN e2.virtual_resources = DOMAIN V
      BY <2>2
    <3>2. ASSUME NEW k \in DOMAIN V
          PROVE  \/ e2.virtual_resources[k] = V[k]
                 \/ e2.virtual_resources[k] = [V[k] EXCEPT !.value = v]
      <4>1. CASE k = id
        BY <2>2, <4>1
      <4>2. CASE k # id
        BY <2>2, <4>2
      <4> QED
        BY <4>1, <4>2
    <3> QED
      BY <3>1, <3>2
  <2> QED
    BY <1>4, <2>1, <2>2
<1>9. DOMAIN e2.catalog = DOMAIN C /\ \A k \in DOMAIN C \ {id} : e2.catalog[k] = C[k]
  BY <1>4
<1> QED
  BY <1>5, <1>6, <1>7, <1>8, <1>9 DEF e2

LEMMA OverrideKeeps ==
    ASSUME IndInv, Override
    PROVE  Preserved
<1> DEFINE id == Task.stmt.id
           v  == puppet_eval_expr(env, Task.stmt.value)
           e2 == ApplyOverride(Rest, id, v)
           D  == env.deferred_defines
<1>1. env' = e2 /\ program' = program /\ Stmt("override")
  BY DEF Override
<1> HIDE DEF id, v
<1>2. /\ Only(env, e2, {"todo", "deferred_defines", "virtual_resources", "exported_resources",
                        "catalog"})
      /\ e2.todo = Tail(env.todo)
      /\ IsSeq(e2.deferred_defines) /\ Len(e2.deferred_defines) = Len(D)
      /\ \A i \in 1..Len(D) :
            /\ DOMAIN e2.deferred_defines[i] = EntryFields
            /\ e2.deferred_defines[i].caller_scope = D[i].caller_scope
            /\ e2.deferred_defines[i].class_reexecuting = D[i].class_reexecuting
            /\ e2.deferred_defines[i].id = D[i].id
      /\ DOMAIN e2.virtual_resources = DOMAIN env.virtual_resources
      /\ \A k \in DOMAIN env.virtual_resources :
            \/ e2.virtual_resources[k] = env.virtual_resources[k]
            \/ e2.virtual_resources[k] = [env.virtual_resources[k] EXCEPT !.value = v]
      /\ DOMAIN e2.catalog = DOMAIN env.catalog
  BY InvShape, OverrideChanges
<1> HIDE DEF e2
<1>3. /\ DOMAIN e2 = Fields /\ e2.stack = env.stack /\ e2.current_scope = env.current_scope
      /\ e2.class_scope = env.class_scope /\ e2.class_scopes = env.class_scopes
      /\ e2.class_reexecuting = env.class_reexecuting /\ e2.scopes = env.scopes
      /\ e2.resource_catalog = env.resource_catalog /\ e2.classes = env.classes
  BY <1>2 DEF Only, Fields
<1>4. SameFrame(env, e2)
  BY <1>2, <1>3, InvShape DEF SameFrame, ShapeInv
<1>5. FrameInv(program, e2)
  BY <1>1, <1>2, <1>4, StmtBrings, Advance DEF IndInv
<1>6. ASSUME NEW k \in DOMAIN e2.virtual_resources
      PROVE  /\ DOMAIN e2.virtual_resources[k] = {"value", "realized"}
             /\ e2.virtual_resources[k].realized => k \in e2.resource_catalog
             /\ k[1] \in VirtualTypes
  <2> DEFINE x == env.virtual_resources[k]
  <2>1. /\ DOMAIN x = {"value", "realized"} /\ k[1] \in VirtualTypes
        /\ x.realized => k \in env.resource_catalog
    BY <1>2 DEF IndInv, CatalogInv
  <2>2. e2.virtual_resources[k] = x \/ e2.virtual_resources[k] = [x EXCEPT !.value = v]
    BY <1>2
  <2> HIDE DEF x
  <2>3. CASE e2.virtual_resources[k] = x
    BY <1>3, <2>1, <2>3
  <2>4. CASE e2.virtual_resources[k] = [x EXCEPT !.value = v]
    BY <1>3, <2>1, <2>4
  <2> QED
    BY <2>2, <2>3, <2>4
<1>7. CatalogInv(program, e2)
  BY <1>2, <1>3, <1>6 DEF IndInv, CatalogInv
<1> QED
  BY <1>1, <1>5, <1>7 DEF Preserved

-----------------------------------------------------------------------------
(* Statements that are replaced by other tasks *)

LEMMA TwoTasks ==
    ASSUME NEW a, NEW b, NEW tasks, IsSeq(tasks)
    PROVE  <<a, b>> \o tasks = <<a>> \o (<<b>> \o tasks) /\ IsSeq(<<a, b>>) /\ IsSeq(<<a>>)
<1> DEFINE T == {tasks[i] : i \in 1..Len(tasks)} \cup {a, b}
<1>1. tasks \in Seq(T) /\ a \in T /\ b \in T
  BY DEF IsSeq
<1> HIDE DEF T
<1>2. <<a, b>> \in Seq(T) /\ <<a>> \in Seq(T) /\ <<b>> \in Seq(T)
  BY <1>1
<1> DEFINE l == <<a, b>> \o tasks
           m == <<b>> \o tasks
           r == <<a>> \o m
           n == Len(tasks)
<1>3. n \in Nat /\ m \in Seq(T) /\ Len(m) = n + 1 /\ l \in Seq(T) /\ Len(l) = n + 2
  BY <1>1, <1>2
<1>4. r \in Seq(T) /\ Len(r) = n + 2
  BY <1>1, <1>2, <1>3
<1>5. l[1] = a /\ l[2] = b /\ \A i \in 3..(n + 2) : l[i] = tasks[i - 2]
  BY <1>1, <1>2, <1>3
<1>6. m[1] = b /\ \A i \in 2..(n + 1) : m[i] = tasks[i - 1]
  BY <1>1, <1>2, <1>3
<1> HIDE DEF l, m, n
<1>7. r[1] = a /\ \A i \in 2..(n + 2) : r[i] = m[i - 1]
  BY <1>1, <1>2, <1>3, <1>4
<1> HIDE DEF r
<1>8. ASSUME NEW i \in 1..(n + 2) PROVE l[i] = r[i]
  <2>1. CASE i = 1
    BY <2>1, <1>5, <1>7
  <2>2. CASE i = 2
    BY <2>2, <1>3, <1>5, <1>6, <1>7
  <2>3. CASE i \in 3..(n + 2)
    <3>1. r[i] = m[i - 1] /\ i - 1 \in 2..(n + 1) /\ (i - 1) - 1 = i - 2
      BY <2>3, <1>3, <1>7
    <3>2. m[i - 1] = tasks[(i - 1) - 1] /\ l[i] = tasks[i - 2]
      BY <2>3, <3>1, <1>5, <1>6
    <3> QED
      BY <3>1, <3>2
  <2> QED
    BY <2>1, <2>2, <2>3, <1>3
<1>9. l = r
  BY <1>3, <1>4, <1>8
<1> QED
  BY <1>2, <1>9, SeqOfAny DEF l, m, r

\* A class has a scope: that is what class_scopes says.
LEMMA IncludedClasses ==
    ASSUME NEW e, KeptInv(e), NEW class
    PROVE  Included(e, class) <=> class \in DOMAIN e.class_scopes
<1>1. CASE class \in DOMAIN e.class_scopes
  <2>1. e.class_scopes[class] \in Kept(e)
    BY <1>1 DEF Kept
  <2>2. e.class_scopes[class] # 0
    BY <2>1 DEF KeptInv
  <2> QED
    BY <1>1, <2>2 DEF Included, CountOf
<1>2. CASE class \notin DOMAIN e.class_scopes
  BY <1>2 DEF Included, CountOf
<1> QED
  BY <1>1, <1>2

\* The class a statement names exists.
LEMMA ClassExists ==
    ASSUME IndInv, NEW op \in {"include", "class"}, Stmt(op)
    PROVE  Task.stmt.class \in DOMAIN program.classes
<1>1. env.todo # <<>> /\ Head(env.todo) = Task /\ Task.do = "stmt" /\ Task.stmt.op = op
  BY DEF Stmt, At, Task
<1>2. PICK d \in Contexts : Ready(program, env, Task, d)
  BY <1>1, FirstStmt DEF IndInv
<1>3. Task.stmt \in Known(program)
  BY <1>1, <1>2 DEF Ready
<1>4. CASE Task.stmt \in Stmts
  BY <1>1, <1>4, ProgramsAssumption DEF IndInv
<1>5. CASE \E class \in DOMAIN program.classes :
               Task.stmt = [op |-> "include", class |-> class]
  BY <1>5
<1> QED
  BY <1>3, <1>4, <1>5 DEF Known

\* What including a class comes to: in the end it has a scope.
LEMMA ClassPath ==
    ASSUME program \in Programs, NEW e, NEW e2, KeptInv(e), ShapeInv(e2),
           e2.class_scopes = e.class_scopes,
           NEW tasks, IsSeq(tasks), NEW d \in Contexts, Leads(program, e2, tasks, d),
           Here(e2, d), NEW class \in DOMAIN program.classes, NEW args,
           d.included \subseteq DOMAIN e2.class_scopes \cup {class}
    PROVE  /\ IsSeq(ClassTasks(e, class, args))
           /\ \E c \in Contexts :
                 /\ Here(e2, c) /\ c.included \subseteq DOMAIN e2.class_scopes
                 /\ Leads(program, e2, ClassTasks(e, class, args) \o tasks, c)
<1> DEFINE I      == DOMAIN e2.class_scopes
           parent == program.classes[class].inherits
           enter  == [do |-> "class", class |-> class, args |-> args]
           first  == [do |-> "stmt", stmt |-> [op |-> "include", class |-> parent]]
           c      == [d EXCEPT !.included = I]
           c1     == [d EXCEPT !.included = I \cup {parent}]
<1>1. I \subseteq ClassNames /\ Sound(e2, d)
  BY PathParts DEF ShapeInv, IsSeq
<1>2. parent \in DOMAIN program.classes \cup {"NULL"}
  BY ProgramsAssumption
<1>3. enter.do = "class" /\ enter.class = class /\ Brings(enter) = {class}
  BY DEF Brings
<1>4. /\ first.do = "stmt" /\ first.stmt = [op |-> "include", class |-> parent]
      /\ first.stmt.op = "include" /\ first.stmt.class = parent
  OBVIOUS
<1>5. Brings(first) = {parent}
  BY <1>4 DEF Brings
<1>6. c \in Contexts /\ Here(e2, c) /\ Sound(e2, c) /\ c.included = I /\ c.safe = d.safe
  BY <1>1 DEF Contexts, Here, Sound
<1>7. CASE parent = "NULL" \/ Included(e, parent)
  <2>1. ClassTasks(e, class, args) = <<enter>>
    BY <1>7 DEF ClassTasks
  <2>2. parent \in c.included \cup {"NULL"}
    BY <1>6, <1>7, IncludedClasses
  <2> HIDE DEF enter, first, c
  <2>3. Ready(program, e2, enter, c)
    BY <2>2, <1>3 DEF Ready, Pops, Destroys
  <2>4. Follows(enter, c, d)
    BY <1>3, <1>6 DEF Follows, Pops, Destroys, Here
  <2>5. Leads(program, e2, <<enter>> \o tasks, c)
    BY <2>3, <2>4, <1>6, ConsPath
  <2>6. <<enter, enter>> \o tasks = <<enter>> \o (<<enter>> \o tasks) /\ IsSeq(<<enter>>)
    BY TwoTasks
  <2>7. IsSeq(ClassTasks(e, class, args))
    BY <2>1, <2>6
  <2>8. Leads(program, e2, ClassTasks(e, class, args) \o tasks, c)
    BY <2>1, <2>5
  <2>9. c \in Contexts /\ Here(e2, c) /\ c.included \subseteq DOMAIN e2.class_scopes
    BY <1>6
  <2> QED
    BY <2>7, <2>8, <2>9
<1>8. CASE ~ (parent = "NULL" \/ Included(e, parent))
  <2>1. ClassTasks(e, class, args) = <<first, enter>>
    BY <1>8 DEF ClassTasks
  <2>2. parent \in DOMAIN program.classes /\ parent \in ClassNames
    BY <1>2, <1>8 DEF ClassNames
  <2>3. /\ c1 \in Contexts /\ Here(e2, c1) /\ Sound(e2, c1)
        /\ c1.included = I \cup {parent} /\ c1.safe = d.safe
    BY <2>2, <1>1 DEF Contexts, Here, Sound
  <2> HIDE DEF enter, first, c, c1
  <2>4. Ready(program, e2, enter, c1)
    BY <2>3, <1>3 DEF Ready, Pops, Destroys
  <2>5. Follows(enter, c1, d)
    BY <1>3, <2>3 DEF Follows, Pops, Destroys, Here
  <2>6. Leads(program, e2, <<enter>> \o tasks, c1) /\ IsSeq(<<enter>> \o tasks)
    BY <2>3, <2>4, <2>5, ConsPath, ConsIsSeq
  <2>7. Ready(program, e2, first, c)
    <3>1. first.stmt \in Known(program) /\ ~ IsInstance(program, first.stmt)
      BY <1>4, <2>2 DEF Known, IsInstance
    <3> QED
      BY <3>1, <1>4 DEF Ready, Pops, Destroys
  <2>8. Follows(first, c, c1)
    BY <1>4, <1>5, <1>6, <2>3 DEF Follows, Pops, Destroys, Here
  <2>9. Leads(program, e2, <<first>> \o (<<enter>> \o tasks), c)
    BY <1>6, <2>6, <2>7, <2>8, ConsPath
  <2>10. <<first, enter>> \o tasks = <<first>> \o (<<enter>> \o tasks)
         /\ IsSeq(<<first, enter>>)
    BY TwoTasks
  <2>11. IsSeq(ClassTasks(e, class, args))
    BY <2>1, <2>10
  <2>12. Leads(program, e2, ClassTasks(e, class, args) \o tasks, c)
    BY <2>1, <2>9, <2>10
  <2>13. c \in Contexts /\ Here(e2, c) /\ c.included \subseteq DOMAIN e2.class_scopes
    BY <1>6
  <2> QED
    BY <2>11, <2>12, <2>13
<1> QED
  BY <1>7, <1>8

\* Statements that are replaced by tasks of their own, seen from the environment.
LEMMA ReplacedStep ==
    ASSUME IndInv, env.todo # <<>>, Task.do \in {"stmt", "collecting"}, program' = program,
           NEW new, IsSeq(new), NEW e2, env' = e2, SameFrame(env, e2),
           e2.todo = new \o Tail(env.todo), CatalogInv(program, e2),
           \A d \in Contexts :
              (/\ Here(e2, d) /\ Sound(e2, d) /\ Leads(program, e2, Tail(env.todo), d)
               /\ d.included \subseteq DOMAIN e2.class_scopes \cup Brings(Task)
               /\ ShapeInv(e2) /\ KeptInv(e2) /\ IsSeq(Tail(env.todo)))
              => \E c \in Contexts :
                    /\ Here(e2, c) /\ c.included \subseteq DOMAIN e2.class_scopes
                    /\ Leads(program, e2, new \o Tail(env.todo), c)
    PROVE  Preserved
<1>1. FrameInv(program, env) /\ IsSeq(Tail(env.todo)) /\ Head(env.todo) = Task
  BY FirstTask DEF IndInv, Task
<1>2. IsSeq(e2.todo)
  BY <1>1, ConcatIsSeq
<1>3. /\ ShapeInv(e2) /\ KeptInv(e2)
      /\ Tail(env.todo) # <<>> /\ Tail(env.todo)[Len(Tail(env.todo))].do = "deferred"
  BY <1>1, <1>2, Stays
<1>4. PICK d \in Contexts :
          /\ Here(e2, d) /\ Sound(e2, d) /\ Leads(program, e2, Tail(env.todo), d)
          /\ d.included \subseteq DOMAIN e2.class_scopes \cup Brings(Task)
  BY <1>1, <1>2, Stays
<1>5. PICK c \in Contexts :
          /\ Here(e2, c) /\ c.included \subseteq DOMAIN e2.class_scopes
          /\ Leads(program, e2, new \o Tail(env.todo), c)
  BY <1>1, <1>3, <1>4
<1>6. FrameInv(program, e2)
  BY <1>1, <1>3, <1>5, Replace
<1> QED
  BY <1>6 DEF Preserved

\* The tasks that Do puts in front of the rest.
LEMMA DoRest ==
    ASSUME IndInv, NEW e, NEW tasks, Only(Rest, e, DataFields \ {"todo"}),
           env.resource_catalog \subseteq e.resource_catalog
    PROVE  /\ Only(env, Do(e, tasks), DataFields)
           /\ Do(e, tasks).todo = tasks \o Tail(env.todo)
           /\ Do(e, tasks).resource_catalog = e.resource_catalog
           /\ Do(e, tasks).catalog = e.catalog
           /\ Do(e, tasks).virtual_resources = e.virtual_resources
           /\ SameFrame(env, Do(e, tasks))
<1>1. Only(env, Rest, {"todo"}) /\ Rest.todo = Tail(env.todo)
  BY InvShape, RestChanges
<1>2. DOMAIN e = Fields /\ e.todo = Tail(env.todo)
  BY <1>1 DEF Only, Fields, DataFields
<1>3. Only(e, Do(e, tasks), {"todo"}) /\ Do(e, tasks).todo = tasks \o e.todo
  BY <1>2, DoChanges
<1> DEFINE e2 == Do(e, tasks)
<1> HIDE DEF e2
<1>4. Only(e, e2, {"todo"}) /\ e2.todo = tasks \o e.todo
  BY <1>3 DEF e2
<1>5. /\ Only(env, e2, DataFields) /\ e2.todo = tasks \o Tail(env.todo)
      /\ e2.resource_catalog = e.resource_catalog /\ e2.catalog = e.catalog
      /\ e2.virtual_resources = e.virtual_resources
  BY <1>1, <1>2, <1>4 DEF Only, Fields, DataFields
<1>6. SameFrame(env, e2)
  BY <1>5, InvShape, DataFrame
<1> QED
  BY <1>5, <1>6 DEF e2

\* Tasks in front of the rest leave the catalog alone.
LEMMA DoCatalog ==
    ASSUME IndInv, NEW e, NEW tasks, Only(Rest, e, {"class_resource_decls"})
    PROVE  CatalogInv(program, Do(e, tasks))
<1>1. Only(env, Rest, {"todo"})
  BY InvShape, RestChanges
<1>2. Only(e, Do(e, tasks), {"todo"})
  BY DoChanges DEF Only
<1>3. Only(env, Do(e, tasks), Fields \ {"catalog", "resource_catalog", "virtual_resources",
                                        "classes", "class_scopes", "deferred_defines"})
  BY <1>1, <1>2 DEF Only, Fields
<1> QED
  BY <1>3, CatalogSame DEF IndInv

\* A statement list depends on the number of instances that are deferred.
LEMMA SameList ==
    ASSUME NEW e, NEW e2, e2.deferred_defines = e.deferred_defines, NEW body \in Seq(Stmts)
    PROVE  ExecList(e, body) = ExecList(e2, body) /\ IsSeq(ExecList(e, body))
<1>1. ExecList(e, body) = ExecList(e2, body)
  BY DEF ExecList
<1> DEFINE t == [do |-> "deferred", saved  |-> Len(e.deferred_defines),
                                    cursor |-> Len(e.deferred_defines)]
<1>2. ExecList(e, body) = Each(body) \o <<t>>
  BY DEF ExecList
<1> HIDE DEF t
<1>3. IsSeq(<<t>>) /\ IsSeq(Each(body))
  BY EachIsSeq DEF IsSeq
<1> QED
  BY <1>1, <1>2, <1>3, ConcatIsSeq

\* A statement list in front of the rest, seen from the environment it is begun in.
LEMMA ListContext ==
    ASSUME NEW p, NEW e, NEW e2, e2.deferred_defines = e.deferred_defines,
           NEW tasks, IsSeq(tasks), NEW d \in Contexts, Leads(p, e2, tasks, d), Here(e2, d),
           d.included \subseteq DOMAIN e2.class_scopes, NEW body \in Seq(Stmts)
    PROVE  \E c \in Contexts :
              /\ Here(e2, c) /\ c.included \subseteq DOMAIN e2.class_scopes
              /\ Leads(p, e2, ExecList(e, body) \o tasks, c)
<1> DEFINE c == [d EXCEPT !.safe = d.doomed]
<1>1. c \in Contexts /\ Here(e2, c) /\ c.included = d.included
  BY DEF Contexts, Here
<1> HIDE DEF c
<1>2. d.len = Len(e2.deferred_defines)
  BY DEF Here
<1>3. Leads(p, e2, ExecList(e2, body) \o tasks, c)
  BY <1>2, ExecListPath DEF c
<1>4. ExecList(e, body) = ExecList(e2, body)
  BY SameList
<1> QED
  BY <1>1, <1>3, <1>4

LEMMA BranchKeeps ==
    ASSUME IndInv, ExecBranch
    PROVE  Preserved
<1> DEFINE body == Task.stmt.body
           new  == ExecList(Rest, body)
           e2   == Do(Rest, new)
<1>1. env' = e2 /\ program' = program /\ Stmt("branch")
  BY DEF ExecBranch, Becomes
<1>2. body \in Seq(Stmts)
  <2>1. Task.stmt \in Stmts /\ Task.stmt.op = "branch"
    BY <1>1, StmtKnown DEF Stmt
  <2> QED
    BY <2>1, ProgramsAssumption
<1> HIDE DEF body, e2
<1>3. Only(Rest, Rest, DataFields \ {"todo"}) /\ Only(Rest, Rest, {"class_resource_decls"})
      /\ Rest.resource_catalog = env.resource_catalog
      /\ Rest.deferred_defines = env.deferred_defines
  BY InvShape, RestFields DEF Only
<1>4. e2.todo = new \o Tail(env.todo) /\ SameFrame(env, e2) /\ Only(env, e2, DataFields)
  BY <1>3, DoRest DEF e2
<1>5. CatalogInv(program, e2)
  BY <1>3, DoCatalog DEF e2
<1>6. e2.deferred_defines = Rest.deferred_defines
  BY <1>3, <1>4 DEF Only, Fields, DataFields
<1>7. IsSeq(new)
  BY <1>2, SameList
<1>8. Brings(Task) = {} /\ Task.do = "stmt" /\ env.todo # <<>>
  BY <1>1, StmtBrings
<1>9. ASSUME NEW d \in Contexts, Here(e2, d), Leads(program, e2, Tail(env.todo), d),
             d.included \subseteq DOMAIN e2.class_scopes, IsSeq(Tail(env.todo))
      PROVE  \E c \in Contexts :
                /\ Here(e2, c) /\ c.included \subseteq DOMAIN e2.class_scopes
                /\ Leads(program, e2, new \o Tail(env.todo), c)
  BY <1>2, <1>6, <1>9, ListContext
<1> HIDE DEF new
<1> QED
  BY <1>1, <1>4, <1>5, <1>7, <1>8, <1>9, ReplacedStep

\* Including a class, or declaring one that has no scope yet, comes to ClassTasks.
LEMMA ClassTasksKeep ==
    ASSUME IndInv, NEW op \in {"include", "class"}, Stmt(op), program' = program,
           NEW args, NEW e, Only(Rest, e, {"class_resource_decls"}),
           env' = Do(e, ClassTasks(env, Task.stmt.class, args))
    PROVE  Preserved
<1> DEFINE class == Task.stmt.class
           new   == ClassTasks(env, class, args)
           e2    == Do(e, new)
<1>1. class \in DOMAIN program.classes
  BY ClassExists
<1>2. env.todo # <<>> /\ Task.do = "stmt" /\ Task.stmt.op = op
  BY DEF Stmt, At
<1>3. Brings(Task) \subseteq {class}
  BY <1>2 DEF Brings
<1> HIDE DEF e2
<1>4. Only(Rest, e, DataFields \ {"todo"}) /\ e.resource_catalog = env.resource_catalog
  BY InvShape, RestFields DEF Only, Fields, DataFields
<1>5. e2.todo = new \o Tail(env.todo) /\ SameFrame(env, e2) /\ Only(env, e2, DataFields)
  BY <1>4, DoRest DEF e2
<1>6. CatalogInv(program, e2)
  BY DoCatalog DEF e2
<1>7. e2.class_scopes = env.class_scopes
  BY <1>5 DEF Only, Fields, DataFields
<1>8. program \in Programs /\ KeptInv(env)
  BY DEF IndInv, FrameInv
<1>9. IsSeq(new)
  <2>1. /\ IsSeq(Tail(env.todo)) /\ Head(env.todo) = Task
        /\ IsSeq(new \o Tail(env.todo)) => IsSeq(e2.todo)
    BY <1>2, <1>5, FirstTask DEF IndInv, Task
  <2> DEFINE parent == program.classes[class].inherits
             enter  == [do |-> "class", class |-> class, args |-> args]
             first  == [do |-> "stmt", stmt |-> [op |-> "include", class |-> parent]]
  <2>2. new = <<enter>> \/ new = <<first, enter>>
    BY DEF ClassTasks
  <2> HIDE DEF enter, first, new
  <2>3. IsSeq(<<first, enter>>) /\ IsSeq(<<enter>>)
    <3>1. <<first, enter>> \in Seq({first, enter}) /\ <<enter>> \in Seq({enter})
      OBVIOUS
    <3> QED
      BY <3>1, SeqOfAny
  <2> QED
    BY <2>2, <2>3
<1>10. ASSUME NEW d \in Contexts, Here(e2, d), Leads(program, e2, Tail(env.todo), d),
              d.included \subseteq DOMAIN e2.class_scopes \cup Brings(Task),
              ShapeInv(e2), IsSeq(Tail(env.todo))
       PROVE  \E c \in Contexts :
                 /\ Here(e2, c) /\ c.included \subseteq DOMAIN e2.class_scopes
                 /\ Leads(program, e2, new \o Tail(env.todo), c)
  <2>1. d.included \subseteq DOMAIN e2.class_scopes \cup {class}
    BY <1>3, <1>10
  <2> HIDE DEF class
  <2> QED
    BY <1>1, <1>7, <1>8, <1>10, <2>1, ClassPath
<1>11. env' = e2
  BY DEF e2
<1> HIDE DEF new
<1> QED
  BY <1>2, <1>5, <1>6, <1>9, <1>10, <1>11, ReplacedStep

LEMMA IncludeKeeps ==
    ASSUME IndInv, puppet_exec_include
    PROVE  Preserved
<1> DEFINE class == Task.stmt.class
<1>1. Stmt("include") /\ program' = program
      /\ env' = IF Included(env, class) THEN Rest ELSE Do(Rest, ClassTasks(env, class, <<>>))
  BY DEF puppet_exec_include, Becomes
<1>2. env.todo # <<>> /\ Task.do = "stmt" /\ Brings(Task) = {class}
  BY <1>1 DEF Stmt, At, Brings
<1>3. CASE Included(env, class)
  <2>1. Brings(Task) \subseteq DOMAIN env.class_scopes
    BY <1>2, <1>3, IncludedClasses DEF IndInv, FrameInv
  <2> QED
    BY <1>1, <1>2, <1>3, <2>1, RestKeeps
<1>4. CASE ~ Included(env, class)
  <2>1. Only(Rest, Rest, {"class_resource_decls"})
    BY InvShape, RestFields DEF Only
  <2>2. env' = Do(Rest, ClassTasks(env, Task.stmt.class, <<>>))
    BY <1>1, <1>4
  <2> QED
    BY <1>1, <2>1, <2>2, ClassTasksKeep
<1> QED
  BY <1>3, <1>4

LEMMA DeclareClassKeeps ==
    ASSUME IndInv, DeclareClass
    PROVE  Preserved
<1> DEFINE declared == [Rest EXCEPT !.class_resource_decls = @ \cup {Task.stmt.class}]
<1>1. /\ Stmt("class") /\ program' = program
      /\ env' = Do(declared, ClassTasks(env, Task.stmt.class, Task.stmt.args))
  BY DEF DeclareClass, Becomes
<1>2. Only(Rest, declared, {"class_resource_decls"})
  BY InvShape, RestFields DEF Only, Fields
<1> HIDE DEF declared
<1> QED
  BY <1>1, <1>2, ClassTasksKeep

LEMMA CollectVirtualKeeps ==
    ASSUME IndInv, CollectVirtual
    PROVE  Preserved
<1> DEFINE t   == [do |-> "collecting", type |-> Task.stmt.type, filter |-> Task.stmt.filter,
                   first |-> Matching(Task.stmt.type, Task.stmt.filter), passed |-> {}]
           new == <<t>>
           e2  == Do(Rest, new)
<1>1. env' = e2 /\ program' = program /\ Stmt("collect")
  BY DEF CollectVirtual, Becomes
<1>2. t.do = "collecting" /\ DOMAIN t = {"do", "type", "filter", "first", "passed"}
  OBVIOUS
<1>3. Brings(t) = {}
  BY <1>2 DEF Brings
<1> HIDE DEF t, e2
<1>4. Only(Rest, Rest, DataFields \ {"todo"}) /\ Only(Rest, Rest, {"class_resource_decls"})
      /\ Rest.resource_catalog = env.resource_catalog
  BY InvShape, RestFields DEF Only
<1>5. e2.todo = new \o Tail(env.todo) /\ SameFrame(env, e2)
  BY <1>4, DoRest DEF e2
<1>6. CatalogInv(program, e2)
  BY <1>4, DoCatalog DEF e2
<1>7. IsSeq(new)
  BY DEF IsSeq
<1>8. Brings(Task) = {} /\ Task.do = "stmt" /\ env.todo # <<>>
  BY <1>1, StmtBrings
<1>9. ASSUME NEW d \in Contexts, Here(e2, d), Sound(e2, d), Leads(program, e2, Tail(env.todo), d),
             d.included \subseteq DOMAIN e2.class_scopes, IsSeq(Tail(env.todo))
      PROVE  /\ Here(e2, d) /\ d.included \subseteq DOMAIN e2.class_scopes
             /\ Leads(program, e2, new \o Tail(env.todo), d)
  <2>1. Ready(program, e2, t, d)
    BY <1>2 DEF Ready, Pops, Destroys
  <2>2. Follows(t, d, d)
    BY <1>2 DEF Follows, Pops, Destroys
  <2> QED
    BY <1>9, <2>1, <2>2, ConsPath
<1> HIDE DEF new
<1> QED
  BY <1>1, <1>5, <1>6, <1>7, <1>8, <1>9, ReplacedStep

-----------------------------------------------------------------------------
(* The ends of bodies and of lists, and instances that are deferred *)

\* The end of a body that leaves its scope, with a catalog that may have grown.
LEMMA LeftScope ==
    ASSUME IndInv, NEW e, Only(Rest, e, {"catalog"})
    PROVE  LET e2 == LeaveScope(e)
           IN  /\ Only(env, e2, {"todo", "catalog", "scopes", "stack", "current_scope"})
               /\ e2.todo = Tail(env.todo) /\ e2.catalog = e.catalog
               /\ e2.stack = Drop(env.stack, 1) /\ e2.current_scope = Last(env.stack)
               /\ IsSeq(e2.scopes) /\ Len(e2.scopes) = Len(env.scopes)
               /\ \A s \in 1..Len(env.scopes) :
                     /\ DOMAIN e2.scopes[s] = ScopeFields
                     /\ e2.scopes[s].parent = env.scopes[s].parent
                     /\ e2.scopes[s].live
                          = IF s = env.current_scope THEN FALSE ELSE env.scopes[s].live
<1> DEFINE e2 == LeaveScope(e)
<1>1. Only(env, Rest, {"todo"}) /\ Rest.todo = Tail(env.todo)
  BY InvShape, RestChanges
<1>2. DOMAIN e = Fields /\ e.scopes = env.scopes /\ e.current_scope = env.current_scope
      /\ e.stack = env.stack /\ e.todo = Tail(env.todo)
  BY <1>1 DEF Only, Fields
<1>3. /\ Only(e, e2, {"scopes", "stack", "current_scope"})
      /\ e2.stack = Drop(e.stack, 1) /\ e2.current_scope = Last(e.stack)
      /\ IsSeq(e2.scopes) /\ Len(e2.scopes) = Len(e.scopes)
      /\ \A s \in 1..Len(e.scopes) :
            /\ DOMAIN e2.scopes[s] = ScopeFields
            /\ e2.scopes[s].parent = e.scopes[s].parent
            /\ e2.scopes[s].live = IF s = e.current_scope THEN FALSE ELSE e.scopes[s].live
  <2>1. /\ IsSeq(e.scopes) /\ e.current_scope \in 1..Len(e.scopes)
        /\ \A s \in 1..Len(e.scopes) : DOMAIN e.scopes[s] = ScopeFields
    BY <1>2, InvShape
  <2> QED
    BY <1>2, <2>1, LeaveChanges
<1> HIDE DEF e2
<1>4. /\ Only(env, e2, {"todo", "catalog", "scopes", "stack", "current_scope"})
      /\ e2.todo = Tail(env.todo) /\ e2.catalog = e.catalog
  BY <1>1, <1>2, <1>3 DEF Only, Fields
<1> QED
  BY <1>2, <1>3, <1>4 DEF e2

\* The end of a body, seen from the environment.
LEMMA BodyEnds ==
    ASSUME IndInv, env.todo # <<>>, Task.do \in Pops, program' = program, NEW e2, env' = e2,
           Only(env, e2, {"todo", "catalog", "scopes", "stack", "current_scope",
                          "class_scope", "class_reexecuting", "classes"}),
           e2.todo = Tail(env.todo), e2.stack = Drop(env.stack, 1),
           IsSeq(e2.scopes), Len(e2.scopes) = Len(env.scopes),
           \A s \in 1..Len(env.scopes) : /\ DOMAIN e2.scopes[s] = ScopeFields
                                         /\ e2.scopes[s].parent = env.scopes[s].parent,
           e2.current_scope = IF Task.do = "endDefine" THEN Task.caller ELSE Last(env.stack),
           e2.class_scope = IF Task.do \in {"endClass", "endReexecution"}
                            THEN Task.outer ELSE env.class_scope,
           e2.class_reexecuting = IF Task.do \in {"endDefine", "endReexecution"}
                                  THEN Task.reexecuting ELSE env.class_reexecuting,
           \A s \in 1..Len(env.scopes) : e2.scopes[s].live
               = IF Task.do \in Destroys /\ s = env.current_scope
                 THEN FALSE ELSE env.scopes[s].live,
           DOMAIN e2.catalog \subseteq env.resource_catalog,
           e2.classes \subseteq DOMAIN env.class_scopes
    PROVE  Preserved
<1>1. /\ e2.class_scopes = env.class_scopes /\ e2.deferred_defines = env.deferred_defines
      /\ e2.resource_catalog = env.resource_catalog /\ DOMAIN e2 = Fields
      /\ e2.virtual_resources = env.virtual_resources
  BY DEF Only, Fields
<1>2. Leaves(env, e2)
  BY <1>1 DEF Leaves
<1>3. FrameInv(program, e2)
  BY <1>2, GoBack DEF IndInv, Task
<1>4. CatalogInv(program, e2)
  BY <1>1 DEF IndInv, CatalogInv
<1> QED
  BY <1>3, <1>4 DEF Preserved

\* What the task at hand relies on.
LEMMA TaskReady ==
    ASSUME IndInv, env.todo # <<>>
    PROVE  \E c \in Contexts : Here(env, c) /\ Sound(env, c) /\ Ready(program, env, Task, c)
BY FirstTask DEF IndInv, Task

LEMMA LeaveKeeps ==
    ASSUME IndInv, Leave
    PROVE  Preserved
<1> DEFINE e2 == LeaveScope(Rest)
<1>1. env' = e2 /\ program' = program /\ Task.do = "leave" /\ env.todo # <<>>
  BY DEF Leave, At, Becomes
<1>2. Only(Rest, Rest, {"catalog"}) /\ Rest.catalog = env.catalog
  BY InvShape, RestFields DEF Only
<1> HIDE DEF e2
<1>3. /\ Only(env, e2, {"todo", "catalog", "scopes", "stack", "current_scope"})
      /\ e2.todo = Tail(env.todo) /\ e2.catalog = env.catalog
      /\ e2.stack = Drop(env.stack, 1) /\ e2.current_scope = Last(env.stack)
      /\ IsSeq(e2.scopes) /\ Len(e2.scopes) = Len(env.scopes)
      /\ \A s \in 1..Len(env.scopes) :
            /\ DOMAIN e2.scopes[s] = ScopeFields
            /\ e2.scopes[s].parent = env.scopes[s].parent
            /\ e2.scopes[s].live = IF s = env.current_scope THEN FALSE ELSE env.scopes[s].live
  BY <1>2, LeftScope DEF e2
<1>4. /\ e2.class_scope = env.class_scope /\ e2.class_reexecuting = env.class_reexecuting
      /\ e2.classes = env.classes
      /\ Only(env, e2, {"todo", "catalog", "scopes", "stack", "current_scope",
                        "class_scope", "class_reexecuting", "classes"})
  BY <1>3 DEF Only, Fields
<1>5. DOMAIN e2.catalog \subseteq env.resource_catalog /\ e2.classes \subseteq DOMAIN env.class_scopes
  BY <1>3, <1>4 DEF IndInv, CatalogInv
<1>6. Task.do \in Pops /\ Task.do \in Destroys /\ Task.do # "endDefine"
      /\ Task.do \notin {"endClass", "endReexecution"}
      /\ Task.do \notin {"endDefine", "endReexecution"}
  BY <1>1 DEF Pops, Destroys
<1> QED
  BY <1>1, <1>3, <1>4, <1>5, <1>6, BodyEnds

LEMMA CreatedKeeps ==
    ASSUME IndInv, Created
    PROVE  Preserved
<1> DEFINE e  == puppet_catalog_add_resource(Rest, Task.id, Task.value)
           e2 == LeaveScope(e)
<1>1. env' = e2 /\ program' = program /\ Task.do = "created" /\ env.todo # <<>>
  BY DEF Created, At, Becomes
<1>2. Only(Rest, e, {"catalog"}) /\ DOMAIN e.catalog = DOMAIN env.catalog \cup {Task.id}
  BY InvShape, RestFields, AddResourceChanges
<1> HIDE DEF e, e2
<1>3. /\ Only(env, e2, {"todo", "catalog", "scopes", "stack", "current_scope"})
      /\ e2.todo = Tail(env.todo) /\ e2.catalog = e.catalog
      /\ e2.stack = Drop(env.stack, 1) /\ e2.current_scope = Last(env.stack)
      /\ IsSeq(e2.scopes) /\ Len(e2.scopes) = Len(env.scopes)
      /\ \A s \in 1..Len(env.scopes) :
            /\ DOMAIN e2.scopes[s] = ScopeFields
            /\ e2.scopes[s].parent = env.scopes[s].parent
            /\ e2.scopes[s].live = IF s = env.current_scope THEN FALSE ELSE env.scopes[s].live
  BY <1>2, LeftScope DEF e2
<1>4. /\ e2.class_scope = env.class_scope /\ e2.class_reexecuting = env.class_reexecuting
      /\ e2.classes = env.classes
      /\ Only(env, e2, {"todo", "catalog", "scopes", "stack", "current_scope",
                        "class_scope", "class_reexecuting", "classes"})
  BY <1>3 DEF Only, Fields
<1>5. Task.id \in env.resource_catalog
  BY <1>1, TaskReady DEF Ready
<1>6. DOMAIN e2.catalog \subseteq env.resource_catalog /\ e2.classes \subseteq DOMAIN env.class_scopes
  BY <1>2, <1>3, <1>4, <1>5 DEF IndInv, CatalogInv
<1>7. Task.do \in Pops /\ Task.do \in Destroys /\ Task.do # "endDefine"
      /\ Task.do \notin {"endClass", "endReexecution"}
      /\ Task.do \notin {"endDefine", "endReexecution"}
  BY <1>1 DEF Pops, Destroys
<1> QED
  BY <1>1, <1>3, <1>4, <1>6, <1>7, BodyEnds

LEMMA EndDefineKeeps ==
    ASSUME IndInv, EndDefine
    PROVE  Preserved
<1> DEFINE d  == env.deferred_defines[Task.entry]
           v  == InstanceValue(env, d)
           e  == AddOrUpdate(Rest, d.id, v)
           l  == LeaveScope(e)
           e2 == [l EXCEPT !.current_scope = Task.caller, !.class_reexecuting = Task.reexecuting]
<1>1. env' = e2 /\ program' = program /\ Task.do = "endDefine" /\ env.todo # <<>>
  BY DEF EndDefine, At, Becomes
<1>2. d.id \in env.resource_catalog
  <2>1. Task.entry \in 1..Len(env.deferred_defines)
    BY <1>1, TaskReady DEF Ready, Here
  <2> QED
    BY <2>1 DEF IndInv, CatalogInv
<1> HIDE DEF d, v
<1>3. Only(Rest, e, {"catalog"}) /\ DOMAIN e.catalog = DOMAIN env.catalog \cup {d.id}
  BY InvShape, RestFields, AddOrUpdateChanges
<1> HIDE DEF e, l
<1>4. /\ Only(env, l, {"todo", "catalog", "scopes", "stack", "current_scope"})
      /\ l.todo = Tail(env.todo) /\ l.catalog = e.catalog
      /\ l.stack = Drop(env.stack, 1) /\ l.current_scope = Last(env.stack)
      /\ IsSeq(l.scopes) /\ Len(l.scopes) = Len(env.scopes)
      /\ \A s \in 1..Len(env.scopes) :
            /\ DOMAIN l.scopes[s] = ScopeFields
            /\ l.scopes[s].parent = env.scopes[s].parent
            /\ l.scopes[s].live = IF s = env.current_scope THEN FALSE ELSE env.scopes[s].live
  BY <1>3, LeftScope DEF l
<1>5. /\ Only(l, e2, {"current_scope", "class_reexecuting"})
      /\ e2.current_scope = Task.caller /\ e2.class_reexecuting = Task.reexecuting
  BY <1>4 DEF Only, Fields
<1> HIDE DEF e2
<1>6. /\ e2.class_scope = env.class_scope /\ e2.classes = env.classes
      /\ e2.scopes = l.scopes /\ e2.catalog = e.catalog
      /\ e2.todo = Tail(env.todo) /\ e2.stack = Drop(env.stack, 1)
      /\ Only(env, e2, {"todo", "catalog", "scopes", "stack", "current_scope",
                        "class_scope", "class_reexecuting", "classes"})
  BY <1>4, <1>5 DEF Only, Fields
<1>7. DOMAIN e2.catalog \subseteq env.resource_catalog /\ e2.classes \subseteq DOMAIN env.class_scopes
  BY <1>2, <1>3, <1>6 DEF IndInv, CatalogInv
<1>8. Task.do \in Pops /\ Task.do \in Destroys /\ Task.do = "endDefine"
      /\ Task.do \notin {"endClass", "endReexecution"}
      /\ Task.do \in {"endDefine", "endReexecution"}
  BY <1>1 DEF Pops, Destroys
<1>9. /\ IsSeq(e2.scopes) /\ Len(e2.scopes) = Len(env.scopes)
      /\ \A s \in 1..Len(env.scopes) : /\ DOMAIN e2.scopes[s] = ScopeFields
                                       /\ e2.scopes[s].parent = env.scopes[s].parent
      /\ \A s \in 1..Len(env.scopes) : e2.scopes[s].live
             = IF Task.do \in Destroys /\ s = env.current_scope
               THEN FALSE ELSE env.scopes[s].live
  BY <1>4, <1>6, <1>8
<1>10. /\ e2.current_scope = IF Task.do = "endDefine" THEN Task.caller ELSE Last(env.stack)
       /\ e2.class_scope = IF Task.do \in {"endClass", "endReexecution"}
                           THEN Task.outer ELSE env.class_scope
       /\ e2.class_reexecuting = IF Task.do \in {"endDefine", "endReexecution"}
                                 THEN Task.reexecuting ELSE env.class_reexecuting
  BY <1>5, <1>6, <1>8
<1> QED
  BY <1>1, <1>6, <1>7, <1>8, <1>9, <1>10, BodyEnds

LEMMA EndClassKeeps ==
    ASSUME IndInv, EndClass
    PROVE  Preserved
<1> DEFINE e  == [Rest EXCEPT !.classes = @ \cup {Task.class}, !.class_scope = Task.outer]
           e2 == puppet_scope_pop(e)
<1>1. env' = e2 /\ program' = program /\ Task.do = "endClass" /\ env.todo # <<>>
  BY DEF EndClass, At, Becomes
<1>2. Only(env, Rest, {"todo"}) /\ Rest.todo = Tail(env.todo) /\ DOMAIN Rest = Fields
      /\ Rest.classes = env.classes
  BY InvShape, RestFields, RestChanges
<1>3. /\ Only(Rest, e, {"classes", "class_scope"})
      /\ e.classes = Rest.classes \cup {Task.class} /\ e.class_scope = Task.outer
  BY <1>2 DEF Only, Fields
<1> HIDE DEF e
<1>4. /\ Only(e, e2, {"stack", "current_scope"})
      /\ e2.stack = Drop(e.stack, 1) /\ e2.current_scope = Last(e.stack)
  BY <1>3, PopChanges DEF Only
<1> HIDE DEF e2
<1>5. /\ e2.stack = Drop(env.stack, 1) /\ e2.current_scope = Last(env.stack)
      /\ e2.classes = env.classes \cup {Task.class} /\ e2.class_scope = Task.outer
      /\ e2.scopes = env.scopes /\ e2.catalog = env.catalog /\ e2.todo = Tail(env.todo)
      /\ e2.class_reexecuting = env.class_reexecuting
      /\ Only(env, e2, {"todo", "catalog", "scopes", "stack", "current_scope",
                        "class_scope", "class_reexecuting", "classes"})
  BY <1>2, <1>3, <1>4 DEF Only, Fields
<1>6. Task.class \in DOMAIN env.class_scopes
  BY <1>1, TaskReady DEF Ready
<1>7. DOMAIN e2.catalog \subseteq env.resource_catalog /\ e2.classes \subseteq DOMAIN env.class_scopes
  BY <1>5, <1>6 DEF IndInv, CatalogInv
<1>8. Task.do \in Pops /\ Task.do \notin Destroys /\ Task.do # "endDefine"
      /\ Task.do \in {"endClass", "endReexecution"}
      /\ Task.do \notin {"endDefine", "endReexecution"}
  BY <1>1 DEF Pops, Destroys
<1>9. /\ IsSeq(e2.scopes) /\ Len(e2.scopes) = Len(env.scopes)
      /\ \A s \in 1..Len(env.scopes) : /\ DOMAIN e2.scopes[s] = ScopeFields
                                       /\ e2.scopes[s].parent = env.scopes[s].parent
                                       /\ e2.scopes[s].live = env.scopes[s].live
  BY <1>5, InvShape
<1> QED
  BY <1>1, <1>5, <1>7, <1>8, <1>9, BodyEnds

LEMMA EndReexecutionKeeps ==
    ASSUME IndInv, EndReexecution
    PROVE  Preserved
<1> DEFINE e  == [Rest EXCEPT !.class_scope = Task.outer, !.class_reexecuting = Task.reexecuting]
           e2 == puppet_scope_pop(e)
<1>1. env' = e2 /\ program' = program /\ Task.do = "endReexecution" /\ env.todo # <<>>
  BY DEF EndReexecution, At, Becomes
<1>2. Only(env, Rest, {"todo"}) /\ Rest.todo = Tail(env.todo) /\ DOMAIN Rest = Fields
  BY InvShape, RestFields, RestChanges
<1>3. /\ Only(Rest, e, {"class_reexecuting", "class_scope"})
      /\ e.class_reexecuting = Task.reexecuting /\ e.class_scope = Task.outer
  BY <1>2 DEF Only, Fields
<1> HIDE DEF e
<1>4. /\ Only(e, e2, {"stack", "current_scope"})
      /\ e2.stack = Drop(e.stack, 1) /\ e2.current_scope = Last(e.stack)
  BY <1>3, PopChanges DEF Only
<1> HIDE DEF e2
<1>5. /\ e2.stack = Drop(env.stack, 1) /\ e2.current_scope = Last(env.stack)
      /\ e2.classes = env.classes /\ e2.class_scope = Task.outer
      /\ e2.scopes = env.scopes /\ e2.catalog = env.catalog /\ e2.todo = Tail(env.todo)
      /\ e2.class_reexecuting = Task.reexecuting
      /\ Only(env, e2, {"todo", "catalog", "scopes", "stack", "current_scope",
                        "class_scope", "class_reexecuting", "classes"})
  BY <1>2, <1>3, <1>4 DEF Only, Fields
<1>6. DOMAIN e2.catalog \subseteq env.resource_catalog /\ e2.classes \subseteq DOMAIN env.class_scopes
  BY <1>5 DEF IndInv, CatalogInv
<1>7. Task.do \in Pops /\ Task.do \notin Destroys /\ Task.do # "endDefine"
      /\ Task.do \in {"endClass", "endReexecution"}
      /\ Task.do \in {"endDefine", "endReexecution"}
  BY <1>1 DEF Pops, Destroys
<1>8. /\ IsSeq(e2.scopes) /\ Len(e2.scopes) = Len(env.scopes)
      /\ \A s \in 1..Len(env.scopes) : /\ DOMAIN e2.scopes[s] = ScopeFields
                                       /\ e2.scopes[s].parent = env.scopes[s].parent
                                       /\ e2.scopes[s].live = env.scopes[s].live
  BY <1>5, InvShape
<1> QED
  BY <1>1, <1>5, <1>6, <1>7, <1>8, BodyEnds

LEMMA EndListKeeps ==
    ASSUME IndInv, EndList
    PROVE  Preserved
<1> DEFINE D  == env.deferred_defines
           D2 == SubSeq(D, 1, Task.saved)
           e2 == [Rest EXCEPT !.deferred_defines = SubSeq(@, 1, Task.saved)]
<1>1. env' = e2 /\ program' = program /\ Task.do = "deferred" /\ env.todo # <<>>
  BY DEF EndList, At, Becomes
<1>2. Only(env, Rest, {"todo"}) /\ Rest.todo = Tail(env.todo) /\ DOMAIN Rest = Fields
      /\ Rest.deferred_defines = D
  BY InvShape, RestFields, RestChanges
<1>3. Only(Rest, e2, {"deferred_defines"}) /\ e2.deferred_defines = D2
  BY <1>2 DEF Only, Fields
<1> HIDE DEF e2
<1>4. Only(env, e2, {"todo", "deferred_defines"}) /\ e2.todo = Tail(env.todo)
      /\ DOMAIN e2 = Fields
  BY <1>2, <1>3 DEF Only, Fields
<1>5. FrameInv(program, e2)
  <2>1. \A x \in Fields \ {"todo", "deferred_defines"} : e2[x] = env[x]
    BY <1>4 DEF Only
  <2>2. FrameInv(program, env) /\ Head(env.todo).do = "deferred"
        /\ e2.deferred_defines = SubSeq(env.deferred_defines, 1, Head(env.todo).saved)
    BY <1>1, <1>3 DEF IndInv, Task
  <2> QED
    BY <1>1, <1>4, <2>1, <2>2, ListEnds
<1>6. \A i \in 1..Len(D2) : i \in 1..Len(D) /\ D2[i] = D[i]
  <2>1. IsSeq(D) /\ Len(D) \in Nat
    BY InvShape DEF IsSeq
  <2>2. Task.saved \in Nat /\ Task.saved <= Len(D)
    <3>1. PICK c \in Contexts : Here(env, c) /\ Ready(program, env, Task, c)
      BY <1>1, TaskReady
    <3>2. Task.saved \in Nat /\ Task.cursor \in Nat /\ Task.saved <= Task.cursor
          /\ Task.cursor <= c.len
      BY <1>1, <3>1 DEF Ready
    <3>3. c.len = Len(D)
      BY <3>1 DEF Here
    <3> QED
      BY <2>1, <3>2, <3>3
  <2> DEFINE T == {D[i] : i \in 1..Len(D)}
  <2>3. D \in Seq(T)
    BY <2>1 DEF IsSeq
  <2> HIDE DEF T, D
  <2> QED
    BY <2>1, <2>2, <2>3
<1>7. CatalogInv(program, e2)
  <2>1. /\ e2.virtual_resources = env.virtual_resources /\ e2.classes = env.classes
        /\ e2.class_scopes = env.class_scopes /\ e2.catalog = env.catalog
        /\ e2.resource_catalog = env.resource_catalog
    BY <1>4 DEF Only, Fields
  <2>2. \A i \in 1..Len(e2.deferred_defines) :
           /\ e2.deferred_defines[i].id \in env.resource_catalog
           /\ e2.deferred_defines[i].id[1] \in DOMAIN program.defines
    BY <1>3, <1>6 DEF IndInv, CatalogInv
  <2> QED
    BY <2>1, <2>2 DEF IndInv, CatalogInv
<1> QED
  BY <1>1, <1>5, <1>7 DEF Preserved

LEMMA DeclareInstanceKeeps ==
    ASSUME IndInv, DeclareInstance
    PROVE  Preserved
<1> DEFINE id    == Id(Task.stmt)
           D     == env.deferred_defines
           entry == NewEntry(id, Task.stmt.value)
           m     == Mark(Rest, id)
           e2    == DeferDefine(m, entry)
<1>1. /\ env' = e2 /\ program' = program /\ Stmt("resource")
      /\ Task.stmt.type \in DOMAIN program.defines
  BY DEF DeclareInstance, IsDefine
<1>2. /\ DOMAIN entry = EntryFields /\ entry.id = id /\ id[1] = Task.stmt.type
      /\ entry.caller_scope = env.current_scope
      /\ entry.class_reexecuting = env.class_reexecuting
  BY DEF NewEntry, EntryFields, Id
<1> HIDE DEF id, entry
<1>3. Only(env, Rest, {"todo"}) /\ Rest.todo = Tail(env.todo) /\ DOMAIN Rest = Fields
  BY InvShape, RestFields, RestChanges
<1>4. Only(Rest, m, {"resource_catalog"}) /\ m.resource_catalog = Rest.resource_catalog \cup {id}
  BY <1>3, MarkChanges
<1> HIDE DEF m
<1>5. Only(m, e2, {"deferred_defines", "capacity", "generation"})
      /\ e2.deferred_defines = Append(m.deferred_defines, entry)
  BY <1>4, DeferChanges DEF Only
<1> HIDE DEF e2
<1>6. /\ Only(env, e2, {"todo", "resource_catalog", "deferred_defines", "capacity", "generation"})
      /\ e2.todo = Tail(env.todo) /\ DOMAIN e2 = Fields
      /\ e2.deferred_defines = Append(D, entry)
      /\ e2.resource_catalog = env.resource_catalog \cup {id}
  BY <1>3, <1>4, <1>5 DEF Only, Fields
<1>7. FrameInv(program, e2)
  <2>1. \A x \in {"stack", "current_scope", "class_scope", "class_scopes",
                  "class_reexecuting", "scopes"} : e2[x] = env[x]
    BY <1>6 DEF Only, Fields
  <2>2. /\ env.todo # <<>> /\ Head(env.todo) = Task /\ Task.do = "stmt"
        /\ IsInstance(program, Head(env.todo).stmt)
    BY <1>1 DEF Stmt, At, Task, IsInstance
  <2>3. FrameInv(program, env) /\ env.resource_catalog \subseteq e2.resource_catalog
    BY <1>6 DEF IndInv
  <2> QED
    BY <1>2, <1>6, <2>1, <2>2, <2>3, ListGrows
<1>8. CatalogInv(program, e2)
  <2>1. /\ e2.virtual_resources = env.virtual_resources /\ e2.classes = env.classes
        /\ e2.class_scopes = env.class_scopes /\ e2.catalog = env.catalog
    BY <1>6 DEF Only, Fields
  <2>2. ASSUME NEW i \in 1..Len(e2.deferred_defines)
        PROVE  /\ e2.deferred_defines[i].id \in e2.resource_catalog
               /\ e2.deferred_defines[i].id[1] \in DOMAIN program.defines
    <3> DEFINE T == {D[j] : j \in 1..Len(D)} \cup {entry}
    <3>0. IsSeq(D)
      BY InvShape
    <3>1. D \in Seq(T) /\ entry \in T
      BY <3>0 DEF IsSeq
    <3> HIDE DEF T, D
    <3>2. /\ Len(e2.deferred_defines) = Len(D) + 1 /\ Len(D) \in Nat
          /\ e2.deferred_defines[Len(D) + 1] = entry
          /\ \A j \in 1..Len(D) : e2.deferred_defines[j] = D[j]
      BY <1>6, <3>1
    <3>3. CASE i = Len(D) + 1
      BY <3>2, <3>3, <1>1, <1>2, <1>6
    <3>4. CASE i \in 1..Len(D)
      <4>1. D[i].id \in env.resource_catalog /\ D[i].id[1] \in DOMAIN program.defines
        BY <3>4 DEF IndInv, CatalogInv, D
      <4> QED
        BY <3>2, <3>4, <4>1, <1>6
    <3> QED
      BY <3>2, <3>3, <3>4
  <2> QED
    BY <1>6, <2>1, <2>2 DEF IndInv, CatalogInv
<1> QED
  BY <1>1, <1>7, <1>8 DEF Preserved

-----------------------------------------------------------------------------
(* Bodies that are entered *)

LEMMA ConcatElements ==
    ASSUME NEW T, NEW a \in Seq(T), NEW b \in Seq(T), NEW m, m = Len(a), NEW n, n = Len(b)
    PROVE  /\ m \in Nat /\ n \in Nat /\ a \o b \in Seq(T) /\ Len(a \o b) = m + n
           /\ \A i \in 1..m : (a \o b)[i] = a[i]
           /\ \A i \in (m + 1)..(m + n) : (a \o b)[i] = b[i - m]
OBVIOUS

LEMMA SameElements ==
    ASSUME NEW T, NEW a \in Seq(T), NEW b \in Seq(T), NEW n \in Nat, Len(a) = n, Len(b) = n,
           \A i \in 1..n : a[i] = b[i]
    PROVE  a = b
OBVIOUS

LEMMA ConcatAssociates ==
    ASSUME NEW a, IsSeq(a), NEW b, IsSeq(b), NEW s, IsSeq(s)
    PROVE  (a \o b) \o s = a \o (b \o s)
<1> DEFINE T == {a[i] : i \in 1..Len(a)} \cup {b[i] : i \in 1..Len(b)}
                \cup {s[i] : i \in 1..Len(s)}
           m == Len(a)
           n == Len(b)
           k == Len(s)
           ab == a \o b
           bs == b \o s
           l == ab \o s
           r == a \o bs
<1>1. a \in Seq(T) /\ b \in Seq(T) /\ s \in Seq(T)
  BY DEF IsSeq
<1> HIDE DEF T
<1>2. m = Len(a) /\ n = Len(b) /\ k = Len(s)
  OBVIOUS
<1> HIDE DEF m, n, k
<1>3. /\ m \in Nat /\ n \in Nat /\ ab \in Seq(T) /\ Len(ab) = m + n
      /\ \A i \in 1..m : ab[i] = a[i]
      /\ \A i \in (m + 1)..(m + n) : ab[i] = b[i - m]
  BY <1>1, <1>2, ConcatElements
<1>4. /\ k \in Nat /\ bs \in Seq(T) /\ Len(bs) = n + k
      /\ \A i \in 1..n : bs[i] = b[i]
      /\ \A i \in (n + 1)..(n + k) : bs[i] = s[i - n]
  BY <1>1, <1>2, ConcatElements
<1> HIDE DEF ab, bs
<1> DEFINE mn == m + n
           nk == n + k
<1>5. mn = m + n /\ nk = n + k /\ mn = Len(ab) /\ nk = Len(bs)
  BY <1>3, <1>4
<1> HIDE DEF mn, nk
<1>6. /\ l \in Seq(T) /\ Len(l) = mn + k
      /\ \A i \in 1..mn : l[i] = ab[i]
      /\ \A i \in (mn + 1)..(mn + k) : l[i] = s[i - mn]
  <2>1. ab \in Seq(T) /\ s \in Seq(T) /\ mn = Len(ab) /\ k = Len(s)
    BY <1>1, <1>2, <1>3, <1>5
  <2> QED
    BY <2>1, ConcatElements
<1>7. /\ r \in Seq(T) /\ Len(r) = m + nk
      /\ \A i \in 1..m : r[i] = a[i]
      /\ \A i \in (m + 1)..(m + nk) : r[i] = bs[i - m]
  <2>1. a \in Seq(T) /\ bs \in Seq(T) /\ m = Len(a) /\ nk = Len(bs)
    BY <1>1, <1>2, <1>4, <1>5
  <2> QED
    BY <2>1, ConcatElements
<1> HIDE DEF l, r
<1>8. ASSUME NEW i \in 1..(mn + k) PROVE l[i] = r[i]
  <2>1. CASE i \in 1..m
    <3>1. i \in 1..mn
      BY <2>1, <1>3, <1>5
    <3> QED
      BY <2>1, <3>1, <1>3, <1>6, <1>7
  <2>2. CASE i \in (m + 1)..mn
    <3>1. i \in 1..mn /\ i \in (m + 1)..(m + nk) /\ i - m \in 1..n /\ i \in (m + 1)..(m + n)
      BY <2>2, <1>3, <1>4, <1>5
    <3>2. l[i] = b[i - m]
      BY <3>1, <1>3, <1>6
    <3>3. r[i] = b[i - m]
      BY <3>1, <1>4, <1>7
    <3> QED
      BY <3>2, <3>3
  <2>3. CASE i \in (mn + 1)..(mn + k)
    <3>1. i \in (m + 1)..(m + nk) /\ i - m \in (n + 1)..(n + k) /\ (i - m) - n = i - mn
      BY <2>3, <1>3, <1>4, <1>5
    <3>2. bs[i - m] = s[(i - m) - n]
      BY <3>1, <1>4
    <3> QED
      BY <2>3, <3>1, <3>2, <1>6, <1>7
  <2> QED
    BY <2>1, <2>2, <2>3, <1>3, <1>4, <1>5
<1>9. mn + k \in Nat /\ mn + k = m + nk
  BY <1>3, <1>4, <1>5
<1>10. l = r
  BY <1>6, <1>7, <1>8, <1>9, SameElements
<1> QED
  BY <1>10 DEF l, r, ab, bs

\* e1 is e when a scope is about to be created.
Before(e, e1) ==
    /\ Only(e, e1, {"todo", "current_scope", "class_reexecuting", "class_resource_decls",
                    "resource_catalog", "virtual_resources"})
    /\ e.resource_catalog \subseteq e1.resource_catalog
    /\ e1.class_reexecuting \in BOOLEAN

\* x is e1 in a scope that was just created.
Entered(e1, parent, x) == \E variables : x = EnterScope(e1, parent, variables)

\* e2 is x, in the scope that was just created, with what is to do there.
Inside(x, e2) ==
    /\ Only(x, e2, {"todo", "scopes", "class_scope", "class_scopes"})
    /\ SameScopes(x, e2) /\ IsSeq(e2.todo)

\* A new scope, its variables, and the tasks that are done in it.
LEMMA EnterScopeEnters ==
    ASSUME NEW e, ShapeInv(e), NEW e1, Before(e, e1), NEW parent,
           NEW x, Entered(e1, parent, x), NEW e2, Inside(x, e2)
    PROVE  /\ Enters(e, e2, parent, e1.current_scope)
           /\ e2.class_reexecuting = e1.class_reexecuting
           /\ e2.resource_catalog = e1.resource_catalog
           /\ e2.virtual_resources = e1.virtual_resources
           /\ Only(e, e2, {"todo", "current_scope", "class_reexecuting", "class_resource_decls",
                           "resource_catalog", "virtual_resources", "scopes", "stack",
                           "class_scope", "class_scopes"})
<1> DEFINE n == Len(e.scopes) + 1
<1>1. IsSeq(e.scopes) /\ Len(e.scopes) \in Nat
  BY DEF ShapeInv, IsSeq
<1>2. DOMAIN e1 = Fields /\ e1.scopes = e.scopes /\ e1.stack = e.stack
  BY DEF Before, Only, Fields
<1>3. /\ Only(e1, x, {"scopes", "stack", "current_scope"})
      /\ x.stack = Append(e1.stack, e1.current_scope) /\ x.current_scope = n
      /\ IsSeq(x.scopes) /\ Len(x.scopes) = n /\ n \in 1..Len(x.scopes)
      /\ \A s \in 1..Len(e.scopes) : x.scopes[s] = e.scopes[s]
      /\ x.scopes[n].parent = parent /\ x.scopes[n].live = TRUE
      /\ \A s \in 1..n : DOMAIN x.scopes[s] = ScopeFields
  <2>1. DOMAIN e1 = Fields /\ IsSeq(e1.scopes)
        /\ \A s \in 1..Len(e1.scopes) : DOMAIN e1.scopes[s] = ScopeFields
    BY <1>2 DEF ShapeInv
  <2>2. PICK variables : x = EnterScope(e1, parent, variables)
    BY DEF Entered
  <2>3. NewScope(e1, EnterScope(e1, parent, variables), Len(e1.scopes) + 1, parent)
    BY <2>1, EnterScopeChanges
  <2>4. NewScope(e1, x, n, parent)
    BY <2>2, <2>3, <1>2
  <2> QED
    BY <2>4, <1>2 DEF NewScope
<1>5. /\ Only(e, e2, {"todo", "current_scope", "class_reexecuting", "class_resource_decls",
                      "resource_catalog", "virtual_resources", "scopes", "stack",
                      "class_scope", "class_scopes"})
      /\ DOMAIN e2 = Fields /\ e2.stack = Append(e.stack, e1.current_scope)
      /\ e2.current_scope = n /\ e2.class_reexecuting = e1.class_reexecuting
      /\ e2.deferred_defines = e.deferred_defines
      /\ e2.resource_catalog = e1.resource_catalog
      /\ e2.virtual_resources = e1.virtual_resources
  BY <1>2, <1>3 DEF Before, Inside, Only, Fields
<1>6. /\ IsSeq(e2.scopes) /\ Len(e2.scopes) = n
      /\ \A s \in 1..Len(x.scopes) : /\ DOMAIN e2.scopes[s] = ScopeFields
                                     /\ e2.scopes[s].parent = x.scopes[s].parent
                                     /\ e2.scopes[s].live = x.scopes[s].live
  BY <1>3 DEF Inside, SameScopes
<1>7. ASSUME NEW s \in 1..Len(e.scopes)
      PROVE  /\ DOMAIN e2.scopes[s] = ScopeFields
             /\ e2.scopes[s].parent = e.scopes[s].parent
             /\ e2.scopes[s].live = e.scopes[s].live
  <2>1. s \in 1..Len(x.scopes)
    BY <1>1, <1>3
  <2>2. x.scopes[s] = e.scopes[s]
    BY <1>3
  <2> QED
    BY <2>1, <2>2, <1>6
<1>8. /\ DOMAIN e2.scopes[n] = ScopeFields /\ e2.scopes[n].parent = parent
      /\ e2.scopes[n].live = TRUE
  BY <1>3, <1>6
<1>9. /\ IsSeq(e2.todo) /\ e2.class_reexecuting \in BOOLEAN
      /\ e.resource_catalog \subseteq e2.resource_catalog
  BY <1>5 DEF Before, Inside
<1> QED
  BY <1>5, <1>6, <1>7, <1>8, <1>9 DEF Enters

\* The tasks that follow restore everything, begun in context d.
Ahead(p, e, tasks, d) ==
    /\ ShapeInv(e) /\ KeptInv(e)
    /\ IsSeq(tasks) /\ tasks # <<>> /\ tasks[Len(tasks)].do = "deferred"
    /\ d \in Contexts /\ Leads(p, e, tasks, d) /\ Here(e, d) /\ Sound(e, d)
    /\ d.included \subseteq DOMAIN e.class_scopes

\* The statements of a body in the scope x is in.
BodyTasks(p, x, body, new) ==
    /\ body \in Seq(Stmts)
    /\ \/ new = Each(body) /\ \A i \in 1..Len(body) : ~ IsInstance(p, body[i])
       \/ new = ExecList(x, body)

\* Task end destroys the scope and restores context d.
GoesBack(e, x, back, d, end) ==
    /\ end.do \in Destroys
    /\ end.do = "created" => end.id \in x.resource_catalog
    /\ IF end.do = "endDefine"
       THEN end.entry \in 1..d.len /\ end.caller = d.scope /\ end.reexecuting = d.mode
       ELSE back = d.scope /\ x.class_reexecuting = e.class_reexecuting

\* e2 is x with something to do.
Begins(x, e2) == Only(x, e2, {"todo", "scopes"}) /\ SameScopes(x, e2)

\* A body in a scope of its own, which ends with the task end: a list, or single
\* statements that declare no instance.
LEMMA EnterBody ==
    ASSUME NEW p, NEW e, NEW tasks, NEW d, Ahead(p, e, tasks, d), NEW e2, NEW parent, NEW back,
           parent \in Kept(e) \cup d.doomed, back \in Kept(e) \cup d.doomed,
           Enters(e, e2, parent, back),
           e2.class_scope = e.class_scope, e2.class_scopes = e.class_scopes,
           NEW end, GoesBack(e, e2, back, d, end), NEW body, NEW new, BodyTasks(p, e2, body, new)
    PROVE  /\ ShapeInv(e2) /\ KeptInv(e2)
           /\ \E c \in Contexts :
                 /\ Here(e2, c) /\ c.included \subseteq DOMAIN e2.class_scopes
                 /\ Leads(p, e2, new \o (<<end>> \o tasks), c)
<1>0. /\ ShapeInv(e) /\ KeptInv(e) /\ IsSeq(tasks)
      /\ d \in Contexts /\ Leads(p, e, tasks, d) /\ Here(e, d) /\ Sound(e, d)
      /\ d.included \subseteq DOMAIN e.class_scopes
      /\ body \in Seq(Stmts)
      /\ \/ new = Each(body) /\ \A i \in 1..Len(body) : ~ IsInstance(p, body[i])
         \/ new = ExecList(e2, body)
      /\ end.do \in Destroys
      /\ end.do = "created" => end.id \in e2.resource_catalog
      /\ IF end.do = "endDefine"
         THEN end.entry \in 1..d.len /\ end.caller = d.scope /\ end.reexecuting = d.mode
         ELSE back = d.scope /\ e2.class_reexecuting = e.class_reexecuting
  BY DEF Ahead, BodyTasks, GoesBack
<1>1. ShapeInv(e2) /\ KeptInv(e2) /\ IsSeq(<<end>> \o tasks)
  BY <1>0, EnterTransient
<1>2. PICK c \in Contexts : /\ Here(e2, c) /\ c.included \subseteq DOMAIN e2.class_scopes
                            /\ Leads(p, e2, <<end>> \o tasks, c)
  BY <1>0, EnterTransient
<1>3. CASE new = Each(body) /\ \A i \in 1..Len(body) : ~ IsInstance(p, body[i])
  <2>1. IsSeq(new)
    BY <1>0, <1>3, EachIsSeq
  <2>2. Leads(p, e2, new \o (<<end>> \o tasks), c)
    BY <1>0, <1>1, <1>2, <1>3, EachPath
  <2> QED
    BY <1>1, <1>2, <2>1, <2>2
<1>4. CASE new = ExecList(e2, body)
  <2>1. IsSeq(new)
    BY <1>0, <1>4, SameList
  <2>2. \E b \in Contexts :
           /\ Here(e2, b) /\ b.included \subseteq DOMAIN e2.class_scopes
           /\ Leads(p, e2, new \o (<<end>> \o tasks), b)
    BY <1>0, <1>1, <1>2, <1>4, ListContext
  <2> QED
    BY <1>1, <2>1, <2>2
<1> QED
  BY <1>0, <1>3, <1>4

\* The step that enters such a body, seen from the environment.
LEMMA BodyStep ==
    ASSUME NEW p, NEW e, NEW tasks, NEW d, Ahead(p, e, tasks, d),
           NEW e1, Before(e, e1), e1.current_scope \in Kept(e) \cup d.doomed,
           NEW parent, parent \in Kept(e) \cup d.doomed,
           NEW x, Entered(e1, parent, x), NEW e2, Begins(x, e2),
           NEW end, GoesBack(e, e1, e1.current_scope, d, end), NEW body, NEW new, BodyTasks(p, x, body, new),
           e2.todo = (new \o <<end>>) \o tasks
    PROVE  FrameInv(p, e2)
<1>0. /\ ShapeInv(e) /\ KeptInv(e)
      /\ IsSeq(tasks) /\ tasks # <<>> /\ tasks[Len(tasks)].do = "deferred"
      /\ d \in Contexts /\ Leads(p, e, tasks, d) /\ Here(e, d) /\ Sound(e, d)
      /\ d.included \subseteq DOMAIN e.class_scopes
      /\ body \in Seq(Stmts)
      /\ \/ new = Each(body) /\ \A i \in 1..Len(body) : ~ IsInstance(p, body[i])
         \/ new = ExecList(x, body)
      /\ Only(x, e2, {"todo", "scopes"}) /\ SameScopes(x, e2)
  BY DEF Ahead, BodyTasks, Begins
<1> DEFINE all == new \o <<end>>
<1>1. IsSeq(<<end>>)
  <2>1. <<end>> \in Seq({end})
    OBVIOUS
  <2> QED
    BY <2>1, SeqOfAny
<1>2. IsSeq(new)
  BY <1>0, EachIsSeq, SameList
<1>3. IsSeq(all)
  BY <1>1, <1>2, ConcatIsSeq
<1>4. IsSeq(e2.todo)
  BY <1>0, <1>3, ConcatIsSeq
<1>5. all \o tasks = new \o (<<end>> \o tasks)
  BY <1>0, <1>1, <1>2, ConcatAssociates
<1> HIDE DEF all
<1>6. Inside(x, e2)
  BY <1>0, <1>4 DEF Inside, Only
<1>7. /\ Enters(e, e2, parent, e1.current_scope)
      /\ e2.class_reexecuting = e1.class_reexecuting
      /\ e2.resource_catalog = e1.resource_catalog
  BY <1>0, <1>6, EnterScopeEnters
<1>8. Only(e1, x, {"scopes", "stack", "current_scope"})
  <2>1. DOMAIN e1 = Fields
    BY DEF Before, Only
  <2> QED
    BY <2>1 DEF Entered, Only, EnterScope, Fields
<1>9. /\ e2.class_scope = e.class_scope /\ e2.class_scopes = e.class_scopes
      /\ e2.deferred_defines = x.deferred_defines
  BY <1>0, <1>8 DEF Before, Only, Fields
<1>10. BodyTasks(p, e2, body, new)
  <2>1. ExecList(x, body) = ExecList(e2, body)
    BY <1>0, <1>9, SameList
  <2> QED
    BY <2>1, <1>0 DEF BodyTasks
<1>11. GoesBack(e, e2, e1.current_scope, d, end)
  BY <1>7 DEF GoesBack
<1>12. /\ ShapeInv(e2) /\ KeptInv(e2)
       /\ \E c \in Contexts :
             /\ Here(e2, c) /\ c.included \subseteq DOMAIN e2.class_scopes
             /\ Leads(p, e2, new \o (<<end>> \o tasks), c)
  BY <1>7, <1>9, <1>10, <1>11, EnterBody
<1>13. PICK c \in Contexts :
             /\ Here(e2, c) /\ c.included \subseteq DOMAIN e2.class_scopes
             /\ Leads(p, e2, all \o tasks, c)
  BY <1>5, <1>12
<1>14. e2.todo = all \o tasks
  BY DEF all
<1> QED
  BY <1>0, <1>3, <1>12, <1>13, <1>14, Replace

\* A task list in front, after a scope was entered.
LEMMA DoInside ==
    ASSUME NEW e, ShapeInv(e), NEW e1, Before(e, e1), NEW parent,
           NEW x, Entered(e1, parent, x), NEW tasks
    PROVE  Begins(x, Do(x, tasks)) /\ Do(x, tasks).todo = tasks \o e1.todo
<1> DEFINE n  == Len(e.scopes) + 1
           e2 == Do(x, tasks)
<1>0. PICK variables : x = EnterScope(e1, parent, variables)
  BY DEF Entered
<1>1. DOMAIN e1 = Fields /\ e1.scopes = e.scopes
  BY DEF Before, Only, Fields
<1>2. DOMAIN e1 = Fields /\ IsSeq(e1.scopes)
      /\ \A s \in 1..Len(e1.scopes) : DOMAIN e1.scopes[s] = ScopeFields
  BY <1>1 DEF ShapeInv
<1>3. NewScope(e1, EnterScope(e1, parent, variables), Len(e1.scopes) + 1, parent)
  BY <1>2, EnterScopeChanges
<1>4. NewScope(e1, x, n, parent)
  BY <1>0, <1>1, <1>3
<1>5. /\ DOMAIN x = Fields /\ IsSeq(x.scopes) /\ Len(x.scopes) = n /\ x.todo = e1.todo
      /\ \A s \in 1..n : DOMAIN x.scopes[s] = ScopeFields
  BY <1>4 DEF NewScope, Only, Fields
<1>6. Only(x, e2, {"todo"}) /\ e2.todo = tasks \o x.todo
  BY <1>5, DoChanges
<1> HIDE DEF e2
<1>7. Only(x, e2, {"todo", "scopes"}) /\ e2.scopes = x.scopes
  BY <1>6 DEF Only, Fields
<1>8. SameScopes(x, e2)
  BY <1>5, <1>7 DEF SameScopes
<1> QED
  BY <1>5, <1>6, <1>7, <1>8 DEF Begins, e2

\* The function a statement calls exists, and declares no instance.
LEMMA FunctionExists ==
    ASSUME IndInv, InstancesInLists, Stmt("call")
    PROVE  LET body == program.functions[Task.stmt.function]
           IN  body \in Seq(Stmts) /\ \A i \in 1..Len(body) : ~ IsInstance(program, body[i])
<1> DEFINE function == Task.stmt.function
           body == program.functions[function]
<1>1. Task.stmt \in Stmts /\ Task.stmt.op = "call"
  BY StmtKnown DEF Stmt
<1>2. function \in DOMAIN program.functions
  BY <1>1, ProgramsAssumption DEF IndInv
<1>3. body \in Seq(Stmts)
  BY <1>2, ProgramsAssumption DEF IndInv
<1>4. ~ DeclaresInstances(program, body)
  BY <1>2 DEF IndInv, InstancesInLists
<1> HIDE DEF body
<1>5. \A i \in 1..Len(body) : ~ IsInstance(program, body[i])
  BY <1>3, <1>4 DEF DeclaresInstances, IsInstance
<1> QED
  BY <1>3, <1>5 DEF body

\* What follows the statement at hand.
LEMMA AfterStmt ==
    ASSUME IndInv, env.todo # <<>>, Task.do \in {"stmt", "collecting"}, Brings(Task) = {}
    PROVE  \E d \in Contexts : /\ Ahead(program, env, Tail(env.todo), d)
                               /\ Ready(program, env, Task, d)
                               /\ env.current_scope = d.scope
                               /\ env.current_scope \in Kept(env) \cup d.doomed
<1>1. FrameInv(program, env) /\ Head(env.todo) = Task
  BY DEF IndInv, Task
<1>2. Tail(env.todo) # <<>>
  BY <1>1, FirstStmt
<1>3. PICK d \in Contexts :
             /\ Here(env, d) /\ Sound(env, d) /\ Leads(program, env, Tail(env.todo), d)
             /\ Ready(program, env, Head(env.todo), d)
             /\ d.included \subseteq DOMAIN env.class_scopes \cup Brings(Head(env.todo))
  BY <1>1, FirstStmt
<1>4. env.current_scope = d.scope /\ env.current_scope \in Kept(env) \cup d.doomed
  BY <1>3 DEF Here, Sound
<1>5. IsSeq(Tail(env.todo)) /\ Tail(env.todo)[Len(Tail(env.todo))].do = "deferred"
  BY <1>1, <1>2, FirstTask
<1>6. Ahead(program, env, Tail(env.todo), d)
  BY <1>1, <1>2, <1>3, <1>5, InvShape DEF Ahead
<1> QED
  BY <1>1, <1>3, <1>4, <1>6

\* A body in a child of the scope at hand.
LEMMA EnterStep ==
    ASSUME NEW p, NEW e, NEW tasks, NEW d, Ahead(p, e, tasks, d),
           NEW e1, Before(e, e1), e1.todo = tasks,
           e1.current_scope = d.scope, e1.class_reexecuting = e.class_reexecuting,
           NEW x, Entered(e1, d.scope, x),
           NEW end, end.do \in {"leave", "created"},
           end.do = "created" => end.id \in e1.resource_catalog,
           NEW body, NEW new, BodyTasks(p, x, body, new),
           NEW e2, e2 = Do(x, new \o <<end>>)
    PROVE  FrameInv(p, e2) /\ Only(e1, e2, {"todo", "scopes", "stack", "current_scope"})
<1> DEFINE all == new \o <<end>>
<1>1. ShapeInv(e) /\ d.scope \in Kept(e) \cup d.doomed
  BY DEF Ahead, Sound
<1>2. e2 = Do(x, all)
  OBVIOUS
<1> HIDE DEF all
<1>3. Begins(x, e2) /\ e2.todo = all \o tasks
  <2>1. Begins(x, Do(x, all)) /\ Do(x, all).todo = all \o e1.todo
    BY <1>1, DoInside
  <2> QED
    BY <2>1, <1>2
<1>4. GoesBack(e, e1, e1.current_scope, d, end)
  BY DEF GoesBack, Destroys
<1>5. e2.todo = (new \o <<end>>) \o tasks
  BY <1>3 DEF all
<1>6. FrameInv(p, e2)
  BY <1>1, <1>3, <1>4, <1>5, BodyStep
<1>7. DOMAIN e1 = Fields
  BY DEF Before, Only
<1>8. Only(e1, x, {"scopes", "stack", "current_scope"})
  BY <1>7 DEF Entered, Only, EnterScope, Fields
<1>9. Only(e1, e2, {"todo", "scopes", "stack", "current_scope"})
  BY <1>3, <1>8 DEF Begins, Only, Fields
<1> QED
  BY <1>6, <1>9

LEMMA CallKeeps ==
    ASSUME IndInv, InstancesInLists, puppet_call_user_function
    PROVE  Preserved
<1> DEFINE body  == program.functions[Task.stmt.function]
           end   == [do |-> "leave"]
           new   == Each(body)
           x     == EnterScope(Rest, env.current_scope, <<>>)
           e2    == Do(x, new \o <<end>>)
           tasks == Tail(env.todo)
<1>1. env' = e2 /\ program' = program /\ Stmt("call")
  BY DEF puppet_call_user_function, Becomes
<1>2. body \in Seq(Stmts) /\ \A i \in 1..Len(body) : ~ IsInstance(program, body[i])
  BY <1>1, FunctionExists
<1>3. Brings(Task) = {} /\ Task.do = "stmt" /\ env.todo # <<>>
  BY <1>1, StmtBrings
<1>5. PICK d \in Contexts : /\ Ahead(program, env, tasks, d) /\ env.current_scope = d.scope
                            /\ env.current_scope \in Kept(env) \cup d.doomed
  BY <1>3, AfterStmt
<1>6. Only(env, Rest, {"todo"}) /\ Rest.todo = tasks
  BY InvShape, RestChanges
<1>7. /\ Before(env, Rest) /\ Rest.current_scope = env.current_scope
      /\ Rest.class_reexecuting = env.class_reexecuting
  BY <1>6, InvShape DEF Before, Only, Fields, ShapeInv
<1> HIDE DEF body, x, e2, tasks, new
<1>8. Entered(Rest, d.scope, x) /\ e2 = Do(x, new \o <<end>>)
  BY <1>5 DEF Entered, x, e2
<1>9. BodyTasks(program, x, body, new)
  BY <1>2 DEF BodyTasks, new
<1>10. /\ end.do \in {"leave", "created"}
       /\ end.do = "created" => end.id \in Rest.resource_catalog
       /\ Rest.current_scope = d.scope
  BY <1>5, <1>7
<1> HIDE DEF end
<1>11. FrameInv(program, e2) /\ Only(Rest, e2, {"todo", "scopes", "stack", "current_scope"})
  BY <1>5, <1>6, <1>7, <1>8, <1>9, <1>10, EnterStep
<1>12. CatalogInv(program, e2)
  <2>1. Only(env, e2, Fields \ {"catalog", "resource_catalog", "virtual_resources", "classes",
                                "class_scopes", "deferred_defines"})
    BY <1>6, <1>11 DEF Only, Fields
  <2> QED
    BY <2>1, CatalogSame DEF IndInv
<1> QED
  BY <1>1, <1>11, <1>12 DEF Preserved

LEMMA CreateResourcesKeeps ==
    ASSUME IndInv, puppet_func_create_resources
    PROVE  Preserved
<1> DEFINE id     == Id(Task.stmt)
           value  == puppet_eval_expr(env, Task.stmt.value)
           marked == Mark(Rest, id)
           body   == program.defines[id[1]].body
           end    == [do |-> "created", id |-> id, value |-> value]
           bound  == Put(Titled(id[2]), "p", value)
           x      == EnterScope(marked, env.current_scope, bound)
           new    == ExecList(x, body)
           e2     == Do(x, new \o <<end>>)
           e3     == puppet_catalog_add_resource(marked, id, value)
           tasks  == Tail(env.todo)
<1>1. /\ Stmt("create") /\ program' = program
      /\ \/ env' = Rest
         \/ IsDefine(id[1]) /\ env' = e2
         \/ env' = e3
  BY DEF puppet_func_create_resources, Becomes
<1>2. Brings(Task) = {} /\ Task.do = "stmt" /\ env.todo # <<>>
  BY <1>1, StmtBrings
<1>3. Only(env, Rest, {"todo"}) /\ Rest.todo = tasks /\ DOMAIN Rest = Fields
  BY InvShape, RestFields, RestChanges
<1> HIDE DEF id, value, bound
<1>4. Only(Rest, marked, {"resource_catalog"})
      /\ marked.resource_catalog = Rest.resource_catalog \cup {id}
  BY <1>3, MarkChanges
<1>5. CASE env' = Rest
  BY <1>1, <1>2, <1>5, RestKeeps
<1>6. CASE env' = e3
  <2> HIDE DEF tasks
  <2>1. /\ Only(Rest, e3, {"catalog", "resource_catalog"})
        /\ e3.resource_catalog = Rest.resource_catalog \cup {id}
        /\ DOMAIN e3.catalog = DOMAIN Rest.catalog \cup {id}
    BY <1>3, AddedTo
  <2> HIDE DEF e3
  <2>2. /\ Only(env, e3, DataFields) /\ e3.todo = tasks
        /\ e3.resource_catalog = env.resource_catalog \cup {id}
        /\ DOMAIN e3.catalog = DOMAIN env.catalog \cup {id}
        /\ e3.virtual_resources = env.virtual_resources /\ e3.classes = env.classes
        /\ e3.class_scopes = env.class_scopes /\ e3.deferred_defines = env.deferred_defines
    BY <1>3, <2>1 DEF Only, Fields, DataFields
  <2>3. CatalogInv(program, e3)
    BY <2>2, CatalogGrows DEF IndInv
  <2> QED
    BY <1>1, <1>6, <2>2, <2>3, TableStep DEF tasks
<1>7. CASE IsDefine(id[1]) /\ env' = e2
  <2>1. body \in Seq(Stmts)
    BY <1>7, ProgramsAssumption DEF IndInv, IsDefine
  <2>2. PICK d \in Contexts : /\ Ahead(program, env, tasks, d) /\ env.current_scope = d.scope
                              /\ env.current_scope \in Kept(env) \cup d.doomed
    BY <1>2, AfterStmt
  <2> HIDE DEF marked, x, body, e2, tasks, new
  <2>3. /\ marked.todo = tasks /\ marked.current_scope = env.current_scope
        /\ marked.class_reexecuting = env.class_reexecuting
        /\ marked.resource_catalog = env.resource_catalog \cup {id}
        /\ Only(env, marked, {"todo", "resource_catalog"})
    BY <1>3, <1>4 DEF Only, Fields
  <2>4. Before(env, marked)
    BY <2>3, InvShape DEF Before, Only, ShapeInv
  <2>5. Entered(marked, d.scope, x) /\ e2 = Do(x, new \o <<end>>)
    BY <2>2 DEF Entered, x, e2
  <2>6. BodyTasks(program, x, body, new)
    BY <2>1 DEF BodyTasks, new
  <2>7. end.do \in {"leave", "created"} /\ end.id \in marked.resource_catalog
    BY <2>3
  <2> HIDE DEF end
  <2>8. FrameInv(program, e2) /\ Only(marked, e2, {"todo", "scopes", "stack", "current_scope"})
    BY <2>2, <2>3, <2>4, <2>5, <2>6, <2>7, EnterStep
  <2>9. /\ e2.resource_catalog = env.resource_catalog \cup {id}
        /\ e2.catalog = env.catalog
        /\ e2.virtual_resources = env.virtual_resources /\ e2.classes = env.classes
        /\ e2.class_scopes = env.class_scopes /\ e2.deferred_defines = env.deferred_defines
    BY <2>3, <2>8 DEF Only, Fields
  <2>10. CatalogInv(program, e2)
    BY <2>9, CatalogGrows DEF IndInv
  <2> QED
    BY <1>1, <1>7, <2>8, <2>10 DEF Preserved
<1> QED
  BY <1>1, <1>5, <1>6, <1>7

\* The first of some tasks changes.
LEMMA FirstChanges ==
    ASSUME NEW s, IsSeq(s), s # <<>>, NEW t
    PROVE  [s EXCEPT ![1] = t] = <<t>> \o Tail(s)
<1> DEFINE T == {s[i] : i \in 1..Len(s)} \cup {t}
           l == [s EXCEPT ![1] = t]
           r == <<t>> \o Tail(s)
           n == Len(s)
<1>1. s \in Seq(T) /\ t \in T
  BY DEF IsSeq
<1> HIDE DEF T
<1>2. n \in Nat /\ n >= 1 /\ Tail(s) \in Seq(T) /\ Len(Tail(s)) = n - 1
      /\ \A i \in 1..(n - 1) : Tail(s)[i] = s[i + 1]
  BY <1>1
<1>3. l \in Seq(T) /\ Len(l) = n /\ l[1] = t /\ \A i \in 2..n : l[i] = s[i]
  BY <1>1, <1>2
<1>4. <<t>> \in Seq(T) /\ Len(<<t>>) = 1 /\ <<t>>[1] = t
  BY <1>1
<1> DEFINE a == <<t>>
           b == Tail(s)
           k == 1
           m == n - 1
<1>5. a \in Seq(T) /\ b \in Seq(T) /\ k = Len(a) /\ m = Len(b)
  BY <1>2, <1>4
<1>6. /\ r \in Seq(T) /\ Len(r) = n
      /\ r[1] = t /\ \A i \in 2..n : r[i] = s[i]
  <2> HIDE DEF a, b, m, k
  <2>1. /\ a \o b \in Seq(T) /\ Len(a \o b) = k + m
        /\ \A i \in 1..k : (a \o b)[i] = a[i]
        /\ \A i \in (k + 1)..(k + m) : (a \o b)[i] = b[i - k]
    BY <1>5, ConcatElements
  <2>2. m = n - 1 /\ k = 1 /\ k + m = n
    BY <1>2 DEF m, k
  <2>3. (a \o b)[1] = t
    BY <2>1, <2>2, <1>4 DEF a
  <2>4. ASSUME NEW i \in 2..n PROVE (a \o b)[i] = s[i]
    <3>1. i \in (k + 1)..(k + m) /\ i - k \in 1..(n - 1) /\ (i - k) + 1 = i
      BY <2>2, <1>2
    <3>2. (a \o b)[i] = b[i - k]
      BY <2>1, <3>1
    <3>3. b[i - k] = s[(i - k) + 1]
      BY <3>1, <1>2 DEF b
    <3> QED
      BY <3>1, <3>2, <3>3
  <2> QED
    BY <2>1, <2>2, <2>3, <2>4 DEF a, b
<1> HIDE DEF l, r
<1>7. ASSUME NEW i \in 1..n PROVE l[i] = r[i]
  <2>1. i = 1 \/ i \in 2..n
    BY <1>2
  <2> QED
    BY <2>1, <1>3, <1>6
<1>8. l = r
  BY <1>2, <1>3, <1>6, <1>7, SameElements
<1> QED
  BY <1>8 DEF l, r

\* The walk over the virtual resources: what it has passed is noted in the task.
LEMMA WalkTasks ==
    ASSUME IndInv, At("collecting"), NEW id,
           NEW e, e = [env EXCEPT !.todo[1].passed = @ \cup {id}]
    PROVE  \E next : /\ next.do = "collecting"
                     /\ DOMAIN next = {"do", "type", "filter", "first", "passed"}
                     /\ e.todo = <<next>> \o Tail(env.todo)
                     /\ Only(env, e, {"todo"})
<1> DEFINE next == [env.todo[1] EXCEPT !.passed = @ \cup {id}]
<1>1. env.todo # <<>> /\ Task.do = "collecting"
  BY DEF At
<1>2. Brings(Task) = {}
  BY <1>1 DEF Brings
<1>3. PICK d \in Contexts : Ready(program, env, Task, d)
  BY <1>1, <1>2, AfterStmt
<1>4. IsSeq(env.todo) /\ Task = env.todo[1]
  BY <1>1, FirstTask DEF IndInv, FrameInv, ShapeInv, Task
<1>5. DOMAIN env.todo[1] = {"do", "type", "filter", "first", "passed"}
      /\ env.todo[1].do = "collecting"
  BY <1>1, <1>3, <1>4 DEF Ready
<1>6. next.do = "collecting" /\ DOMAIN next = {"do", "type", "filter", "first", "passed"}
  BY <1>5
<1>7. 1 \in DOMAIN env.todo
  BY <1>1, <1>4 DEF IsSeq
<1>8. e = [env EXCEPT !.todo = [env.todo EXCEPT ![1] = next]]
  BY <1>7
<1> HIDE DEF next
<1>9. [env.todo EXCEPT ![1] = next] = <<next>> \o Tail(env.todo)
  BY <1>1, <1>4, FirstChanges
<1>10. DOMAIN env = Fields
  BY InvShape
<1>11. e.todo = <<next>> \o Tail(env.todo) /\ Only(env, e, {"todo"})
  BY <1>8, <1>9, <1>10 DEF Only, Fields
<1> QED
  BY <1>6, <1>11

\* The walk itself changes no context.
LEMMA WalkReady ==
    ASSUME NEW p, NEW e, NEW next, next.do = "collecting",
           DOMAIN next = {"do", "type", "filter", "first", "passed"},
           NEW tasks, IsSeq(tasks), NEW d \in Contexts, Leads(p, e, tasks, d), Sound(e, d)
    PROVE  /\ IsSeq(<<next>>) /\ IsSeq(<<next>> \o tasks)
           /\ Leads(p, e, <<next>> \o tasks, d)
<1>1. Ready(p, e, next, d)
  BY DEF Ready, Pops, Destroys
<1>2. Follows(next, d, d)
  BY DEF Follows, Pops, Destroys
<1>3. Leads(p, e, <<next>> \o tasks, d)
  BY <1>1, <1>2, ConsPath
<1>4. IsSeq(<<next>>)
  <2>1. <<next>> \in Seq({next})
    OBVIOUS
  <2> QED
    BY <2>1, SeqOfAny
<1>5. IsSeq(<<next>> \o tasks)
  BY <1>4, ConcatIsSeq
<1> QED
  BY <1>3, <1>4, <1>5

\* The walk goes on, and nothing but the tables is different.
LEMMA WalkGoesOn ==
    ASSUME IndInv, At("collecting"), program' = program, NEW next, next.do = "collecting",
           DOMAIN next = {"do", "type", "filter", "first", "passed"},
           NEW e2, env' = e2, e2.todo = <<next>> \o Tail(env.todo), Only(env, e2, DataFields),
           env.resource_catalog \subseteq e2.resource_catalog, CatalogInv(program, e2)
    PROVE  Preserved
<1>1. env.todo # <<>> /\ Task.do = "collecting"
  BY DEF At
<1>2. Brings(Task) = {}
  BY <1>1 DEF Brings
<1>3. SameFrame(env, e2)
  <2>1. ShapeInv(env)
    BY InvShape
  <2> QED
    BY <2>1, DataFrame
<1> DEFINE new == <<next>>
<1>4. IsSeq(new)
  <2>1. <<next>> \in Seq({next})
    OBVIOUS
  <2> QED
    BY <2>1, SeqOfAny
<1>5. ASSUME NEW d \in Contexts, Here(e2, d), Sound(e2, d), Leads(program, e2, Tail(env.todo), d),
             d.included \subseteq DOMAIN e2.class_scopes, IsSeq(Tail(env.todo))
      PROVE  \E c \in Contexts :
                /\ Here(e2, c) /\ c.included \subseteq DOMAIN e2.class_scopes
                /\ Leads(program, e2, new \o Tail(env.todo), c)
  <2>1. Leads(program, e2, <<next>> \o Tail(env.todo), d)
    BY <1>5, WalkReady
  <2> QED
    BY <2>1, <1>5
<1>6. e2.todo = new \o Tail(env.todo)
  OBVIOUS
<1> HIDE DEF new
<1>7. \A d \in Contexts :
          (/\ Here(e2, d) /\ Sound(e2, d) /\ Leads(program, e2, Tail(env.todo), d)
           /\ d.included \subseteq DOMAIN e2.class_scopes \cup Brings(Task)
           /\ ShapeInv(e2) /\ KeptInv(e2) /\ IsSeq(Tail(env.todo)))
          => \E c \in Contexts :
                /\ Here(e2, c) /\ c.included \subseteq DOMAIN e2.class_scopes
                /\ Leads(program, e2, new \o Tail(env.todo), c)
  BY <1>2, <1>5
<1> QED
  BY <1>1, <1>3, <1>4, <1>6, <1>7, ReplacedStep

\* A virtual instance of a defined type that is collected declares no instance.
LEMMA CollectedBody ==
    ASSUME IndInv, InstancesInLists, NEW id \in DOMAIN env.virtual_resources, IsDefine(id[1])
    PROVE  LET body == program.defines[id[1]].body
           IN  body \in Seq(Stmts) /\ \A i \in 1..Len(body) : ~ IsInstance(program, body[i])
<1> DEFINE body == program.defines[id[1]].body
<1>1. id[1] \in DOMAIN program.defines /\ id[1] \in VirtualTypes
  BY DEF IsDefine, IndInv, CatalogInv
<1>2. body \in Seq(Stmts)
  BY <1>1, ProgramsAssumption DEF IndInv
<1>3. ~ DeclaresInstances(program, body)
  BY <1>1 DEF IndInv, InstancesInLists, VirtualTypes
<1> HIDE DEF body
<1>4. \A i \in 1..Len(body) : ~ IsInstance(program, body[i])
  BY <1>2, <1>3 DEF DeclaresInstances, IsInstance
<1> QED
  BY <1>2, <1>4 DEF body

LEMMA CollectKeeps ==
    ASSUME IndInv, InstancesInLists, Collect
    PROVE  Preserved
<1>1. At("collecting")
  BY DEF Collect
<1>2. PICK id \in Matching(Task.type, Task.filter) \ Task.passed :
        LET value  == env.virtual_resources[id].value
            passed == [env EXCEPT !.todo[1].passed = @ \cup {id}]
            marked == Realized(Mark(passed, id), id)
            inside == EnterScope(marked, env.current_scope, Put(Titled(id[2]), "p", value))
        IN  CASE id \in env.resource_catalog -> Becomes(passed)
              [] id \notin env.resource_catalog /\ IsDefine(id[1]) ->
                     /\ env' = Do(inside, Each(program.defines[id[1]].body) \o <<[do |-> "leave"]>>)
                     /\ seen' = Ran(id)
                     /\ UNCHANGED program
              [] OTHER -> Becomes(puppet_catalog_add_resource(marked, id, value))
  BY DEF Collect
<1> DEFINE value  == env.virtual_resources[id].value
           passed == [env EXCEPT !.todo[1].passed = @ \cup {id}]
           m1     == Mark(passed, id)
           marked == Realized(m1, id)
           bound  == Put(Titled(id[2]), "p", value)
           x      == EnterScope(marked, env.current_scope, bound)
           body   == program.defines[id[1]].body
           end    == [do |-> "leave"]
           new    == Each(body)
           e2     == Do(x, new \o <<end>>)
           e3     == puppet_catalog_add_resource(marked, id, value)
<1>3. /\ program' = program
      /\ \/ env' = passed
         \/ IsDefine(id[1]) /\ env' = e2
         \/ env' = e3
  BY <1>2 DEF Becomes
<1>4. id \in DOMAIN env.virtual_resources
  BY DEF Matching
<1>5. passed = [env EXCEPT !.todo[1].passed = @ \cup {id}]
  OBVIOUS
<1> HIDE DEF value, passed, bound
<1>6. PICK next : /\ next.do = "collecting"
                  /\ DOMAIN next = {"do", "type", "filter", "first", "passed"}
                  /\ passed.todo = <<next>> \o Tail(env.todo)
                  /\ Only(env, passed, {"todo"})
  BY <1>1, <1>5, WalkTasks
<1> DEFINE tasks == <<next>> \o Tail(env.todo)
<1> HIDE DEF tasks
<1>7. DOMAIN passed = Fields /\ passed.todo = tasks
  BY <1>6 DEF Only, tasks
<1>8. Only(passed, m1, {"resource_catalog"})
      /\ m1.resource_catalog = passed.resource_catalog \cup {id} /\ DOMAIN m1 = Fields
  BY <1>7, MarkChanges DEF Only
<1> HIDE DEF m1
<1>9. /\ Only(m1, marked, {"virtual_resources"})
      /\ marked.virtual_resources = [m1.virtual_resources EXCEPT ![id].realized = TRUE]
  BY <1>8, RealizedChanges
<1> HIDE DEF marked
<1>10. /\ Only(env, marked, {"todo", "resource_catalog", "virtual_resources"})
       /\ marked.todo = tasks /\ marked.resource_catalog = env.resource_catalog \cup {id}
       /\ marked.virtual_resources = [env.virtual_resources EXCEPT ![id].realized = TRUE]
       /\ marked.current_scope = env.current_scope
       /\ marked.class_reexecuting = env.class_reexecuting
       /\ marked.catalog = env.catalog /\ marked.classes = env.classes
       /\ marked.class_scopes = env.class_scopes
       /\ marked.deferred_defines = env.deferred_defines
  BY <1>6, <1>7, <1>8, <1>9 DEF Only, Fields
<1>11. CASE env' = passed
  <2>1. Only(env, passed, DataFields) /\ passed.resource_catalog = env.resource_catalog
    BY <1>6 DEF Only, Fields, DataFields
  <2>2. CatalogInv(program, passed)
    <3>1. Only(env, passed, Fields \ {"catalog", "resource_catalog", "virtual_resources",
                                      "classes", "class_scopes", "deferred_defines"})
      BY <1>6 DEF Only, Fields
    <3> QED
      BY <3>1, CatalogSame DEF IndInv
  <2> QED
    BY <1>1, <1>3, <1>6, <1>11, <2>1, <2>2, WalkGoesOn
<1>12. CASE env' = e3
  <2>1. /\ Only(marked, e3, {"catalog"}) /\ DOMAIN e3.catalog = DOMAIN marked.catalog \cup {id}
    BY <1>10, AddResourceChanges DEF Only
  <2> HIDE DEF e3
  <2>2. /\ Only(env, e3, DataFields) /\ e3.todo = tasks
        /\ e3.resource_catalog = env.resource_catalog \cup {id}
        /\ e3.virtual_resources = [env.virtual_resources EXCEPT ![id].realized = TRUE]
        /\ DOMAIN e3.catalog = DOMAIN env.catalog \cup {id}
        /\ e3.classes = env.classes /\ e3.class_scopes = env.class_scopes
        /\ e3.deferred_defines = env.deferred_defines
    BY <1>10, <2>1 DEF Only, Fields, DataFields
  <2>3. CatalogInv(program, e3)
    BY <1>4, <2>2, CatalogRealized DEF IndInv
  <2>4. e3.todo = <<next>> \o Tail(env.todo)
    BY <2>2 DEF tasks
  <2> QED
    BY <1>1, <1>3, <1>6, <1>12, <2>2, <2>3, <2>4, WalkGoesOn
<1>13. CASE IsDefine(id[1]) /\ env' = e2
  <2>1. body \in Seq(Stmts) /\ \A i \in 1..Len(body) : ~ IsInstance(program, body[i])
    BY <1>4, <1>13, CollectedBody
  <2>2. env.todo # <<>> /\ Task.do = "collecting" /\ Brings(Task) = {}
    BY <1>1 DEF At, Brings
  <2>3. PICK d \in Contexts : /\ Ahead(program, env, Tail(env.todo), d)
                              /\ env.current_scope = d.scope
    BY <2>2, AfterStmt
  <2>4. Ahead(program, env, tasks, d)
    <3>1. /\ IsSeq(<<next>>) /\ IsSeq(<<next>> \o Tail(env.todo))
          /\ Leads(program, env, <<next>> \o Tail(env.todo), d)
      BY <1>6, <2>3, WalkReady DEF Ahead
    <3>2. /\ <<next>> \o Tail(env.todo) # <<>>
          /\ (<<next>> \o Tail(env.todo))[Len(<<next>> \o Tail(env.todo))].do = "deferred"
      <4>1. IsSeq(Tail(env.todo)) /\ Tail(env.todo) # <<>>
            /\ Tail(env.todo)[Len(Tail(env.todo))].do = "deferred"
        BY <2>3 DEF Ahead
      <4> QED
        BY <3>1, <4>1, ConcatIsSeq
    <3> QED
      BY <2>3, <3>1, <3>2 DEF Ahead, tasks
  <2> HIDE DEF x, body, new, e2
  <2>5. Before(env, marked)
    BY <1>10, InvShape DEF Before, Only, ShapeInv
  <2>6. Entered(marked, d.scope, x) /\ e2 = Do(x, new \o <<end>>)
    BY <2>3 DEF Entered, x, e2
  <2>7. BodyTasks(program, x, body, new)
    BY <2>1 DEF BodyTasks, new
  <2>8. /\ end.do \in {"leave", "created"}
        /\ end.do = "created" => end.id \in marked.resource_catalog
        /\ marked.current_scope = d.scope
    BY <2>3, <1>10
  <2> HIDE DEF end
  <2>9. FrameInv(program, e2) /\ Only(marked, e2, {"todo", "scopes", "stack", "current_scope"})
    BY <1>10, <2>4, <2>5, <2>6, <2>7, <2>8, EnterStep
  <2>10. /\ e2.resource_catalog = env.resource_catalog \cup {id}
         /\ DOMAIN e2.catalog = DOMAIN env.catalog
         /\ e2.virtual_resources = [env.virtual_resources EXCEPT ![id].realized = TRUE]
         /\ e2.classes = env.classes /\ e2.class_scopes = env.class_scopes
         /\ e2.deferred_defines = env.deferred_defines
    BY <1>10, <2>9 DEF Only, Fields
  <2>11. CatalogInv(program, e2)
    BY <1>4, <2>10, CatalogRealized DEF IndInv
  <2> QED
    BY <1>3, <1>13, <2>9, <2>11 DEF Preserved
<1> QED
  BY <1>3, <1>11, <1>12, <1>13

\* The scope that was just created.
LEMMA EnteredShape ==
    ASSUME NEW e, ShapeInv(e), NEW e1, Before(e, e1), NEW parent, NEW x, Entered(e1, parent, x)
    PROVE  /\ Only(e1, x, {"scopes", "stack", "current_scope"})
           /\ x.current_scope = Len(e.scopes) + 1 /\ x.current_scope \in 1..Len(x.scopes)
           /\ DOMAIN x = Fields /\ IsSeq(x.scopes)
           /\ \A s \in 1..Len(x.scopes) : DOMAIN x.scopes[s] = ScopeFields
<1> DEFINE n == Len(e.scopes) + 1
<1>1. PICK variables : x = EnterScope(e1, parent, variables)
  BY DEF Entered
<1>2. DOMAIN e1 = Fields /\ e1.scopes = e.scopes
  BY DEF Before, Only, Fields
<1>3. DOMAIN e1 = Fields /\ IsSeq(e1.scopes)
      /\ \A s \in 1..Len(e1.scopes) : DOMAIN e1.scopes[s] = ScopeFields
  BY <1>2 DEF ShapeInv
<1>4. NewScope(e1, EnterScope(e1, parent, variables), Len(e1.scopes) + 1, parent)
  BY <1>3, EnterScopeChanges
<1>5. NewScope(e1, x, n, parent)
  BY <1>1, <1>2, <1>4
<1> QED
  BY <1>5 DEF NewScope, Only

\* A variable is set in the new scope, and then there is something to do.
BoundInside(x, bound, tasks) ==
    /\ Begins(x, Do(bound, tasks)) /\ Do(bound, tasks).todo = tasks \o x.todo
    /\ bound.deferred_defines = x.deferred_defines

LEMMA SetInside ==
    ASSUME NEW x, DOMAIN x = Fields, IsSeq(x.scopes),
           \A s \in 1..Len(x.scopes) : DOMAIN x.scopes[s] = ScopeFields,
           NEW s \in 1..Len(x.scopes), NEW name, NEW v, NEW tasks
    PROVE  BoundInside(x, puppet_scope_set_var(x, s, name, v), tasks)
<1> DEFINE bound == puppet_scope_set_var(x, s, name, v)
           e2    == Do(bound, tasks)
<1>1. Only(x, bound, {"scopes"}) /\ SameScopes(x, bound)
  BY SetVarChanges
<1> HIDE DEF bound
<1>2. Only(bound, e2, {"todo"}) /\ e2.todo = tasks \o bound.todo
  BY <1>1, DoChanges DEF Only
<1> HIDE DEF e2
<1>3. /\ Only(x, e2, {"todo", "scopes"}) /\ e2.scopes = bound.scopes /\ bound.todo = x.todo
      /\ bound.deferred_defines = x.deferred_defines
  BY <1>1, <1>2 DEF Only, Fields
<1>4. SameScopes(x, e2)
  BY <1>1, <1>3 DEF SameScopes
<1> QED
  BY <1>2, <1>3, <1>4 DEF Begins, BoundInside, bound, e2

\* The rest of a list whose next instance is to run.
LEMMA ListAhead ==
    ASSUME IndInv, At("deferred"), Task.cursor < Len(env.deferred_defines),
           NEW next, next = [Task EXCEPT !.cursor = @ + 1]
    PROVE  /\ Task.cursor + 1 \in 1..Len(env.deferred_defines)
           /\ IsSeq(Tail(env.todo))
           /\ \E c \in Contexts :
                 /\ Ahead(program, env, <<next>> \o Tail(env.todo), c)
                 /\ env.deferred_defines[Task.cursor + 1].caller_scope \in Kept(env) \cup c.doomed
<1> DEFINE tail == Tail(env.todo)
<1>1. env.todo # <<>> /\ Task.do = "deferred" /\ Head(env.todo) = Task
  BY DEF At, Task
<1>2. /\ IsSeq(tail) /\ FrameInv(program, env)
      /\ tail # <<>> => tail[Len(tail)].do = "deferred"
  BY <1>1, FirstTask DEF IndInv
<1>3. PICK c \in Contexts, d \in Contexts :
          /\ Here(env, c) /\ Sound(env, c) /\ c.included \subseteq DOMAIN env.class_scopes
          /\ Ready(program, env, Task, c) /\ Follows(Task, c, d)
          /\ Leads(program, env, tail, d)
  BY <1>1, <1>2, FirstTask
<1>4. /\ DOMAIN Task = {"do", "saved", "cursor"} /\ Task.saved \in Nat /\ Task.cursor \in Nat
      /\ Task.saved <= Task.cursor /\ Task.cursor <= c.len /\ c.safe = c.doomed
      /\ \A i \in (Task.cursor + 1)..c.len :
            env.deferred_defines[i].caller_scope \in Kept(env) \cup c.doomed
  BY <1>1, <1>3 DEF Ready
<1>5. c.len = Len(env.deferred_defines) /\ c.len \in Nat
  BY <1>3 DEF Here, Contexts
<1>6. /\ DOMAIN next = {"do", "saved", "cursor"} /\ next.do = "deferred"
      /\ next.saved = Task.saved /\ next.cursor = Task.cursor + 1
  BY <1>1, <1>4
<1>7. /\ Task.cursor + 1 \in 1..c.len /\ Task.cursor + 1 \in (Task.cursor + 1)..c.len
      /\ next.saved <= next.cursor /\ next.cursor <= c.len
      /\ \A i \in (next.cursor + 1)..c.len : i \in (Task.cursor + 1)..c.len
  BY <1>4, <1>5, <1>6
<1>8. Ready(program, env, next, c)
  BY <1>4, <1>6, <1>7 DEF Ready, Pops, Destroys
<1>9. Follows(next, c, d)
  <2>1. Brings(next) = {} /\ Brings(Task) = {}
    BY <1>1, <1>6 DEF Brings
  <2> QED
    BY <1>1, <1>3, <1>6, <2>1 DEF Follows, Pops, Destroys
<1> HIDE DEF tail
<1>10. Leads(program, env, <<next>> \o tail, c)
  BY <1>2, <1>3, <1>8, <1>9, ConsPath
<1> DEFINE one == <<next>>
<1>11. IsSeq(one) /\ one # <<>> /\ one[Len(one)].do = "deferred"
  <2>1. <<next>> \in Seq({next})
    OBVIOUS
  <2> QED
    BY <2>1, <1>6, SeqOfAny
<1>12. IsSeq(one \o tail) /\ one \o tail # <<>> /\ (one \o tail)[Len(one \o tail)].do = "deferred"
  <2> HIDE DEF one
  <2>1. CASE tail = <<>>
    <3>1. one \o tail = one
      BY <2>1, <1>11 DEF IsSeq
    <3> QED
      BY <3>1, <1>11
  <2>2. CASE tail # <<>>
    BY <2>2, <1>2, <1>11, ConcatIsSeq
  <2> QED
    BY <2>1, <2>2
<1>13. Ahead(program, env, <<next>> \o tail, c)
  <2>1. ShapeInv(env) /\ KeptInv(env)
    BY InvShape
  <2> QED
    BY <2>1, <1>3, <1>10, <1>12 DEF Ahead
<1> QED
  BY <1>2, <1>4, <1>5, <1>7, <1>13 DEF tail

\* The tasks of an instance, seen with the rest of its list.
Apart(new, end, next, tail) ==
    (new \o <<end, next>>) \o tail = (new \o <<end>>) \o (<<next>> \o tail)

LEMMA ThenNext ==
    ASSUME NEW new, IsSeq(new), NEW end, NEW next, NEW tail, IsSeq(tail)
    PROVE  Apart(new, end, next, tail)
<1> DEFINE two  == <<end, next>>
           one  == <<end>>
           last == <<next>> \o tail
<1>1. IsSeq(<<next>>)
  <2>1. <<next>> \in Seq({next})
    OBVIOUS
  <2> QED
    BY <2>1, SeqOfAny
<1>2. /\ two \o tail = one \o last /\ IsSeq(two) /\ IsSeq(one)
  BY TwoTasks
<1>3. IsSeq(last)
  BY <1>1, ConcatIsSeq
<1> HIDE DEF two, one, last
<1>4. (new \o two) \o tail = new \o (two \o tail)
  <2>1. IsSeq(two)
    BY <1>2
  <2> QED
    BY <2>1, ConcatAssociates
<1>5. (new \o one) \o last = new \o (one \o last)
  <2>1. IsSeq(one)
    BY <1>2
  <2> QED
    BY <1>3, <2>1, ConcatAssociates
<1>6. (new \o two) \o tail = (new \o one) \o last
  BY <1>2, <1>4, <1>5
<1> QED
  BY <1>6 DEF Apart, two, one, last

\* The body of an instance that waits.
LEMMA DeferredBody ==
    ASSUME IndInv, NEW i \in 1..Len(env.deferred_defines)
    PROVE  program.defines[env.deferred_defines[i].id[1]].body \in Seq(Stmts)
<1>1. env.deferred_defines[i].id[1] \in DOMAIN program.defines
  BY DEF IndInv, CatalogInv
<1> QED
  BY <1>1, ProgramsAssumption DEF IndInv

LEMMA DeferredDefineKeeps ==
    ASSUME IndInv, puppet_exec_deferred_define
    PROVE  Preserved
<1> DEFINE d       == env.deferred_defines[Task.cursor + 1]
           caller  == [Rest EXCEPT !.current_scope = InstanceParent(d),
                                   !.class_reexecuting = d.class_reexecuting]
           inside  == EnterScope(caller, InstanceParent(d), Titled(d.id[2]))
           given   == InstanceValue(inside, d)
           value   == IF given # undef THEN given
                      ELSE puppet_eval_expr(inside, program.defines[d.id[1]].default)
           bound   == puppet_scope_set_var(inside, inside.current_scope, "p", value)
           end     == [do |-> "endDefine", entry |-> Task.cursor + 1,
                       generation |-> env.generation, caller |-> env.current_scope,
                       reexecuting |-> env.class_reexecuting]
           next    == [Task EXCEPT !.cursor = @ + 1]
           body    == program.defines[d.id[1]].body
           new     == ExecList(bound, body)
           all     == new \o <<end, next>>
           e2      == Do(bound, all)
           tasks   == <<next>> \o Tail(env.todo)
<1>1. /\ At("deferred") /\ Task.cursor < Len(env.deferred_defines)
      /\ program' = program /\ env' = e2
  BY DEF puppet_exec_deferred_define
<1>2. next = [Task EXCEPT !.cursor = @ + 1]
  OBVIOUS
<1> HIDE DEF next
<1>3. /\ Task.cursor + 1 \in 1..Len(env.deferred_defines) /\ IsSeq(Tail(env.todo))
      /\ \E c \in Contexts :
            /\ Ahead(program, env, <<next>> \o Tail(env.todo), c)
            /\ env.deferred_defines[Task.cursor + 1].caller_scope \in Kept(env) \cup c.doomed
  <2> HIDE DEF d, caller, inside, given, value, bound, end, body, new, all, e2, tasks
  <2> QED
    BY <1>1, <1>2, ListAhead
<1>4. PICK c \in Contexts : /\ Ahead(program, env, tasks, c)
                            /\ d.caller_scope \in Kept(env) \cup c.doomed
  BY <1>3
<1>5. d.class_reexecuting \in BOOLEAN /\ body \in Seq(Stmts)
  BY <1>3, InvShape, DeferredBody DEF ShapeInv
<1> HIDE DEF d, tasks, value, body
<1>6. Only(env, Rest, {"todo"}) /\ Rest.todo = Tail(env.todo)
  BY InvShape, RestChanges
<1>7. /\ Only(env, caller, {"todo", "current_scope", "class_reexecuting"})
      /\ caller.current_scope = d.caller_scope
      /\ caller.class_reexecuting = d.class_reexecuting /\ caller.todo = Tail(env.todo)
  BY <1>6 DEF Only, Fields, InstanceParent
<1> HIDE DEF caller
<1>8. Before(env, caller)
  BY <1>5, <1>7 DEF Before, Only, Fields
<1>9. Entered(caller, d.caller_scope, inside)
  BY DEF Entered, InstanceParent
<1> HIDE DEF inside
<1>10. /\ Only(caller, inside, {"scopes", "stack", "current_scope"})
       /\ inside.current_scope \in 1..Len(inside.scopes)
       /\ DOMAIN inside = Fields /\ IsSeq(inside.scopes)
       /\ \A s \in 1..Len(inside.scopes) : DOMAIN inside.scopes[s] = ScopeFields
  <2>1. ShapeInv(env)
    BY InvShape
  <2> QED
    BY <2>1, <1>8, <1>9, EnteredShape
<1>11. end.do = "endDefine" /\ end.entry = Task.cursor + 1 /\ end.caller = env.current_scope
       /\ end.reexecuting = env.class_reexecuting
  OBVIOUS
<1>12. new = ExecList(bound, body)
  OBVIOUS
<1> HIDE DEF new, end, all
<1>13. /\ Begins(inside, e2) /\ e2.todo = all \o inside.todo
       /\ bound.deferred_defines = inside.deferred_defines
  <2> DEFINE s == inside.current_scope
  <2>1. s \in 1..Len(inside.scopes)
    BY <1>10
  <2> HIDE DEF s
  <2>2. BoundInside(inside, puppet_scope_set_var(inside, s, "p", value), all)
    <3>1. DOMAIN inside = Fields /\ IsSeq(inside.scopes)
      BY <1>10
    <3>2. \A x \in 1..Len(inside.scopes) : DOMAIN inside.scopes[x] = ScopeFields
      BY <1>10
    <3> QED
      BY <2>1, <3>1, <3>2, SetInside
  <2> QED
    BY <2>2 DEF s, BoundInside
<1> HIDE DEF bound, e2
<1>14. BodyTasks(program, inside, body, new)
  <2>1. ExecList(bound, body) = ExecList(inside, body)
    BY <1>5, <1>13, SameList
  <2> QED
    BY <1>5, <1>12, <2>1 DEF BodyTasks
<1>15. IsSeq(new)
  BY <1>5, <1>12, SameList
<1>16. e2.todo = (new \o <<end>>) \o tasks
  <2>1. inside.todo = Tail(env.todo)
    BY <1>7, <1>10 DEF Only, Fields
  <2>2. Apart(new, end, next, Tail(env.todo))
    BY <1>3, <1>15, ThenNext
  <2> QED
    BY <1>13, <2>1, <2>2 DEF Apart, all, tasks
<1>17. GoesBack(env, caller, caller.current_scope, c, end)
  <2>1. Here(env, c) /\ end.do \in Destroys
    BY <1>4, <1>11 DEF Ahead, Destroys
  <2> QED
    BY <2>1, <1>3, <1>11 DEF GoesBack, Here
<1>18. FrameInv(program, e2)
  BY <1>4, <1>7, <1>8, <1>9, <1>13, <1>14, <1>16, <1>17, BodyStep
<1>19. CatalogInv(program, e2)
  <2>1. Only(env, e2, Fields \ {"catalog", "resource_catalog", "virtual_resources", "classes",
                                "class_scopes", "deferred_defines"})
    BY <1>7, <1>10, <1>13 DEF Begins, Only, Fields
  <2> QED
    BY <2>1, CatalogSame DEF IndInv
<1> QED
  BY <1>1, <1>18, <1>19 DEF Preserved

\* A class that is about to be entered exists, its parent has a scope, and what is to
\* do then restores everything.
LEMMA ClassAhead ==
    ASSUME IndInv, At("class")
    PROVE  /\ Task.class \in DOMAIN program.classes
           /\ ClassParent(Task.class) \in Kept(env)
           /\ IsSeq(Tail(env.todo)) /\ Tail(env.todo) # <<>>
           /\ Tail(env.todo)[Len(Tail(env.todo))].do = "deferred"
           /\ \E d \in Contexts :
                 /\ Leads(program, env, Tail(env.todo), d) /\ Here(env, d) /\ Sound(env, d)
                 /\ d.included \subseteq DOMAIN env.class_scopes \cup {Task.class}
<1> DEFINE class == Task.class
           tail  == Tail(env.todo)
<1>1. env.todo # <<>> /\ Task.do = "class" /\ Head(env.todo) = Task
  BY DEF At, Task
<1>2. FrameInv(program, env)
  BY DEF IndInv
<1>3. /\ IsSeq(tail) /\ tail # <<>> /\ tail[Len(tail)].do = "deferred"
  BY <1>1, <1>2, FirstTask
<1>4. PICK c \in Contexts, d \in Contexts :
          /\ Here(env, c) /\ Sound(env, c) /\ c.included \subseteq DOMAIN env.class_scopes
          /\ Ready(program, env, Task, c) /\ Follows(Task, c, d)
          /\ Leads(program, env, tail, d)
  BY <1>1, <1>2, FirstTask
<1>5. /\ class \in DOMAIN program.classes
      /\ program.classes[class].inherits \in DOMAIN env.class_scopes \cup {"NULL"}
  BY <1>1, <1>4 DEF Ready
<1>6. ClassParent(class) \in Kept(env)
  BY <1>5 DEF ClassParent, Kept
<1>7. /\ d.stack = c.stack /\ d.scope = c.scope /\ d.class = c.class /\ d.mode = c.mode
      /\ d.len = c.len /\ d.doomed = c.doomed
      /\ d.included \subseteq DOMAIN env.class_scopes \cup {class}
  BY <1>1, <1>4 DEF Follows, Pops, Destroys, Brings
<1>8. Here(env, d)
  BY <1>4, <1>7 DEF Here
<1>9. Sound(env, d)
  <2>1. Len(tail) \in Nat
    BY <1>3 DEF IsSeq
  <2> HIDE DEF tail
  <2> QED
    BY <2>1, <1>4, PathParts
<1> QED
  BY <1>3, <1>4, <1>5, <1>6, <1>7, <1>8, <1>9

LEMMA IncludeClassKeeps ==
    ASSUME IndInv, EnteredOnce, puppet_include_class_from_def
    PROVE  Preserved
<1> DEFINE class   == Task.class
           parent  == ClassParent(class)
           entered == EnterScope(Rest, parent, Titled(class))
           scope   == entered.current_scope
           inside  == [entered EXCEPT !.class_scope = scope,
                                      !.class_scopes = Put(@, class, scope)]
           value   == ClassArgument(inside, class, Task.args)
           bound   == puppet_scope_set_var(inside, scope, "p", value)
           end     == [do |-> "endClass", class |-> class, outer |-> env.class_scope]
           body    == program.classes[class].body
           new     == ExecList(bound, body)
           all     == new \o <<end>>
           e2      == Do(bound, all)
           tasks   == Tail(env.todo)
           n       == Len(env.scopes) + 1
<1>1. At("class") /\ env' = e2 /\ program' = program
  BY DEF puppet_include_class_from_def
<1>2. /\ class \in DOMAIN program.classes /\ parent \in Kept(env)
      /\ IsSeq(tasks) /\ tasks # <<>> /\ tasks[Len(tasks)].do = "deferred"
  BY <1>1, ClassAhead
<1>3. PICK d \in Contexts :
          /\ Leads(program, env, tasks, d) /\ Here(env, d) /\ Sound(env, d)
          /\ d.included \subseteq DOMAIN env.class_scopes \cup {class}
  BY <1>1, ClassAhead
<1>4. class \notin DOMAIN env.class_scopes
  BY <1>1, InvShape, IncludedClasses DEF EnteredOnce
<1>5. class \in ClassNames /\ body \in Seq(Stmts)
  BY <1>2, ProgramsAssumption DEF ClassNames, IndInv
<1>6. Only(env, Rest, {"todo"}) /\ Rest.todo = tasks
  BY InvShape, RestChanges
<1>7. /\ Before(env, Rest) /\ Rest.current_scope = env.current_scope
      /\ Rest.class_scopes = env.class_scopes
      /\ Rest.class_reexecuting = env.class_reexecuting
  BY <1>6, InvShape DEF Before, Only, Fields, ShapeInv
<1>8. Entered(Rest, parent, entered)
  BY DEF Entered
<1> HIDE DEF class, parent, body, tasks, value
<1>9. inside = [entered EXCEPT !.class_scope = scope, !.class_scopes = Put(@, class, scope)]
      /\ scope = entered.current_scope
  OBVIOUS
<1> HIDE DEF inside, scope, entered
<1>10. /\ Only(Rest, entered, {"scopes", "stack", "current_scope"})
       /\ scope = n /\ scope \in 1..Len(entered.scopes)
       /\ DOMAIN entered = Fields /\ IsSeq(entered.scopes)
       /\ \A s \in 1..Len(entered.scopes) : DOMAIN entered.scopes[s] = ScopeFields
  <2>1. ShapeInv(env)
    BY InvShape
  <2> HIDE DEF n
  <2>2. /\ Only(Rest, entered, {"scopes", "stack", "current_scope"})
        /\ entered.current_scope = Len(env.scopes) + 1
        /\ entered.current_scope \in 1..Len(entered.scopes)
        /\ DOMAIN entered = Fields /\ IsSeq(entered.scopes)
        /\ \A s \in 1..Len(entered.scopes) : DOMAIN entered.scopes[s] = ScopeFields
    BY <2>1, <1>7, <1>8, EnteredShape
  <2> QED
    BY <2>2, <1>9 DEF n
<1> HIDE DEF n
<1>11. /\ Only(entered, inside, {"class_scope", "class_scopes"}) /\ inside.class_scope = scope
       /\ inside.class_scopes = Put(env.class_scopes, class, scope)
       /\ inside.scopes = entered.scopes /\ inside.todo = tasks /\ DOMAIN inside = Fields
       /\ inside.class_reexecuting = env.class_reexecuting
  BY <1>6, <1>7, <1>9, <1>10 DEF Only, Fields
<1>12. end.do = "endClass" /\ end.class = class /\ end.outer = env.class_scope
  OBVIOUS
<1>13. new = ExecList(bound, body) /\ all = new \o <<end>>
  OBVIOUS
<1> HIDE DEF new, end, all
<1>14. /\ Begins(inside, e2) /\ e2.todo = all \o tasks
       /\ bound.deferred_defines = inside.deferred_defines
  <2>1. /\ DOMAIN inside = Fields /\ IsSeq(inside.scopes) /\ scope \in 1..Len(inside.scopes)
        /\ \A s \in 1..Len(inside.scopes) : DOMAIN inside.scopes[s] = ScopeFields
    BY <1>10, <1>11
  <2>2. BoundInside(inside, puppet_scope_set_var(inside, scope, "p", value), all)
    BY <2>1, SetInside
  <2> QED
    BY <2>2, <1>11 DEF BoundInside
<1> HIDE DEF bound, e2
<1>15. IsSeq(new) /\ IsSeq(<<end>>) /\ IsSeq(all)
  <2>1. <<end>> \in Seq({end})
    OBVIOUS
  <2>2. IsSeq(<<end>>)
    BY <2>1, SeqOfAny
  <2>3. IsSeq(new)
    BY <1>5, <1>13, SameList
  <2> QED
    BY <1>13, <2>2, <2>3, ConcatIsSeq
<1>16. Inside(entered, e2)
  <2>1. IsSeq(e2.todo)
    BY <1>2, <1>14, <1>15, ConcatIsSeq
  <2>2. Only(entered, e2, {"todo", "scopes", "class_scope", "class_scopes"})
    BY <1>11, <1>14 DEF Begins, Only, Fields
  <2>3. SameScopes(entered, e2)
    BY <1>11, <1>14 DEF Begins, SameScopes
  <2> QED
    BY <2>1, <2>2, <2>3 DEF Inside
<1>17. /\ Enters(env, e2, parent, Rest.current_scope)
       /\ e2.class_reexecuting = Rest.class_reexecuting
       /\ e2.resource_catalog = Rest.resource_catalog
       /\ e2.virtual_resources = Rest.virtual_resources
  <2>1. ShapeInv(env)
    BY InvShape
  <2> QED
    BY <2>1, <1>7, <1>8, <1>16, EnterScopeEnters
<1>18. /\ e2.class_scope = n /\ e2.class_scopes = Put(env.class_scopes, class, n)
       /\ e2.deferred_defines = bound.deferred_defines
  BY <1>10, <1>11, <1>14 DEF Begins, Only, Fields
<1>19. /\ ShapeInv(e2) /\ KeptInv(e2) /\ IsSeq(<<end>> \o tasks)
       /\ \E c \in Contexts :
             /\ Here(e2, c) /\ c.included \subseteq DOMAIN e2.class_scopes
             /\ Leads(program, e2, <<end>> \o tasks, c)
  <2>1. /\ ShapeInv(env) /\ KeptInv(env) /\ Enters(env, e2, parent, env.current_scope)
        /\ e2.class_scope = Len(env.scopes) + 1
        /\ e2.class_scopes = Put(env.class_scopes, class, Len(env.scopes) + 1)
        /\ e2.class_reexecuting = env.class_reexecuting
    BY <1>7, <1>17, <1>18, InvShape DEF n
  <2> QED
    BY <2>1, <1>2, <1>3, <1>4, <1>5, <1>12, EnterClass
<1>20. \E c \in Contexts :
          /\ Here(e2, c) /\ c.included \subseteq DOMAIN e2.class_scopes
          /\ Leads(program, e2, new \o (<<end>> \o tasks), c)
  BY <1>5, <1>13, <1>18, <1>19, ListContext
<1>21. all \o tasks = new \o (<<end>> \o tasks)
  BY <1>2, <1>13, <1>15, ConcatAssociates
<1>22. FrameInv(program, e2)
  <2>1. PICK c \in Contexts :
           /\ Here(e2, c) /\ c.included \subseteq DOMAIN e2.class_scopes
           /\ Leads(program, e2, all \o tasks, c)
    BY <1>20, <1>21
  <2> QED
    BY <2>1, <1>2, <1>14, <1>15, <1>19, Replace
<1>23. CatalogInv(program, e2)
  <2>1. /\ e2.catalog = env.catalog /\ e2.resource_catalog = env.resource_catalog
        /\ e2.virtual_resources = env.virtual_resources /\ e2.classes = env.classes
        /\ e2.deferred_defines = env.deferred_defines
    BY <1>6, <1>10, <1>11, <1>14 DEF Begins, Only, Fields
  <2>2. DOMAIN env.class_scopes \subseteq DOMAIN e2.class_scopes
    BY <1>18 DEF Put
  <2> QED
    BY <2>1, <2>2, CatalogGrows DEF IndInv
<1> QED
  BY <1>1, <1>22, <1>23 DEF Preserved

\* A class that is executed again, seen from the environment.
LEMMA ReenterShape ==
    ASSUME NEW e, ShapeInv(e), KeptInv(e), NEW e2, NEW scope \in Kept(e),
           Only(e, e2, {"todo", "class_resource_decls", "scopes", "stack", "current_scope",
                        "class_scope", "class_reexecuting"}),
           SameScopes(e, e2), IsSeq(e2.todo), e.current_scope \in 1..Len(e.scopes),
           e2.stack = Append(e.stack, e.current_scope), e2.current_scope = scope,
           e2.class_scope = scope, e2.class_reexecuting = TRUE
    PROVE  /\ ShapeInv(e2) /\ KeptInv(e2) /\ Kept(e2) = Kept(e)
           /\ Extends(e, e2, Len(e.deferred_defines))
           /\ e2.deferred_defines = e.deferred_defines
           /\ {s \in 1..Len(e2.scopes) : e2.scopes[s].live}
                 = {s \in 1..Len(e.scopes) : e.scopes[s].live}
<1>1. /\ DOMAIN e2 = Fields /\ e2.class_scopes = e.class_scopes
      /\ e2.deferred_defines = e.deferred_defines
      /\ e2.resource_catalog = e.resource_catalog
  BY DEF Only, Fields
<1>2. /\ IsSeq(e2.scopes) /\ Len(e2.scopes) = Len(e.scopes)
      /\ \A s \in 1..Len(e.scopes) : /\ DOMAIN e2.scopes[s] = ScopeFields
                                     /\ e2.scopes[s].parent = e.scopes[s].parent
                                     /\ e2.scopes[s].live = e.scopes[s].live
  BY DEF SameScopes
<1>3. Kept(e2) = Kept(e)
  BY <1>1 DEF Kept
<1>4. scope \in Nat /\ e.current_scope \in Nat /\ e2.stack \in Seq(Nat)
  <2>1. Len(e.scopes) \in Nat /\ e.stack \in Seq(Nat)
    BY DEF ShapeInv, IsSeq
  <2>2. scope \in 1..Len(e.scopes)
    BY DEF KeptInv
  <2> QED
    BY <2>1, <2>2
<1>5. ShapeInv(e2)
  BY <1>1, <1>2, <1>4 DEF ShapeInv
<1>6. KeptInv(e2)
  BY <1>2, <1>3 DEF KeptInv
<1>7. Extends(e, e2, Len(e.deferred_defines))
  BY <1>1, <1>2, <1>3 DEF Extends
<1>8. {s \in 1..Len(e2.scopes) : e2.scopes[s].live}
        = {s \in 1..Len(e.scopes) : e.scopes[s].live}
  BY <1>2
<1> QED
  BY <1>1, <1>3, <1>5, <1>6, <1>7, <1>8

LEMMA ReexecuteKeeps ==
    ASSUME IndInv, ReexecuteClass
    PROVE  Preserved
<1> DEFINE class    == Task.stmt.class
           scope    == env.class_scopes[class]
           declared == [Rest EXCEPT !.class_resource_decls = @ \cup {class}]
           value    == puppet_eval_expr(env, Task.stmt.args)
           bound    == puppet_scope_set_var(declared, scope, "p", value)
           inside   == [ReenterScope(bound, scope) EXCEPT
                           !.class_scope = scope, !.class_reexecuting = TRUE]
           end      == [do |-> "endReexecution", outer |-> env.class_scope,
                        reexecuting |-> env.class_reexecuting]
           body     == program.classes[class].body
           new      == Each(body)
           all      == new \o <<end>>
           e2       == Do(inside, all)
           tasks    == Tail(env.todo)
<1>1. /\ Stmt("class") /\ Included(env, class) /\ program' = program
      /\ env' = declared \/ env' = e2
  BY DEF ReexecuteClass, Becomes
<1>2. Brings(Task) = {} /\ Task.do = "stmt" /\ env.todo # <<>>
  BY <1>1, StmtBrings
<1>3. PICK d \in Contexts : /\ Ahead(program, env, tasks, d) /\ env.current_scope = d.scope
  BY <1>2, AfterStmt
<1>4. class \in DOMAIN program.classes
  BY <1>1, ClassExists
<1>5. body \in Seq(Stmts)
  BY <1>4, ProgramsAssumption DEF IndInv
<1>6. scope \in Kept(env) /\ scope \in 1..Len(env.scopes)
  <2>1. class \in DOMAIN env.class_scopes /\ KeptInv(env)
    BY <1>1, InvShape, IncludedClasses
  <2> QED
    BY <2>1 DEF Kept, KeptInv
<1> HIDE DEF scope, value, body
<1>7. Only(env, Rest, {"todo"}) /\ Rest.todo = tasks
  BY InvShape, RestChanges
<1> HIDE DEF tasks
<1>8. /\ Only(env, declared, {"todo", "class_resource_decls"}) /\ declared.todo = tasks
      /\ DOMAIN declared = Fields /\ declared.scopes = env.scopes
      /\ declared.resource_catalog = env.resource_catalog
  BY <1>7 DEF Only, Fields
<1> HIDE DEF declared
<1>9. CASE env' = declared
  <2>1. Only(env, declared, DataFields) /\ declared.todo = Tail(env.todo)
    BY <1>8 DEF Only, Fields, DataFields, tasks
  <2>2. CatalogInv(program, declared)
    <3>1. Only(env, declared, Fields \ {"catalog", "resource_catalog", "virtual_resources",
                                        "classes", "class_scopes", "deferred_defines"})
      BY <1>8 DEF Only, Fields
    <3> QED
      BY <3>1, CatalogSame DEF IndInv
  <2> QED
    BY <1>1, <1>8, <1>9, <2>1, <2>2, TableStep
<1>10. CASE env' = e2
  <2>1. Only(declared, bound, {"scopes"}) /\ SameScopes(declared, bound)
    BY <1>6, <1>8, InvShape, SetVarChanges
  <2>2. end.do = "endReexecution" /\ end.outer = env.class_scope
        /\ end.reexecuting = env.class_reexecuting /\ all = new \o <<end>> /\ new = Each(body)
    OBVIOUS
  <2> HIDE DEF bound, end, new, all
  <2>3. /\ Only(bound, inside, {"stack", "current_scope", "class_scope", "class_reexecuting"})
        /\ inside.stack = Append(bound.stack, bound.current_scope)
        /\ inside.current_scope = scope /\ inside.class_scope = scope
        /\ inside.class_reexecuting = TRUE
    BY <2>1 DEF ReenterScope, Only, Fields
  <2> HIDE DEF inside
  <2>4. Only(inside, e2, {"todo"}) /\ e2.todo = all \o inside.todo
    BY <2>3, DoChanges DEF Only
  <2> HIDE DEF e2
  <2>5. /\ Only(env, e2, {"todo", "class_resource_decls", "scopes", "stack", "current_scope",
                          "class_scope", "class_reexecuting"})
        /\ e2.todo = all \o tasks
        /\ e2.stack = Append(env.stack, env.current_scope) /\ e2.current_scope = scope
        /\ e2.class_scope = scope /\ e2.class_reexecuting = TRUE /\ e2.scopes = bound.scopes
    <3>1. /\ Only(env, bound, {"todo", "class_resource_decls", "scopes"})
          /\ bound.todo = tasks /\ bound.stack = env.stack
          /\ bound.current_scope = env.current_scope
      BY <1>8, <2>1 DEF Only, Fields
    <3>2. /\ Only(bound, e2, {"todo", "stack", "current_scope", "class_scope",
                               "class_reexecuting"})
          /\ e2.stack = inside.stack /\ e2.current_scope = inside.current_scope
          /\ e2.class_scope = inside.class_scope
          /\ e2.class_reexecuting = inside.class_reexecuting
          /\ e2.scopes = bound.scopes
      BY <2>3, <2>4 DEF Only, Fields
    <3>3. inside.todo = bound.todo
      BY <2>3 DEF Only, Fields
    <3>4. Only(env, e2, {"todo", "class_resource_decls", "scopes", "stack", "current_scope",
                         "class_scope", "class_reexecuting"})
      BY <3>1, <3>2 DEF Only
    <3> QED
      BY <2>3, <2>4, <3>1, <3>2, <3>3, <3>4
  <2>6. SameScopes(env, e2)
    BY <1>8, <2>1, <2>5 DEF SameScopes
  <2>7. IsSeq(new) /\ IsSeq(<<end>>) /\ IsSeq(all) /\ IsSeq(tasks)
    <3>1. <<end>> \in Seq({end})
      OBVIOUS
    <3>2. IsSeq(<<end>>)
      BY <3>1, SeqOfAny
    <3>3. IsSeq(new)
      BY <1>5, <2>2, EachIsSeq
    <3> QED
      BY <1>3, <2>2, <3>2, <3>3, ConcatIsSeq DEF Ahead
  <2>8. IsSeq(e2.todo) /\ IsSeq(<<end>> \o tasks)
    BY <2>5, <2>7, ConcatIsSeq
  <2>9. ShapeInv(env) /\ KeptInv(env) /\ env.current_scope \in 1..Len(env.scopes)
        /\ env.current_scope \in Nat /\ env.stack \in Seq(Nat)
    BY InvShape DEF ShapeInv
  <2>10. /\ ShapeInv(e2) /\ KeptInv(e2) /\ Kept(e2) = Kept(env)
         /\ Extends(env, e2, Len(env.deferred_defines))
         /\ e2.deferred_defines = env.deferred_defines
         /\ {s \in 1..Len(e2.scopes) : e2.scopes[s].live}
               = {s \in 1..Len(env.scopes) : env.scopes[s].live}
    BY <1>6, <2>5, <2>6, <2>8, <2>9, ReenterShape
  <2>11. /\ Leads(program, env, tasks, d) /\ Here(env, d) /\ Sound(env, d)
         /\ d.included \subseteq DOMAIN e2.class_scopes
    BY <1>3, <2>5 DEF Ahead, Only, Fields
  <2>12. PICK c \in Contexts :
            /\ Here(e2, c) /\ c.included \subseteq DOMAIN e2.class_scopes
            /\ c.scope \in Kept(e2)
            /\ Leads(program, e2, <<end>> \o tasks, c)
    BY <1>6, <2>2, <2>5, <2>7, <2>9, <2>10, <2>11, ReenterClass
  <2>13. Leads(program, e2, new \o (<<end>> \o tasks), c)
    BY <1>5, <2>2, <2>8, <2>12, EachPath
  <2>14. all \o tasks = new \o (<<end>> \o tasks)
    BY <2>2, <2>7, ConcatAssociates
  <2>15. FrameInv(program, e2)
    <3>1. Leads(program, e2, all \o tasks, c)
      BY <2>13, <2>14
    <3>2. tasks # <<>> /\ tasks[Len(tasks)].do = "deferred"
      BY <1>3 DEF Ahead
    <3> QED
      BY <3>1, <3>2, <2>5, <2>7, <2>10, <2>12, Replace
  <2>16. CatalogInv(program, e2)
    <3>1. Only(env, e2, Fields \ {"catalog", "resource_catalog", "virtual_resources",
                                  "classes", "class_scopes", "deferred_defines"})
      BY <2>5 DEF Only, Fields
    <3> QED
      BY <3>1, CatalogSame DEF IndInv
  <2> QED
    BY <1>1, <1>10, <2>15, <2>16 DEF Preserved
<1> QED
  BY <1>1, <1>9, <1>10

-----------------------------------------------------------------------------
(* Every step *)

LEMMA StepPreserves ==
    ASSUME IndInv, InstancesInLists, EnteredOnce, [Next]_vars
    PROVE  Preserved
<1>1. CASE UNCHANGED vars
  BY <1>1 DEF vars, IndInv, Preserved
<1>2. CASE Step
  <2>1. CASE puppet_exec_assignment
    BY <2>1, AssignmentKeeps
  <2>2. CASE ExecBranch
    BY <2>2, BranchKeeps
  <2>3. CASE puppet_call_user_function
    BY <2>3, CallKeeps
  <2>4. CASE Leave
    BY <2>4, LeaveKeeps
  <2>5. CASE puppet_exec_include
    BY <2>5, IncludeKeeps
  <2>6. CASE puppet_include_class_from_def
    BY <2>6, IncludeClassKeeps
  <2>7. CASE EndClass
    BY <2>7, EndClassKeeps
  <2>8. CASE DeclareClassTwice
    BY <2>8, ErrorKeeps
  <2>9. CASE DeclareClass
    BY <2>9, DeclareClassKeeps
  <2>10. CASE ReexecuteClass
    BY <2>10, ReexecuteKeeps
  <2>11. CASE EndReexecution
    BY <2>11, EndReexecutionKeeps
  <2>12. CASE DuplicateDeclaration
    BY <2>12, ErrorKeeps
  <2>13. CASE DeclareResource
    BY <2>13, ResourceKeeps
  <2>14. CASE DeclareInstance
    BY <2>14, DeclareInstanceKeeps
  <2>15. CASE puppet_exec_deferred_define
    BY <2>15, DeferredDefineKeeps
  <2>16. CASE EndDefine
    BY <2>16, EndDefineKeeps
  <2>17. CASE EndList
    BY <2>17, EndListKeeps
  <2>18. CASE puppet_func_create_resources
    BY <2>18, CreateResourcesKeeps
  <2>19. CASE Created
    BY <2>19, CreatedKeeps
  <2>20. CASE DeclareVirtual
    BY <2>20, DeclareVirtualKeeps
  <2>21. CASE RealizeVirtual
    BY <2>21, RealizeVirtualKeeps
  <2>22. CASE RealizeUnknown
    BY <2>22, RealizeUnknownKeeps
  <2>23. CASE CollectExported
    BY <2>23, CollectExportedKeeps
  <2>24. CASE CollectVirtual
    BY <2>24, CollectVirtualKeeps
  <2>25. CASE Collect
    BY <2>25, CollectKeeps
  <2>26. CASE EndCollect
    BY <2>26, EndCollectKeeps
  <2>27. CASE Export
    BY <2>27, ExportKeeps
  <2>28. CASE Override
    BY <2>28, OverrideKeeps
  <2>29. CASE OverrideUndeclared
    BY <2>29, ErrorKeeps
  <2> QED
    BY <1>2, <2>1, <2>2, <2>3, <2>4, <2>5, <2>6, <2>7, <2>8, <2>9, <2>10, <2>11, <2>12,
       <2>13, <2>14, <2>15, <2>16, <2>17, <2>18, <2>19, <2>20, <2>21, <2>22, <2>23,
       <2>24, <2>25, <2>26, <2>27, <2>28, <2>29 DEF Step
<1> QED
  BY <1>1, <1>2 DEF Next

LEMMA StepKeeps ==
    ASSUME IndInv, InstancesInLists, EnteredOnce, [Next]_vars
    PROVE  IndInv'
<1>1. program' = program /\ FrameInv(program, env') /\ CatalogInv(program, env')
  BY StepPreserves DEF Preserved
<1>2. program \in Programs
  BY DEF IndInv
<1>3. program' \in Programs /\ FrameInv(program', env') /\ CatalogInv(program', env')
  BY <1>1, <1>2
<1> QED
  BY <1>3 DEF IndInv

\* The scopes that can still be looked up from exist, no resource of the catalog is
\* unmarked, and the evaluation ends with the scopes, the class and the mode it began
\* with: for all manifests whose functions and collected virtual instances declare no
\* instances of their own, as long as no class is entered twice.
THEOREM ScopesAreKept ==
    ASSUME InstancesInLists
    PROVE  Spec /\ []EnteredOnce => []ScopesKept
<1>1. Init => IndInv
  BY InitInv
<1>2. IndInv /\ EnteredOnce /\ [Next]_vars => IndInv'
  BY StepKeeps
<1>3. IndInv => ScopesKept
  BY InvImplies
<1> QED
  BY <1>1, <1>2, <1>3, PTL DEF Spec

-----------------------------------------------------------------------------
(* What is declared stays, whatever the manifests are *)

\* e has in its tables of resources what c has.
Quiet(c, e) ==
    /\ DOMAIN e = Fields
    /\ e.catalog = c.catalog /\ e.resource_catalog = c.resource_catalog
    /\ e.virtual_resources = c.virtual_resources
    /\ e.pending_realizes = c.pending_realizes

LEMMA SetVarQuiet ==
    ASSUME NEW c, NEW e, Quiet(c, e), NEW s, NEW name, NEW v
    PROVE  Quiet(c, puppet_scope_set_var(e, s, name, v))
BY DEF Quiet, Fields, puppet_scope_set_var

LEMMA EnterScopeQuiet ==
    ASSUME NEW c, NEW e, Quiet(c, e), NEW parent, NEW variables
    PROVE  Quiet(c, EnterScope(e, parent, variables))
BY DEF Quiet, Fields, EnterScope

LEMMA ReenterQuiet ==
    ASSUME NEW c, NEW e, Quiet(c, e), NEW s
    PROVE  Quiet(c, ReenterScope(e, s))
BY DEF Quiet, Fields, ReenterScope

LEMMA PopQuiet ==
    ASSUME NEW c, NEW e, Quiet(c, e)
    PROVE  Quiet(c, puppet_scope_pop(e))
BY DEF Quiet, Fields, puppet_scope_pop

LEMMA LeaveScopeQuiet ==
    ASSUME NEW c, NEW e, Quiet(c, e)
    PROVE  Quiet(c, LeaveScope(e))
<1> DEFINE left == [e EXCEPT !.scopes[e.current_scope].live = FALSE]
<1>1. LeaveScope(e) = puppet_scope_pop(left)
  BY DEF LeaveScope
<1>2. Quiet(c, left)
  BY DEF Quiet, Fields
<1> HIDE DEF left
<1> QED
  BY <1>1, <1>2, PopQuiet

LEMMA DoQuiet ==
    ASSUME NEW c, NEW e, Quiet(c, e), NEW tasks
    PROVE  Quiet(c, Do(e, tasks))
BY DEF Quiet, Fields, Do

LEMMA ErrorsQuiet ==
    ASSUME NEW c, NEW e, Quiet(c, e)
    PROVE  Quiet(c, puppet_env_increment_error(e))
BY DEF Quiet, Fields, puppet_env_increment_error

LEMMA DeferQuiet ==
    ASSUME NEW c, NEW e, Quiet(c, e), NEW entry
    PROVE  Quiet(c, DeferDefine(e, entry))
BY DEF Quiet, Fields, DeferDefine

LEMMA QuietSelf ==
    ASSUME NEW e, DOMAIN e = Fields
    PROVE  Quiet(e, e)
BY DEF Quiet

LEMMA RestQuiet ==
    ASSUME NEW c, Quiet(c, env)
    PROVE  Quiet(c, Rest)
BY DEF Quiet, Fields, Rest

LEMMA AssignmentQuiet ==
    ASSUME NEW c, Quiet(c, env), puppet_exec_assignment
    PROVE  Quiet(c, env')
BY RestQuiet, SetVarQuiet DEF puppet_exec_assignment, Becomes

LEMMA BranchQuiet ==
    ASSUME NEW c, Quiet(c, env), ExecBranch
    PROVE  Quiet(c, env')
BY RestQuiet, DoQuiet DEF ExecBranch, Becomes

LEMMA CallQuiet ==
    ASSUME NEW c, Quiet(c, env), puppet_call_user_function
    PROVE  Quiet(c, env')
<1> DEFINE inside == EnterScope(Rest, env.current_scope, <<>>)
           tasks  == Each(program.functions[Task.stmt.function]) \o <<[do |-> "leave"]>>
<1>1. env' = Do(inside, tasks)
  BY DEF puppet_call_user_function, Becomes
<1> HIDE DEF tasks
<1>2. Quiet(c, inside)
  BY RestQuiet, EnterScopeQuiet
<1> HIDE DEF inside
<1> QED
  BY <1>1, <1>2, DoQuiet

LEMMA LeaveQuiet ==
    ASSUME NEW c, Quiet(c, env), Leave
    PROVE  Quiet(c, env')
BY RestQuiet, LeaveScopeQuiet DEF Leave, Becomes

LEMMA IncludeQuiet ==
    ASSUME NEW c, Quiet(c, env), puppet_exec_include
    PROVE  Quiet(c, env')
<1> DEFINE tasks == ClassTasks(env, Task.stmt.class, <<>>)
<1>1. env' = Rest \/ env' = Do(Rest, tasks)
  BY DEF puppet_exec_include, Becomes
<1> HIDE DEF tasks
<1> QED
  BY <1>1, RestQuiet, DoQuiet

LEMMA IncludeClassQuiet ==
    ASSUME NEW c, Quiet(c, env), puppet_include_class_from_def
    PROVE  Quiet(c, env')
<1> DEFINE class   == Task.class
           entered == EnterScope(Rest, ClassParent(class), Titled(class))
           scope   == entered.current_scope
           inside  == [entered EXCEPT !.class_scope = scope,
                                      !.class_scopes = Put(@, class, scope)]
           value   == ClassArgument(inside, class, Task.args)
           bound   == puppet_scope_set_var(inside, scope, "p", value)
           end     == [do |-> "endClass", class |-> class, outer |-> env.class_scope]
           tasks   == ExecList(bound, program.classes[class].body) \o <<end>>
<1>1. env' = Do(bound, tasks)
  BY DEF puppet_include_class_from_def
<1> HIDE DEF value, tasks
<1>2. Quiet(c, entered)
  BY RestQuiet, EnterScopeQuiet
<1> HIDE DEF entered, scope
<1>3. Quiet(c, inside)
  BY <1>2 DEF Quiet, Fields
<1> HIDE DEF inside
<1>4. Quiet(c, bound)
  BY <1>3, SetVarQuiet
<1> HIDE DEF bound
<1> QED
  BY <1>1, <1>4, DoQuiet

LEMMA EndClassQuiet ==
    ASSUME NEW c, Quiet(c, env), EndClass \/ EndReexecution
    PROVE  Quiet(c, env')
<1> DEFINE a == [Rest EXCEPT !.classes = @ \cup {Task.class}, !.class_scope = Task.outer]
           b == [Rest EXCEPT !.class_scope = Task.outer, !.class_reexecuting = Task.reexecuting]
<1>1. env' = puppet_scope_pop(a) \/ env' = puppet_scope_pop(b)
  BY DEF EndClass, EndReexecution, Becomes
<1>2. Quiet(c, a) /\ Quiet(c, b)
  BY RestQuiet DEF Quiet, Fields
<1> HIDE DEF a, b
<1> QED
  BY <1>1, <1>2, PopQuiet

LEMMA ErrorQuiet ==
    ASSUME NEW c, Quiet(c, env), DeclareClassTwice \/ DuplicateDeclaration \/ OverrideUndeclared
    PROVE  Quiet(c, env')
BY RestQuiet, ErrorsQuiet
   DEF DeclareClassTwice, DuplicateDeclaration, OverrideUndeclared, Becomes

LEMMA DeclareClassQuiet ==
    ASSUME NEW c, Quiet(c, env), DeclareClass
    PROVE  Quiet(c, env')
<1> DEFINE declared == [Rest EXCEPT !.class_resource_decls = @ \cup {Task.stmt.class}]
           tasks    == ClassTasks(env, Task.stmt.class, Task.stmt.args)
<1>1. env' = Do(declared, tasks)
  BY DEF DeclareClass, Becomes
<1> HIDE DEF tasks
<1>2. Quiet(c, declared)
  BY RestQuiet DEF Quiet, Fields
<1> HIDE DEF declared
<1> QED
  BY <1>1, <1>2, DoQuiet

LEMMA ReexecuteQuiet ==
    ASSUME NEW c, Quiet(c, env), ReexecuteClass
    PROVE  Quiet(c, env')
<1> DEFINE class    == Task.stmt.class
           scope    == env.class_scopes[class]
           declared == [Rest EXCEPT !.class_resource_decls = @ \cup {class}]
           value    == puppet_eval_expr(env, Task.stmt.args)
           bound    == puppet_scope_set_var(declared, scope, "p", value)
           again    == ReenterScope(bound, scope)
           inside   == [again EXCEPT !.class_scope = scope, !.class_reexecuting = TRUE]
           end      == [do |-> "endReexecution", outer |-> env.class_scope,
                        reexecuting |-> env.class_reexecuting]
           tasks    == Each(program.classes[class].body) \o <<end>>
<1>1. env' = declared \/ env' = Do(inside, tasks)
  BY DEF ReexecuteClass, Becomes
<1> HIDE DEF value, tasks
<1>2. Quiet(c, declared)
  BY RestQuiet DEF Quiet, Fields
<1> HIDE DEF declared, scope
<1>3. Quiet(c, bound)
  BY <1>2, SetVarQuiet
<1> HIDE DEF bound
<1>4. Quiet(c, again)
  BY <1>3, ReenterQuiet
<1> HIDE DEF again
<1>5. Quiet(c, inside)
  BY <1>4 DEF Quiet, Fields
<1> HIDE DEF inside
<1> QED
  BY <1>1, <1>2, <1>5, DoQuiet

LEMMA DeferredDefineQuiet ==
    ASSUME NEW c, Quiet(c, env), puppet_exec_deferred_define
    PROVE  Quiet(c, env')
<1> DEFINE d       == env.deferred_defines[Task.cursor + 1]
           caller  == [Rest EXCEPT !.current_scope = InstanceParent(d),
                                   !.class_reexecuting = d.class_reexecuting]
           inside  == EnterScope(caller, InstanceParent(d), Titled(d.id[2]))
           given   == InstanceValue(inside, d)
           value   == IF given # undef THEN given
                      ELSE puppet_eval_expr(inside, program.defines[d.id[1]].default)
           bound   == puppet_scope_set_var(inside, inside.current_scope, "p", value)
           end     == [do |-> "endDefine", entry |-> Task.cursor + 1,
                       generation |-> env.generation, caller |-> env.current_scope,
                       reexecuting |-> env.class_reexecuting]
           next    == [Task EXCEPT !.cursor = @ + 1]
           tasks   == ExecList(bound, program.defines[d.id[1]].body) \o <<end, next>>
<1>1. env' = Do(bound, tasks)
  BY Zenon DEF puppet_exec_deferred_define
<1> HIDE DEF value, tasks
<1>2. Quiet(c, caller)
  BY RestQuiet DEF Quiet, Fields
<1> HIDE DEF caller, d
<1>3. Quiet(c, inside)
  BY <1>2, EnterScopeQuiet
<1> HIDE DEF inside
<1>4. Quiet(c, bound)
  BY <1>3, SetVarQuiet
<1> HIDE DEF bound
<1> QED
  BY <1>1, <1>4, DoQuiet

LEMMA EndListQuiet ==
    ASSUME NEW c, Quiet(c, env), EndList \/ EndCollect \/ Export
    PROVE  Quiet(c, env')
<1>1. CASE EndList
  BY <1>1, RestQuiet DEF EndList, Becomes, Quiet, Fields
<1>2. CASE EndCollect
  BY <1>2, RestQuiet DEF EndCollect, Becomes
<1>3. CASE Export
  BY <1>3, RestQuiet DEF Export, Becomes, Quiet, Fields
<1> QED
  BY <1>1, <1>2, <1>3

LEMMA CollectVirtualQuiet ==
    ASSUME NEW c, Quiet(c, env), CollectVirtual
    PROVE  Quiet(c, env')
<1> DEFINE first == Matching(Task.stmt.type, Task.stmt.filter)
           tasks == <<[do |-> "collecting", type |-> Task.stmt.type,
                       filter |-> Task.stmt.filter, first |-> first, passed |-> {}]>>
<1>1. env' = Do(Rest, tasks)
  BY DEF CollectVirtual, Becomes
<1> HIDE DEF tasks
<1> QED
  BY <1>1, RestQuiet, DoQuiet

-----------------------------------------------------------------------------
(* Steps that declare, realize or collect a resource *)

\* On the way to declare id: nothing is lost of what c has, id may be marked, and of
\* the virtual resources only those that are marked are realized.
Declaring(c, e, id) ==
    /\ DOMAIN e = Fields
    /\ DOMAIN c.catalog \subseteq DOMAIN e.catalog
    /\ \A k \in DOMAIN c.catalog : e.catalog[k] = c.catalog[k] \/ c.class_reexecuting
    /\ c.resource_catalog \subseteq e.resource_catalog
    /\ e.resource_catalog \subseteq c.resource_catalog \cup {id}
    /\ e.pending_realizes = c.pending_realizes
    /\ DOMAIN e.virtual_resources = DOMAIN c.virtual_resources
    /\ \A k \in DOMAIN c.virtual_resources :
          /\ DOMAIN e.virtual_resources[k] = DOMAIN c.virtual_resources[k]
          /\ ("realized" \in DOMAIN c.virtual_resources[k] /\ e.virtual_resources[k].realized)
                => c.virtual_resources[k].realized \/ k \in e.resource_catalog

\* Done: what was marked is in the catalog, or is an instance of a defined type.
Declared(p, c, e) ==
    \E id : Declaring(c, e, id) /\ (id[1] \in DOMAIN p.defines \/ id \in DOMAIN e.catalog)

\* The tables are those of c, or those after a declaration.
Settled(p, c, e) == Quiet(c, e) \/ Declared(p, c, e)

LEMMA QuietDeclaring ==
    ASSUME NEW c, NEW e, Quiet(c, e), NEW id
    PROVE  Declaring(c, e, id)
BY DEF Quiet, Declaring

LEMMA DeclaringQuiet ==
    ASSUME NEW c, NEW e, NEW id, Declaring(c, e, id), NEW e2, Quiet(e, e2)
    PROVE  Declaring(c, e2, id)
BY DEF Quiet, Declaring

LEMMA DeclaringFields ==
    ASSUME NEW c, NEW e, NEW id, Declaring(c, e, id)
    PROVE  DOMAIN e = Fields /\ Quiet(e, e)
BY DEF Quiet, Declaring

LEMMA MarkDeclaring ==
    ASSUME NEW c, NEW e, Quiet(c, e), NEW id
    PROVE  Declaring(c, Mark(e, id), id) /\ id \in Mark(e, id).resource_catalog
           /\ Mark(e, id).class_reexecuting = e.class_reexecuting
BY DEF Quiet, Declaring, Mark, Fields

LEMMA AddDeclaring ==
    ASSUME NEW c, NEW e, NEW id, Declaring(c, e, id), NEW v
    PROVE  LET e2 == puppet_catalog_add_resource(e, id, v)
           IN  /\ Declaring(c, e2, id) /\ id \in DOMAIN e2.catalog
               /\ e2.resource_catalog = e.resource_catalog
<1> DEFINE e2 == puppet_catalog_add_resource(e, id, v)
<1>1. /\ Only(e, e2, {"catalog"}) /\ DOMAIN e2.catalog = DOMAIN e.catalog \cup {id}
      /\ \A k \in DOMAIN e.catalog : e2.catalog[k] = e.catalog[k]
  BY AddResourceChanges DEF Declaring
<1> HIDE DEF e2
<1>2. /\ DOMAIN e2 = Fields /\ e2.resource_catalog = e.resource_catalog
      /\ e2.pending_realizes = e.pending_realizes /\ e2.virtual_resources = e.virtual_resources
  BY <1>1 DEF Only, Fields
<1>3. \A k \in DOMAIN c.catalog :
          k \in DOMAIN e.catalog /\ (e2.catalog[k] = c.catalog[k] \/ c.class_reexecuting)
  BY <1>1 DEF Declaring
<1>4. Declaring(c, e2, id)
  BY <1>1, <1>2, <1>3 DEF Declaring
<1> QED
  BY <1>1, <1>2, <1>4 DEF e2

LEMMA UpdateDeclaring ==
    ASSUME NEW c, NEW e, NEW id, Declaring(c, e, id), NEW v,
           e.class_reexecuting = c.class_reexecuting
    PROVE  LET e2 == AddOrUpdate(e, id, v) IN Declaring(c, e2, id) /\ id \in DOMAIN e2.catalog
<1> DEFINE e2 == AddOrUpdate(e, id, v)
<1>1. CASE ~ e.class_reexecuting
  BY <1>1, AddDeclaring DEF AddOrUpdate
<1>2. CASE e.class_reexecuting
  <2>1. Only(e, e2, {"catalog"}) /\ DOMAIN e2.catalog = DOMAIN e.catalog \cup {id}
    BY AddOrUpdateChanges DEF Declaring
  <2> HIDE DEF e2
  <2>2. /\ DOMAIN e2 = Fields /\ e2.resource_catalog = e.resource_catalog
        /\ e2.pending_realizes = e.pending_realizes
        /\ e2.virtual_resources = e.virtual_resources
    BY <2>1 DEF Only, Fields
  <2>3. Declaring(c, e2, id)
    BY <1>2, <2>1, <2>2 DEF Declaring
  <2> QED
    BY <2>1, <2>3 DEF e2
<1> QED
  BY <1>1, <1>2

LEMMA RealizedDeclaring ==
    ASSUME NEW c, NEW e, NEW id, Declaring(c, e, id), id \in e.resource_catalog
    PROVE  LET e2 == Realized(e, id)
           IN  Declaring(c, e2, id) /\ e2.catalog = e.catalog
<1> DEFINE e2 == Realized(e, id)
<1>1. /\ DOMAIN e2 = Fields /\ e2.resource_catalog = e.resource_catalog
      /\ e2.pending_realizes = e.pending_realizes /\ e2.catalog = e.catalog
      /\ DOMAIN e2.virtual_resources = DOMAIN e.virtual_resources
  BY DEF Declaring, Realized, Fields
<1>2. \A k \in DOMAIN e.virtual_resources :
          /\ DOMAIN e2.virtual_resources[k] = DOMAIN e.virtual_resources[k]
          /\ k # id => e2.virtual_resources[k] = e.virtual_resources[k]
  BY DEF Declaring, Realized, Fields
<1> HIDE DEF e2
<1>3. Declaring(c, e2, id)
  BY <1>1, <1>2 DEF Declaring
<1> QED
  BY <1>1, <1>3 DEF e2

LEMMA ResourceSettles ==
    ASSUME DOMAIN env = Fields, DeclareResource
    PROVE  Settled(program, env, env')
<1> DEFINE id     == Id(Task.stmt)
           value  == puppet_eval_expr(env, Task.stmt.value)
           marked == Mark(Rest, id)
<1>1. env' = AddOrUpdate(marked, id, value)
  BY DEF DeclareResource, Becomes
<1> HIDE DEF id, value
<1>2. Quiet(env, Rest) /\ Rest.class_reexecuting = env.class_reexecuting
  BY QuietSelf, RestQuiet, RestFields
<1>3. Declaring(env, marked, id) /\ marked.class_reexecuting = env.class_reexecuting
  BY <1>2, MarkDeclaring
<1> HIDE DEF marked
<1>4. Declaring(env, env', id) /\ id \in DOMAIN env'.catalog
  BY <1>1, <1>3, UpdateDeclaring
<1> QED
  BY <1>4 DEF Settled, Declared

LEMMA InstanceSettles ==
    ASSUME DOMAIN env = Fields, DeclareInstance
    PROVE  Settled(program, env, env')
<1> DEFINE id     == Id(Task.stmt)
           entry  == NewEntry(id, Task.stmt.value)
           marked == Mark(Rest, id)
<1>1. env' = DeferDefine(marked, entry)
  BY DEF DeclareInstance
<1>2. id[1] \in DOMAIN program.defines
  BY DEF DeclareInstance, IsDefine, Id
<1> HIDE DEF id, entry
<1>3. Quiet(env, Rest)
  BY QuietSelf, RestQuiet
<1>4. Declaring(env, marked, id)
  BY <1>3, MarkDeclaring
<1> HIDE DEF marked
<1>5. Quiet(marked, env')
  BY <1>1, <1>4, DeclaringFields, DeferQuiet
<1>6. Declaring(env, env', id)
  BY <1>4, <1>5, DeclaringQuiet
<1> QED
  BY <1>2, <1>6 DEF Settled, Declared

LEMMA EndDefineSettles ==
    ASSUME DOMAIN env = Fields, EndDefine
    PROVE  Settled(program, env, env')
<1> DEFINE d     == env.deferred_defines[Task.entry]
           id    == d.id
           value == InstanceValue(env, d)
           added == AddOrUpdate(Rest, id, value)
           left  == LeaveScope(added)
           back  == [left EXCEPT !.current_scope = Task.caller,
                                 !.class_reexecuting = Task.reexecuting]
<1>1. env' = back
  BY DEF EndDefine, Becomes
<1> HIDE DEF d, id, value
<1>2. Quiet(env, Rest) /\ Rest.class_reexecuting = env.class_reexecuting
  BY QuietSelf, RestQuiet, RestFields
<1>3. Declaring(env, Rest, id)
  BY <1>2, QuietDeclaring
<1>4. Declaring(env, added, id) /\ id \in DOMAIN added.catalog
  BY <1>2, <1>3, UpdateDeclaring
<1> HIDE DEF added
<1>5. Quiet(added, left)
  BY <1>4, DeclaringFields, LeaveScopeQuiet
<1> HIDE DEF left
<1>6. Quiet(added, back)
  BY <1>5 DEF Quiet, Fields
<1> HIDE DEF back
<1>7. Declaring(env, back, id) /\ id \in DOMAIN back.catalog
  BY <1>4, <1>6, DeclaringQuiet DEF Quiet
<1> QED
  BY <1>1, <1>7 DEF Settled, Declared

LEMMA CreateResourcesSettles ==
    ASSUME DOMAIN env = Fields, puppet_func_create_resources
    PROVE  Settled(program, env, env')
<1> DEFINE id     == Id(Task.stmt)
           value  == puppet_eval_expr(env, Task.stmt.value)
           marked == Mark(Rest, id)
           bound  == Put(Titled(id[2]), "p", value)
           inside == EnterScope(marked, env.current_scope, bound)
           end    == [do |-> "created", id |-> id, value |-> value]
           tasks  == ExecList(inside, program.defines[id[1]].body) \o <<end>>
<1>1. \/ env' = Rest
      \/ env' = Do(inside, tasks) /\ id[1] \in DOMAIN program.defines
      \/ env' = puppet_catalog_add_resource(marked, id, value)
  BY DEF puppet_func_create_resources, Becomes, IsDefine
<1> HIDE DEF id, value, tasks, bound
<1>2. Quiet(env, Rest)
  BY QuietSelf, RestQuiet
<1>3. Declaring(env, marked, id)
  BY <1>2, MarkDeclaring
<1> HIDE DEF marked
<1>4. Quiet(marked, inside)
  BY <1>3, DeclaringFields, EnterScopeQuiet
<1> HIDE DEF inside
<1>5. Quiet(marked, Do(inside, tasks))
  BY <1>4, DoQuiet
<1>6. Declaring(env, Do(inside, tasks), id)
  BY <1>3, <1>5, DeclaringQuiet
<1>7. CASE env' = puppet_catalog_add_resource(marked, id, value)
  <2>1. Declaring(env, env', id) /\ id \in DOMAIN env'.catalog
    BY <1>3, <1>7, AddDeclaring
  <2> QED
    BY <2>1 DEF Settled, Declared
<1> QED
  BY <1>1, <1>2, <1>6, <1>7 DEF Settled, Declared

LEMMA CreatedSettles ==
    ASSUME DOMAIN env = Fields, Created
    PROVE  Settled(program, env, env')
<1> DEFINE id    == Task.id
           value == Task.value
           added == puppet_catalog_add_resource(Rest, id, value)
<1>1. env' = LeaveScope(added)
  BY DEF Created, Becomes
<1> HIDE DEF id, value
<1>2. Declaring(env, Rest, id)
  BY QuietSelf, RestQuiet, QuietDeclaring
<1>3. Declaring(env, added, id) /\ id \in DOMAIN added.catalog
  BY <1>2, AddDeclaring
<1> HIDE DEF added
<1>4. Quiet(added, env')
  BY <1>1, <1>3, DeclaringFields, LeaveScopeQuiet
<1>5. Declaring(env, env', id) /\ id \in DOMAIN env'.catalog
  BY <1>3, <1>4, DeclaringQuiet DEF Quiet
<1> QED
  BY <1>5 DEF Settled, Declared

LEMMA RealizeVirtualSettles ==
    ASSUME DOMAIN env = Fields, RealizeVirtual
    PROVE  Settled(program, env, env')
<1> DEFINE id     == Task.stmt.id
           value  == env.virtual_resources[id].value
           marked == Mark(Rest, id)
           added  == puppet_catalog_add_resource(marked, id, value)
<1>1. env' = Rest \/ env' = Realized(added, id)
  BY DEF RealizeVirtual
<1> HIDE DEF id, value
<1>2. Quiet(env, Rest)
  BY QuietSelf, RestQuiet
<1>3. Declaring(env, marked, id) /\ id \in marked.resource_catalog
  BY <1>2, MarkDeclaring
<1> HIDE DEF marked
<1>4. Declaring(env, added, id) /\ id \in DOMAIN added.catalog /\ id \in added.resource_catalog
  BY <1>3, AddDeclaring
<1> HIDE DEF added
<1>5. Declaring(env, Realized(added, id), id) /\ id \in DOMAIN Realized(added, id).catalog
  BY <1>4, RealizedDeclaring
<1> QED
  BY <1>1, <1>2, <1>5 DEF Settled, Declared

LEMMA CollectSettles ==
    ASSUME DOMAIN env = Fields, Collect
    PROVE  Settled(program, env, env')
<1>1. PICK id \in Matching(Task.type, Task.filter) \ Task.passed :
        LET value  == env.virtual_resources[id].value
            passed == [env EXCEPT !.todo[1].passed = @ \cup {id}]
            marked == Realized(Mark(passed, id), id)
            inside == EnterScope(marked, env.current_scope, Put(Titled(id[2]), "p", value))
        IN  CASE id \in env.resource_catalog -> Becomes(passed)
              [] id \notin env.resource_catalog /\ IsDefine(id[1]) ->
                     /\ env' = Do(inside, Each(program.defines[id[1]].body) \o <<[do |-> "leave"]>>)
                     /\ seen' = Ran(id)
                     /\ UNCHANGED program
              [] OTHER -> Becomes(puppet_catalog_add_resource(marked, id, value))
  BY DEF Collect
<1> DEFINE value  == env.virtual_resources[id].value
           passed == [env EXCEPT !.todo[1].passed = @ \cup {id}]
           m      == Mark(passed, id)
           marked == Realized(m, id)
           bound  == Put(Titled(id[2]), "p", value)
           inside == EnterScope(marked, env.current_scope, bound)
           tasks  == Each(program.defines[id[1]].body) \o <<[do |-> "leave"]>>
<1>2. \/ env' = passed
      \/ env' = Do(inside, tasks) /\ id[1] \in DOMAIN program.defines
      \/ env' = puppet_catalog_add_resource(marked, id, value)
  BY <1>1 DEF Becomes, IsDefine
<1> HIDE DEF value, tasks, bound
<1>3. Quiet(env, passed)
  BY DEF Quiet, Fields
<1> HIDE DEF passed
<1>4. Declaring(env, m, id) /\ id \in m.resource_catalog
  BY <1>3, MarkDeclaring
<1> HIDE DEF m
<1>5. Declaring(env, marked, id)
  BY <1>4, RealizedDeclaring
<1> HIDE DEF marked
<1>6. Quiet(marked, inside)
  BY <1>5, DeclaringFields, EnterScopeQuiet
<1> HIDE DEF inside
<1>7. Quiet(marked, Do(inside, tasks))
  BY <1>6, DoQuiet
<1>8. Declaring(env, Do(inside, tasks), id)
  BY <1>5, <1>7, DeclaringQuiet
<1>9. CASE env' = puppet_catalog_add_resource(marked, id, value)
  <2>1. Declaring(env, env', id) /\ id \in DOMAIN env'.catalog
    BY <1>5, <1>9, AddDeclaring
  <2> QED
    BY <2>1 DEF Settled, Declared
<1> QED
  BY <1>2, <1>3, <1>8, <1>9 DEF Settled, Declared

\* What is collected from other nodes is marked and in the catalog.
LEMMA CollectExportedTables ==
    ASSUME DOMAIN env = Fields, CollectExported
    PROVE  \E ids : /\ DOMAIN env' = Fields
                    /\ env'.resource_catalog = env.resource_catalog \cup ids
                    /\ DOMAIN env'.catalog = DOMAIN env.catalog \cup ids
                    /\ \A k \in DOMAIN env.catalog : env'.catalog[k] = env.catalog[k]
                    /\ env'.virtual_resources = env.virtual_resources
                    /\ env'.pending_realizes = env.pending_realizes
<1>1. PICK ids : /\ Only(env, env', {"todo", "resource_catalog", "catalog"})
                 /\ env'.resource_catalog = env.resource_catalog \cup ids
                 /\ DOMAIN env'.catalog = DOMAIN env.catalog \cup ids
                 /\ \A k \in DOMAIN env.catalog : env'.catalog[k] = env.catalog[k]
  BY CollectedChanges
<1>2. /\ DOMAIN env' = Fields /\ env'.virtual_resources = env.virtual_resources
      /\ env'.pending_realizes = env.pending_realizes
  BY <1>1 DEF Only, Fields
<1> QED
  BY <1>1, <1>2

\* A virtual resource that is new gets an entry, and is declared at once if a
\* realize() waits for it.
VirtualEntry(e, e2, id) ==
    /\ e2.pending_realizes = e.pending_realizes
    /\ DOMAIN e2.virtual_resources = DOMAIN e.virtual_resources \cup {id}
    /\ \A k \in DOMAIN e.virtual_resources :
          e2.virtual_resources[k] = e.virtual_resources[k]
    /\ DOMAIN e2.virtual_resources[id] = {"value", "realized"}
    /\ e2.virtual_resources[id].realized => id \in e2.resource_catalog
    /\ e2.resource_catalog \subseteq e.resource_catalog \cup {id}
    /\ e.resource_catalog \subseteq e2.resource_catalog
    /\ DOMAIN e.catalog \subseteq DOMAIN e2.catalog
    /\ \A k \in DOMAIN e.catalog : e2.catalog[k] = e.catalog[k]
    /\ \/ id \in e.pending_realizes /\ id \in DOMAIN e2.catalog
       \/ id \notin e.pending_realizes /\ e2.resource_catalog = e.resource_catalog

LEMMA DeclareVirtualTables ==
    ASSUME DOMAIN env = Fields, DeclareVirtual
    PROVE  \/ Quiet(env, env')
           \/ /\ DOMAIN env' = Fields
              /\ \E id : id \notin DOMAIN env.virtual_resources /\ VirtualEntry(env, env', id)
<1> DEFINE id       == Id(Task.stmt)
           value    == puppet_eval_expr(env, Task.stmt.value)
           awaited  == Awaited(id)
           entry    == [value |-> value, realized |-> awaited]
           declared == [Rest EXCEPT !.virtual_resources = Put(@, id, entry)]
           marked   == Mark(declared, id)
           added    == puppet_catalog_add_resource(marked, id, value)
<1>1. \/ env' = Rest
      \/ id \notin DOMAIN env.virtual_resources /\ awaited /\ env' = added
      \/ id \notin DOMAIN env.virtual_resources /\ ~ awaited /\ env' = declared
  BY DEF DeclareVirtual, Becomes
<1>2. Quiet(env, Rest)
  BY QuietSelf, RestQuiet
<1>3. DOMAIN entry = {"value", "realized"} /\ entry.realized = awaited
  OBVIOUS
<1>4. awaited <=> id \in env.pending_realizes
  BY DEF Awaited
<1> HIDE DEF id, value, awaited, entry
<1>5. /\ DOMAIN declared = Fields /\ declared.catalog = env.catalog
      /\ declared.resource_catalog = env.resource_catalog
      /\ declared.pending_realizes = env.pending_realizes
      /\ declared.virtual_resources = Put(env.virtual_resources, id, entry)
  BY <1>2 DEF Quiet, Fields
<1> HIDE DEF declared
<1>6. /\ DOMAIN declared.virtual_resources = DOMAIN env.virtual_resources \cup {id}
      /\ declared.virtual_resources[id] = entry
      /\ \A k \in DOMAIN env.virtual_resources \ {id} :
            declared.virtual_resources[k] = env.virtual_resources[k]
  BY <1>5 DEF Put
<1>7. /\ DOMAIN marked = Fields /\ marked.catalog = env.catalog
      /\ marked.resource_catalog = env.resource_catalog \cup {id}
      /\ marked.pending_realizes = env.pending_realizes
      /\ marked.virtual_resources = declared.virtual_resources
  BY <1>5 DEF Mark, Fields
<1> HIDE DEF marked
<1>8. /\ Only(marked, added, {"catalog"}) /\ DOMAIN added.catalog = DOMAIN marked.catalog \cup {id}
      /\ \A k \in DOMAIN marked.catalog : added.catalog[k] = marked.catalog[k]
  BY <1>7, AddResourceChanges
<1> HIDE DEF added
<1>9. /\ DOMAIN added = Fields /\ added.resource_catalog = marked.resource_catalog
      /\ added.pending_realizes = marked.pending_realizes
      /\ added.virtual_resources = marked.virtual_resources
  BY <1>8 DEF Only, Fields
<1>10. CASE id \notin DOMAIN env.virtual_resources /\ awaited /\ env' = added
  <2>1. VirtualEntry(env, added, id)
    BY <1>3, <1>4, <1>6, <1>7, <1>8, <1>9, <1>10 DEF VirtualEntry
  <2> QED
    BY <1>9, <1>10, <2>1
<1>11. CASE id \notin DOMAIN env.virtual_resources /\ ~ awaited /\ env' = declared
  <2>1. VirtualEntry(env, declared, id)
    BY <1>3, <1>4, <1>5, <1>6, <1>11 DEF VirtualEntry
  <2> QED
    BY <1>5, <1>11, <2>1
<1> QED
  BY <1>1, <1>2, <1>10, <1>11

\* A realize() of what is not declared is remembered, or says so.
LEMMA RealizeUnknownTables ==
    ASSUME DOMAIN env = Fields, RealizeUnknown
    PROVE  /\ DOMAIN env' = Fields /\ env'.catalog = env.catalog
           /\ env'.resource_catalog = env.resource_catalog
           /\ env'.virtual_resources = env.virtual_resources
           /\ Task.stmt.id \notin DOMAIN env.virtual_resources
           /\ \/ seen' = seen /\ env'.pending_realizes = env.pending_realizes
              \/ /\ seen' = [seen EXCEPT !.asked = @ \cup {Task.stmt.id}]
                 /\ env'.pending_realizes = env.pending_realizes \cup {Task.stmt.id}
<1>1. Quiet(env, Rest)
  BY QuietSelf, RestQuiet
<1> DEFINE later == [Rest EXCEPT !.pending_realizes = @ \cup {Task.stmt.id}]
<1>2. /\ DOMAIN later = Fields /\ later.catalog = Rest.catalog
      /\ later.resource_catalog = Rest.resource_catalog
      /\ later.virtual_resources = Rest.virtual_resources
      /\ later.pending_realizes = Rest.pending_realizes \cup {Task.stmt.id}
  BY <1>1 DEF Quiet, Fields
<1>3. /\ \/ env' = later /\ seen' = [seen EXCEPT !.asked = @ \cup {Task.stmt.id}]
         \/ env' = Rest /\ seen' = seen
      /\ Task.stmt.id \notin DOMAIN env.virtual_resources
  BY DEF RealizeUnknown
<1> HIDE DEF later
<1> QED
  BY <1>1, <1>2, <1>3 DEF Quiet

\* An override changes the value of the resource it names, in each table that has it.
LEMMA OverrideTables ==
    ASSUME DOMAIN env = Fields, Override
    PROVE  /\ DOMAIN env' = Fields
           /\ DOMAIN env'.catalog = DOMAIN env.catalog
           /\ \A k \in DOMAIN env.catalog \ {Task.stmt.id} : env'.catalog[k] = env.catalog[k]
           /\ env'.resource_catalog = env.resource_catalog
           /\ env'.pending_realizes = env.pending_realizes
           /\ DOMAIN env'.virtual_resources = DOMAIN env.virtual_resources
           /\ \A k \in DOMAIN env.virtual_resources :
                 /\ DOMAIN env'.virtual_resources[k] = DOMAIN env.virtual_resources[k]
                 /\ "realized" \in DOMAIN env.virtual_resources[k] =>
                       env'.virtual_resources[k].realized = env.virtual_resources[k].realized
<1> DEFINE id    == Task.stmt.id
           value == puppet_eval_expr(env, Task.stmt.value)
           e2    == ApplyOverride(Rest, id, value)
<1>1. env' = e2
  BY DEF Override
<1> HIDE DEF id, value
<1>2. Quiet(env, Rest)
  BY QuietSelf, RestQuiet
<1>3. DOMAIN e2 = DOMAIN Rest
  BY DEF ApplyOverride
<1>4. \/ e2.catalog = Rest.catalog
      \/ e2.catalog = [Rest.catalog EXCEPT ![id] = value]
  BY <1>2 DEF ApplyOverride, Quiet, Fields
<1>5. \/ e2.virtual_resources = Rest.virtual_resources
      \/ e2.virtual_resources = [Rest.virtual_resources EXCEPT ![id].value = value]
  BY <1>2 DEF ApplyOverride, Quiet, Fields
<1>6. /\ e2.resource_catalog = Rest.resource_catalog
      /\ e2.pending_realizes = Rest.pending_realizes
  BY <1>2 DEF ApplyOverride, Quiet, Fields
<1> HIDE DEF e2
<1>7. /\ DOMAIN e2.catalog = DOMAIN env.catalog
      /\ \A k \in DOMAIN env.catalog \ {id} : e2.catalog[k] = env.catalog[k]
  BY <1>2, <1>4 DEF Quiet
<1>8. /\ DOMAIN e2.virtual_resources = DOMAIN env.virtual_resources
      /\ \A k \in DOMAIN env.virtual_resources :
            /\ DOMAIN e2.virtual_resources[k] = DOMAIN env.virtual_resources[k]
            /\ "realized" \in DOMAIN env.virtual_resources[k] =>
                  e2.virtual_resources[k].realized = env.virtual_resources[k].realized
  BY <1>2, <1>5 DEF Quiet
<1> QED
  BY <1>1, <1>2, <1>3, <1>6, <1>7, <1>8 DEF Quiet, id

\* The other steps leave the tables of resources as they are.
LEMMA OthersSettle ==
    ASSUME DOMAIN env = Fields, Step, ~ CollectExported, ~ DeclareVirtual,
           ~ RealizeUnknown, ~ Override
    PROVE  Settled(program, env, env')
<1>1. Quiet(env, env)
  BY QuietSelf
<1>2. CASE DeclareResource \/ DeclareInstance \/ EndDefine \/ puppet_func_create_resources
           \/ Created \/ RealizeVirtual \/ Collect
  BY <1>2, ResourceSettles, InstanceSettles, EndDefineSettles, CreateResourcesSettles,
     CreatedSettles, RealizeVirtualSettles, CollectSettles
<1>3. CASE ~ (DeclareResource \/ DeclareInstance \/ EndDefine \/ puppet_func_create_resources
              \/ Created \/ RealizeVirtual \/ Collect)
  <2>1. Quiet(env, env')
    BY <1>1, <1>3, AssignmentQuiet, BranchQuiet, CallQuiet, LeaveQuiet, IncludeQuiet,
       IncludeClassQuiet, EndClassQuiet, ErrorQuiet, DeclareClassQuiet, ReexecuteQuiet,
       DeferredDefineQuiet, EndListQuiet, CollectVirtualQuiet
       DEF Step
  <2> QED
    BY <2>1 DEF Settled
<1> QED
  BY <1>2, <1>3

-----------------------------------------------------------------------------
(* What is in the catalog stays *)

\* What FirstDeclarationStands says of a step.
StandsOrSaid ==
    \A id \in DOMAIN env.catalog :
        env'.catalog[id] # env.catalog[id] =>
            \/ env.class_reexecuting
            \/ Stmt("override") /\ Task.stmt.id = id

LEMMA DeclarationsStandStep ==
    ASSUME DOMAIN env = Fields, [Next]_vars
    PROVE  DOMAIN env' = Fields /\ StandsOrSaid
<1>1. CASE UNCHANGED vars
  BY <1>1 DEF vars, StandsOrSaid
<1>2. CASE CollectExported
  BY <1>2, CollectExportedTables DEF StandsOrSaid
<1>3. CASE DeclareVirtual
  BY <1>3, DeclareVirtualTables DEF Quiet, VirtualEntry, StandsOrSaid
<1>4. CASE RealizeUnknown
  BY <1>4, RealizeUnknownTables DEF StandsOrSaid
<1>5. CASE Override
  <2>1. Stmt("override")
    BY <1>5 DEF Override
  <2> QED
    BY <1>5, <2>1, OverrideTables DEF StandsOrSaid
<1>6. CASE Step /\ ~ CollectExported /\ ~ DeclareVirtual /\ ~ RealizeUnknown /\ ~ Override
  <2>1. Settled(program, env, env')
    BY <1>6, OthersSettle
  <2>2. CASE Quiet(env, env')
    BY <2>2 DEF Quiet, StandsOrSaid
  <2>3. CASE Declared(program, env, env')
    BY <2>3 DEF Declared, Declaring, StandsOrSaid
  <2> QED
    BY <2>1, <2>2, <2>3 DEF Settled
<1> QED
  BY <1>1, <1>2, <1>3, <1>4, <1>5, <1>6 DEF Next

\* Once in the catalog a resource changes only by an override, or because its class is
\* executed again: for all manifests, those that enter a class twice included.
THEOREM DeclarationsStand == Spec => FirstDeclarationStands
<1>1. Init => DOMAIN env = Fields
  BY DEF Init, Start, Fields
<1>2. DOMAIN env = Fields /\ [Next]_vars => (DOMAIN env = Fields)'
  BY DeclarationsStandStep
<1>3. DOMAIN env = Fields /\ [Next]_vars => [StandsOrSaid]_vars
  BY DeclarationsStandStep
<1> QED
  BY <1>1, <1>2, <1>3, PTL DEF Spec, FirstDeclarationStands, StandsOrSaid
-----------------------------------------------------------------------------
(* A realize() is answered *)

\* What is marked is in the catalog, if it has no body to run first; a virtual resource
\* that is realized is marked; what was asked for is in the catalog, or remembered until
\* it is declared.
RealizeInv(p, e, asked) ==
    /\ DOMAIN e = Fields
    /\ \A id \in e.resource_catalog : id[1] \notin DOMAIN p.defines => id \in DOMAIN e.catalog
    /\ \A id \in DOMAIN e.virtual_resources :
          /\ DOMAIN e.virtual_resources[id] = {"value", "realized"}
          /\ e.virtual_resources[id].realized => id \in e.resource_catalog
    /\ \A id \in asked :
          IF id \in DOMAIN e.virtual_resources
          THEN id[1] \notin DOMAIN p.defines => id \in DOMAIN e.catalog
          ELSE id \in e.pending_realizes

LEMMA QuietRealizes ==
    ASSUME NEW p, NEW c, NEW e, NEW asked, RealizeInv(p, c, asked), Quiet(c, e)
    PROVE  RealizeInv(p, e, asked)
BY DEF RealizeInv, Quiet

LEMMA DeclaredRealizes ==
    ASSUME NEW p, NEW c, NEW e, NEW asked, RealizeInv(p, c, asked), Declared(p, c, e)
    PROVE  RealizeInv(p, e, asked)
<1>1. PICK id : Declaring(c, e, id) /\ (id[1] \in DOMAIN p.defines \/ id \in DOMAIN e.catalog)
  BY DEF Declared
<1>2. ASSUME NEW k \in e.resource_catalog, k[1] \notin DOMAIN p.defines
      PROVE  k \in DOMAIN e.catalog
  BY <1>1, <1>2 DEF Declaring, RealizeInv
<1>3. ASSUME NEW k \in DOMAIN e.virtual_resources
      PROVE  /\ DOMAIN e.virtual_resources[k] = {"value", "realized"}
             /\ e.virtual_resources[k].realized => k \in e.resource_catalog
  BY <1>1, <1>3 DEF Declaring, RealizeInv
<1>4. ASSUME NEW k \in asked
      PROVE  IF k \in DOMAIN e.virtual_resources
             THEN k[1] \notin DOMAIN p.defines => k \in DOMAIN e.catalog
             ELSE k \in e.pending_realizes
  BY <1>1, <1>4 DEF Declaring, RealizeInv
<1>5. DOMAIN e = Fields
  BY <1>1 DEF Declaring
<1> QED
  BY <1>2, <1>3, <1>4, <1>5 DEF RealizeInv

LEMMA CollectExportedRealizes ==
    ASSUME NEW asked, RealizeInv(program, env, asked), CollectExported
    PROVE  RealizeInv(program, env', asked)
<1>1. DOMAIN env = Fields
  BY DEF RealizeInv
<1> QED
  BY <1>1, CollectExportedTables DEF RealizeInv

LEMMA DeclareVirtualRealizes ==
    ASSUME NEW asked, RealizeInv(program, env, asked), DeclareVirtual
    PROVE  RealizeInv(program, env', asked)
<1>1. DOMAIN env = Fields
  BY DEF RealizeInv
<1>2. CASE Quiet(env, env')
  BY <1>2, QuietRealizes
<1>3. ASSUME DOMAIN env' = Fields,
             NEW id, id \notin DOMAIN env.virtual_resources, VirtualEntry(env, env', id)
      PROVE  RealizeInv(program, env', asked)
  <2>1. ASSUME NEW k \in env'.resource_catalog, k[1] \notin DOMAIN program.defines
        PROVE  k \in DOMAIN env'.catalog
    BY <1>3, <2>1 DEF VirtualEntry, RealizeInv
  <2>2. ASSUME NEW k \in DOMAIN env'.virtual_resources
        PROVE  /\ DOMAIN env'.virtual_resources[k] = {"value", "realized"}
               /\ env'.virtual_resources[k].realized => k \in env'.resource_catalog
    BY <1>3, <2>2 DEF VirtualEntry, RealizeInv
  <2>3. ASSUME NEW k \in asked
        PROVE  IF k \in DOMAIN env'.virtual_resources
               THEN k[1] \notin DOMAIN program.defines => k \in DOMAIN env'.catalog
               ELSE k \in env'.pending_realizes
    BY <1>3, <2>3 DEF VirtualEntry, RealizeInv
  <2> QED
    BY <1>3, <2>1, <2>2, <2>3 DEF RealizeInv
<1> QED
  BY <1>1, <1>2, <1>3, DeclareVirtualTables

LEMMA OverrideRealizes ==
    ASSUME NEW asked, RealizeInv(program, env, asked), Override
    PROVE  RealizeInv(program, env', asked)
<1>1. DOMAIN env = Fields
  BY DEF RealizeInv
<1> QED
  BY <1>1, OverrideTables DEF RealizeInv

\* realize() of a virtual resource puts it in the catalog, or it is there.
LEMMA RealizeVirtualRealizes ==
    ASSUME RealizeInv(program, env, seen.asked), RealizeVirtual
    PROVE  RealizeInv(program, env', seen.asked \cup {Task.stmt.id})
<1> DEFINE id     == Task.stmt.id
           value  == env.virtual_resources[id].value
           marked == Mark(Rest, id)
           added  == puppet_catalog_add_resource(marked, id, value)
<1>1. /\ id \in DOMAIN env.virtual_resources
      /\ \/ /\ env' = Rest
            /\ env.virtual_resources[id].realized \/ id \in env.resource_catalog
         \/ env' = Realized(added, id)
  BY DEF RealizeVirtual
<1> HIDE DEF id, value
<1>2. Quiet(env, Rest)
  BY QuietSelf, RestQuiet DEF RealizeInv
<1>3. RealizeInv(program, env', seen.asked)
  <2>1. Settled(program, env, env')
    BY RealizeVirtualSettles DEF RealizeInv
  <2> QED
    BY <2>1, QuietRealizes, DeclaredRealizes DEF Settled
<1>4. id \in DOMAIN env'.virtual_resources
      /\ (id[1] \notin DOMAIN program.defines => id \in DOMAIN env'.catalog)
  <2>1. CASE /\ env' = Rest
             /\ env.virtual_resources[id].realized \/ id \in env.resource_catalog
    <3>2. id \in env.resource_catalog
      BY <1>1, <2>1 DEF RealizeInv
    <3>3. id \in DOMAIN env.virtual_resources
      BY <1>1
    <3> QED
      BY <1>2, <2>1, <3>2, <3>3 DEF RealizeInv, Quiet
  <2>2. CASE env' = Realized(added, id)
    <3>1. Declaring(env, marked, id) /\ id \in marked.resource_catalog
      BY <1>2, MarkDeclaring
    <3> HIDE DEF marked
    <3>2. /\ Declaring(env, added, id) /\ id \in DOMAIN added.catalog
          /\ id \in added.resource_catalog
      BY <3>1, AddDeclaring
    <3> HIDE DEF added
    <3>3. Declaring(env, env', id) /\ id \in DOMAIN env'.catalog
      BY <2>2, <3>2, RealizedDeclaring
    <3> QED
      BY <1>1, <3>3 DEF Declaring
  <2> QED
    BY <1>1, <2>1, <2>2
<1>5. RealizeInv(program, env', seen.asked \cup {id})
  BY <1>3, <1>4 DEF RealizeInv
<1> QED
  BY <1>5 DEF id

LEMMA RealizeUnknownRealizes ==
    ASSUME RealizeInv(program, env, seen.asked), "asked" \in DOMAIN seen, RealizeUnknown
    PROVE  RealizeInv(program, env', seen'.asked) /\ "asked" \in DOMAIN seen'
<1>1. /\ DOMAIN env' = Fields /\ env'.catalog = env.catalog
      /\ env'.resource_catalog = env.resource_catalog
      /\ env'.virtual_resources = env.virtual_resources
      /\ Task.stmt.id \notin DOMAIN env.virtual_resources
      /\ \/ seen' = seen /\ env'.pending_realizes = env.pending_realizes
         \/ /\ seen' = [seen EXCEPT !.asked = @ \cup {Task.stmt.id}]
            /\ env'.pending_realizes = env.pending_realizes \cup {Task.stmt.id}
  BY RealizeUnknownTables DEF RealizeInv
<1>2. "asked" \in DOMAIN seen'
  BY <1>1
<1>3. \A id \in seen'.asked :
          IF id \in DOMAIN env'.virtual_resources
          THEN id[1] \notin DOMAIN program.defines => id \in DOMAIN env'.catalog
          ELSE id \in env'.pending_realizes
  BY <1>1 DEF RealizeInv
<1> QED
  BY <1>1, <1>2, <1>3 DEF RealizeInv

\* No other step asks for a resource, and the manifests stay what they are.
LEMMA OthersAsk ==
    ASSUME Step, "asked" \in DOMAIN seen, ~ RealizeVirtual, ~ RealizeUnknown
    PROVE  "asked" \in DOMAIN seen' /\ seen'.asked = seen.asked
<1>1. CASE seen' = seen
  BY <1>1
<1>2. ASSUME NEW body, NEW given, \/ seen' = Ran(body)
                                  \/ seen' = [Ran(body) EXCEPT !.given = given]
                                  \/ seen' = [Ran(body) EXCEPT !.meant = given]
                                  \/ seen' = [Ran(body) EXCEPT !.instances = given]
      PROVE  "asked" \in DOMAIN seen' /\ seen'.asked = seen.asked
  BY <1>2 DEF Ran
<1>3. ASSUME NEW given, \/ seen' = [seen EXCEPT !.instances = given]
                        \/ seen' = [seen EXCEPT !.overrides = given]
      PROVE  "asked" \in DOMAIN seen' /\ seen'.asked = seen.asked
  BY <1>3
<1>4. CASE puppet_exec_assignment \/ ExecBranch \/ puppet_call_user_function \/ Leave
           \/ puppet_exec_include \/ EndClass \/ DeclareClassTwice \/ DeclareClass
           \/ EndReexecution \/ DuplicateDeclaration \/ DeclareResource \/ EndDefine
           \/ EndList \/ Created \/ DeclareVirtual \/ CollectExported \/ CollectVirtual
           \/ EndCollect \/ Export \/ OverrideUndeclared
  BY <1>1, <1>4 DEF puppet_exec_assignment, ExecBranch, puppet_call_user_function, Leave,
     puppet_exec_include, EndClass, DeclareClassTwice, DeclareClass, EndReexecution,
     DuplicateDeclaration, DeclareResource, EndDefine, EndList, Created, DeclareVirtual,
     CollectExported, CollectVirtual, EndCollect, Export, OverrideUndeclared, Becomes
<1>5. CASE puppet_include_class_from_def
  BY <1>2, <1>5 DEF puppet_include_class_from_def
<1>6. CASE ReexecuteClass
  BY <1>1, <1>2, <1>6 DEF ReexecuteClass, Becomes
<1>7. CASE DeclareInstance
  BY <1>3, <1>7 DEF DeclareInstance
<1>8. CASE puppet_exec_deferred_define
  <2> DEFINE d     == env.deferred_defines[Task.cursor + 1]
             given == Put(Ran(d.id).meant, d.id,
                          InstanceValue([env EXCEPT !.current_scope = d.caller_scope], d))
  <2>1. seen' = [Ran(d.id) EXCEPT !.meant = given]
    BY <1>8, Zenon DEF puppet_exec_deferred_define
  <2> HIDE DEF d, given
  <2> QED
    BY <1>2, <2>1
<1>9. CASE puppet_func_create_resources
  BY <1>1, <1>2, <1>9 DEF puppet_func_create_resources, Becomes
<1>10. CASE Collect
  BY <1>1, <1>2, <1>10 DEF Collect, Becomes
<1>11. CASE Override
  BY <1>3, <1>11 DEF Override
<1> QED
  BY <1>4, <1>5, <1>6, <1>7, <1>8, <1>9, <1>10, <1>11 DEF Step

LEMMA ProgramStays ==
    ASSUME [Next]_vars
    PROVE  program' = program
<1>1. CASE UNCHANGED vars
  BY <1>1 DEF vars
<1>2. CASE puppet_exec_assignment \/ ExecBranch \/ puppet_call_user_function \/ Leave
           \/ puppet_exec_include \/ EndClass \/ DeclareClassTwice \/ DeclareClass
           \/ EndReexecution \/ DuplicateDeclaration \/ DeclareResource \/ EndDefine
           \/ EndList \/ Created \/ DeclareVirtual \/ CollectExported \/ CollectVirtual
           \/ EndCollect \/ Export \/ OverrideUndeclared
  BY <1>2 DEF puppet_exec_assignment, ExecBranch, puppet_call_user_function, Leave,
     puppet_exec_include, EndClass, DeclareClassTwice, DeclareClass, EndReexecution,
     DuplicateDeclaration, DeclareResource, EndDefine, EndList, Created, DeclareVirtual,
     CollectExported, CollectVirtual, EndCollect, Export, OverrideUndeclared, Becomes
<1>3. CASE puppet_include_class_from_def \/ DeclareInstance \/ Override
           \/ RealizeVirtual \/ RealizeUnknown
  BY <1>3, Zenon DEF puppet_include_class_from_def, DeclareInstance, Override,
     RealizeVirtual, RealizeUnknown
<1>4. CASE ReexecuteClass
  BY <1>4 DEF ReexecuteClass, Becomes
<1>5. CASE puppet_exec_deferred_define
  BY <1>5, Zenon DEF puppet_exec_deferred_define
<1>6. CASE puppet_func_create_resources
  BY <1>6 DEF puppet_func_create_resources, Becomes
<1>7. CASE Collect
  BY <1>7 DEF Collect, Becomes
<1> QED
  BY <1>1, <1>2, <1>3, <1>4, <1>5, <1>6, <1>7 DEF Next, Step

Realizes == RealizeInv(program, env, seen.asked) /\ "asked" \in DOMAIN seen

LEMMA RealizesKept ==
    ASSUME Realizes, [Next]_vars
    PROVE  Realizes'
<1>1. program' = program /\ DOMAIN env = Fields
  BY ProgramStays DEF Realizes, RealizeInv
<1>2. CASE UNCHANGED vars
  BY <1>2 DEF vars, Realizes
<1>3. CASE RealizeVirtual
  <2>1. seen' = [seen EXCEPT !.asked = @ \cup {Task.stmt.id}]
    BY <1>3 DEF RealizeVirtual
  <2>2. "asked" \in DOMAIN seen' /\ seen'.asked = seen.asked \cup {Task.stmt.id}
    BY <2>1 DEF Realizes
  <2> QED
    BY <1>1, <1>3, <2>2, RealizeVirtualRealizes DEF Realizes
<1>4. CASE RealizeUnknown
  BY <1>1, <1>4, RealizeUnknownRealizes DEF Realizes
<1>5. CASE Step /\ ~ RealizeVirtual /\ ~ RealizeUnknown
  <2>1. "asked" \in DOMAIN seen' /\ seen'.asked = seen.asked
    BY <1>5, OthersAsk DEF Realizes
  <2>2. RealizeInv(program, env, seen.asked)
    BY DEF Realizes
  <2>3. RealizeInv(program, env', seen.asked)
    <3>1. CASE CollectExported \/ DeclareVirtual \/ Override
      BY <2>2, <3>1, CollectExportedRealizes, DeclareVirtualRealizes, OverrideRealizes
    <3>2. CASE ~ (CollectExported \/ DeclareVirtual \/ Override)
      <4>1. Settled(program, env, env')
        BY <1>1, <1>5, <3>2, OthersSettle
      <4> QED
        BY <2>2, <4>1, QuietRealizes, DeclaredRealizes DEF Settled
    <3> QED
      BY <3>1, <3>2
  <2> QED
    BY <1>1, <2>1, <2>3 DEF Realizes
<1> QED
  BY <1>2, <1>3, <1>4, <1>5 DEF Next

LEMMA RealizesInit ==
    ASSUME Init
    PROVE  Realizes
<1>1. /\ DOMAIN env = Fields /\ env.resource_catalog = {} /\ env.virtual_resources = <<>>
  BY DEF Init, Start, Fields
<1>2. "asked" \in DOMAIN seen /\ seen.asked = {}
  BY DEF Init
<1> QED
  BY <1>1, <1>2 DEF Realizes, RealizeInv

\* A realize() that was not refused is answered: what was asked for and is declared as a
\* virtual resource of a type that is not a defined one is in the catalog, and not only
\* at the end.  For all manifests.
THEOREM RealizesAreAnswered ==
    Spec => [](RealizedArrive /\
               \A id \in seen.asked \cap DOMAIN env.virtual_resources :
                   ~ IsDefine(id[1]) => id \in DOMAIN env.catalog)
<1>1. Init => Realizes
  BY RealizesInit
<1>2. Realizes /\ [Next]_vars => Realizes'
  BY RealizesKept
<1>3. Realizes => RealizedArrive /\
                  \A id \in seen.asked \cap DOMAIN env.virtual_resources :
                      ~ IsDefine(id[1]) => id \in DOMAIN env.catalog
  BY DEF Realizes, RealizeInv, RealizedArrive, IsDefine
<1> QED
  BY <1>1, <1>2, <1>3, PTL DEF Spec

=============================================================================
