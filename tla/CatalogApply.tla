---------------------------- MODULE CatalogApply ----------------------------
(***************************************************************************)
(* catalog_apply() of the agent (agent/puppet_provider.c): parse a         *)
(* catalog, turn its relationships into a bounded dependency table, sort   *)
(* the table with Kahn's algorithm, apply the resources in that order and  *)
(* deliver refreshes along the notify edges.                               *)
(*                                                                         *)
(* Indices run from 1 (the C arrays run from 0); 0 stands for the -1 that  *)
(* find_resource_index returns.  deps[] and notify_targets[] are kept as   *)
(* sets: the code never stores an index twice and never depends on the     *)
(* position of an index in the array, only on the number of slots used.    *)
(***************************************************************************)
EXTENDS Integers, Sequences, FiniteSets

CONSTANTS
    Keys,          \* resource identities: (lower-cased type, title)
    NoKey,         \* the identity of an entry that parse_resource_from_json rejects
    Catalogs,      \* the catalogs the agent may receive
    MaxDeps,       \* MAX_DEPS: slots of deps[]
    MaxNotify,     \* MAX_NOTIFY: slots of notify_targets[]
    MaxResources   \* MAX_RESOURCES: entries a catalog may have

\* The four metaparameters, the two kinds of catalog edge and the implicit
\* requirement of a file on its parent directory.
MetaKinds == {"require", "before", "notify", "subscribe", "autorequire"}
EdgeKinds == {"edge", "edge_notify"}

\* A relationship of the catalog in the order catalog_apply visits them: the
\* owner is the index of the entry that carries the metaparameter, or the key
\* an edge names as its source.
Relationships ==
    [kind : MetaKinds, owner : Nat \ {0}, ref : Keys]
        \cup [kind : EdgeKinds, owner : Keys, ref : Keys]

\* The pass of catalog_apply that meets a relationship: the metaparameters of
\* entry after entry, then the edges, then the parent directories.  Within an
\* entry extract_dependencies looks for the metaparameters in a fixed order.
Visit(r) == IF r.kind = "autorequire" THEN 3 ELSE IF r.kind \in EdgeKinds THEN 2 ELSE 1
Rank == [require |-> 1, before |-> 2, notify |-> 3, subscribe |-> 4, autorequire |-> 5]

\* Who applies a resource: a C provider with a refresh function (exec,
\* service), a C provider without one, a Ruby provider, or nobody.
ProviderKinds == {"refreshable", "plain", "ruby", "none"}

\* form tells how far the JSON text can be read: not at all (or not an
\* object), an object without a resources array, or a catalog.
IsCatalog(c) ==
    /\ c.form \in {"unreadable", "no_resources", "catalog"}
    /\ c.keys \in Seq(Keys \cup {NoKey})
    /\ c.providers \in [1..Len(c.keys) -> ProviderKinds]
    /\ c.rels \in Seq(Relationships)
    /\ \A k \in DOMAIN c.rels :
          c.rels[k].kind \in MetaKinds =>
             /\ c.rels[k].owner \in 1..Len(c.keys)
             /\ c.rels[k].kind = "autorequire" => c.keys[c.rels[k].owner] # NoKey
    /\ \A k, m \in DOMAIN c.rels : k < m =>
          \/ Visit(c.rels[k]) < Visit(c.rels[m])
          \/ /\ Visit(c.rels[k]) = Visit(c.rels[m])
             /\ Visit(c.rels[k]) # 2 =>
                   \/ c.rels[k].owner < c.rels[m].owner
                   \/ /\ c.rels[k].owner = c.rels[m].owner
                      /\ Rank[c.rels[k].kind] <= Rank[c.rels[m].kind]

ASSUME CatalogsAssumption == \A c \in Catalogs : IsCatalog(c)
ASSUME KeysAssumption == NoKey \notin Keys
ASSUME BoundsAssumption ==
    /\ MaxDeps \in Nat \ {0}
    /\ MaxNotify \in Nat \ {0}
    /\ MaxResources \in Nat \ {0}

VARIABLES
    catalog,        \* the catalog being applied
    noop,           \* ctx->noop
    phase,          \* where catalog_apply is
    cursor,         \* loop index: relationship, scanned entry or position
    deps,           \* entries[i].deps
    notify_targets, \* entries[i].notify_targets
    in_degree,      \* entries[i].in_degree
    queue,          \* Kahn's queue; its first queue_head elements are result[]
    queue_head,
    fallback,       \* the sort returned NULL and the catalog order is used
    sorted_order,
    outcome,        \* result of resource_apply per entry ("none" before)
    changed,        \* entries whose changed flag is set
    needs_refresh,  \* entries whose needs_refresh flag is set
    refreshed,      \* entries on which resource_refresh was called
    changes_made,   \* ctx->changes_made
    failures,       \* ctx->failures
    ret             \* the value catalog_apply returns

inputVars == <<catalog, noop>>
linkVars  == <<deps, notify_targets>>
sortVars  == <<in_degree, queue, queue_head, fallback, sorted_order>>
applyVars == <<outcome, changed, needs_refresh, refreshed, changes_made, failures, ret>>
vars == <<inputVars, phase, cursor, linkVars, sortVars, applyVars>>

Count == Len(catalog.keys)
Idx   == 1..Count
-----------------------------------------------------------------------------
(* The dependency table.                                                   *)

HasResource(i) == catalog.keys[i] # NoKey

\* find_resource_index: the first entry with this identity, 0 when none has.
find_resource_index(key) ==
    LET matches == {i \in Idx : catalog.keys[i] = key}
    IN  IF matches = {} THEN 0
        ELSE CHOOSE i \in matches : \A j \in matches : i <= j

\* Mutant: the edge is recorded on the wrong end.
add_dependency_Reversed(from, to) ==
    IF from = to THEN deps ELSE [deps EXCEPT ![to] = @ \cup {from}]

\* add_dependency: ignore self edges and duplicates; drop the edge silently
\* when every slot is taken.
add_dependency(from, to) ==
    IF from = to \/ Cardinality(deps[from]) >= MaxDeps
    THEN deps
    ELSE [deps EXCEPT ![from] = @ \cup {to}]

\* Mutant: the target is made to notify the source.
add_notify_Reversed(from, to) ==
    IF from = to THEN notify_targets ELSE [notify_targets EXCEPT ![to] = @ \cup {from}]

\* add_notify: the same for the refresh edges.
add_notify(from, to) ==
    IF from = to \/ Cardinality(notify_targets[from]) >= MaxNotify
    THEN notify_targets
    ELSE [notify_targets EXCEPT ![from] = @ \cup {to}]

\* The entry that must wait, the entry it waits for, and whether a change of
\* the latter refreshes the former.
Later(r) ==
    IF r.kind \in {"require", "subscribe", "autorequire"}
    THEN r.owner ELSE find_resource_index(r.ref)

Earlier(r) ==
    CASE r.kind \in {"require", "subscribe", "autorequire"} -> find_resource_index(r.ref)
      [] r.kind \in {"before", "notify"}                    -> r.owner
      [] r.kind \in EdgeKinds                               -> find_resource_index(r.owner)

Refreshes(r) == r.kind \in {"notify", "subscribe", "edge_notify"}

Init ==
    /\ catalog \in Catalogs
    /\ noop \in BOOLEAN
    /\ phase = "parse"
    /\ cursor = 1
    /\ deps = [i \in Idx |-> {}]
    /\ notify_targets = [i \in Idx |-> {}]
    /\ in_degree = [i \in Idx |-> 0]
    /\ queue = <<>>
    /\ queue_head = 0
    /\ fallback = FALSE
    /\ sorted_order = <<>>
    /\ outcome = [i \in Idx |-> "none"]
    /\ changed = {}
    /\ needs_refresh = {}
    /\ refreshed = {}
    /\ changes_made = 0
    /\ failures = 0
    /\ ret = 0

\* The early returns of catalog_apply: unreadable JSON and a catalog with too
\* many resources give -1, a catalog without a resources array gives 0.
Reject ==
    /\ phase = "parse"
    /\ \/ /\ catalog.form = "unreadable"
          /\ ret' = -1
       \/ /\ catalog.form = "no_resources"
          /\ ret' = 0
       \/ /\ catalog.form = "catalog"
          /\ Count > MaxResources
          /\ ret' = -1
    /\ phase' = "done"
    /\ UNCHANGED <<inputVars, cursor, linkVars, sortVars, outcome, changed,
                   needs_refresh, refreshed, changes_made, failures>>

\* Phase 1: every entry is parsed; nothing is linked yet.
ParseResources ==
    /\ phase = "parse"
    /\ catalog.form = "catalog"
    /\ Count <= MaxResources
    /\ phase' = "link"
    /\ cursor' = 1
    /\ UNCHANGED <<inputVars, linkVars, sortVars, applyVars>>

\* One relationship whose kind is in kinds: record it when both ends exist.
Link(kinds) ==
    /\ phase = "link"
    /\ cursor <= Len(catalog.rels)
    /\ LET r == catalog.rels[cursor]
           l == Later(r)
           e == Earlier(r)
       IN  /\ r.kind \in kinds
           /\ deps' = IF l # 0 /\ e # 0 THEN add_dependency(l, e) ELSE deps
           /\ notify_targets' = IF l # 0 /\ e # 0 /\ Refreshes(r)
                                THEN add_notify(e, l) ELSE notify_targets
    /\ cursor' = cursor + 1
    /\ UNCHANGED <<inputVars, phase, sortVars, applyVars>>

\* Phase 2, extract_dependencies: the metaparameters of the entries.
extract_dependencies == Link({"require", "before", "notify", "subscribe"})

\* Phase 2b, extract_edges: the chains of the manifest.
extract_edges == Link(EdgeKinds)

\* Phase 3, add_file_autorequires: a file waits for its parent directory.
add_file_autorequires == Link({"autorequire"})
-----------------------------------------------------------------------------
(* Phase 4: topological_sort, one loop iteration per step.                 *)

\* Mutant: count the entries that wait for i, as a comment in the code first
\* proposes, not the entries i waits for.
StartSort_CountsDependents ==
    /\ phase = "link"
    /\ cursor = Len(catalog.rels) + 1
    /\ in_degree' = [i \in Idx |-> Cardinality({j \in Idx : i \in deps[j]})]
    /\ phase' = "seed"
    /\ cursor' = 1
    /\ UNCHANGED <<inputVars, linkVars, queue, queue_head, fallback, sorted_order, applyVars>>

\* Mutant: in_degree tells whether an entry waits, not for how many others.
StartSort_CountsOnce ==
    /\ phase = "link"
    /\ cursor = Len(catalog.rels) + 1
    /\ in_degree' = [i \in Idx |-> IF deps[i] = {} THEN 0 ELSE 1]
    /\ phase' = "seed"
    /\ cursor' = 1
    /\ UNCHANGED <<inputVars, linkVars, queue, queue_head, fallback, sorted_order, applyVars>>

\* in_degree starts as the number of dependencies.
StartSort ==
    /\ phase = "link"
    /\ cursor = Len(catalog.rels) + 1
    /\ in_degree' = [i \in Idx |-> Cardinality(deps[i])]
    /\ phase' = "seed"
    /\ cursor' = 1
    /\ UNCHANGED <<inputVars, linkVars, queue, queue_head, fallback, sorted_order, applyVars>>

\* Queue the entries that wait for nothing, in catalog order.
SeedQueue ==
    /\ phase = "seed"
    /\ cursor <= Count
    /\ queue' = IF in_degree[cursor] = 0 THEN Append(queue, cursor) ELSE queue
    /\ cursor' = cursor + 1
    /\ UNCHANGED <<inputVars, phase, linkVars, in_degree, queue_head, fallback,
                   sorted_order, applyVars>>

\* Take the next entry off the queue; it goes to result[].
Dequeue ==
    /\ \/ phase = "seed" /\ cursor = Count + 1
       \/ phase = "scan" /\ cursor = Count + 1
    /\ queue_head < Len(queue)
    /\ queue_head' = queue_head + 1
    /\ phase' = "scan"
    /\ cursor' = 1
    /\ UNCHANGED <<inputVars, linkVars, in_degree, queue, fallback, sorted_order, applyVars>>

\* Mutant: an entry is queued again each time a dependency of it is released.
Release_QueuesEarly ==
    /\ phase = "scan"
    /\ cursor <= Count
    /\ IF queue[queue_head] \in deps[cursor]
       THEN /\ in_degree' = [in_degree EXCEPT ![cursor] = @ - 1]
            /\ queue' = Append(queue, cursor)
       ELSE UNCHANGED <<in_degree, queue>>
    /\ cursor' = cursor + 1
    /\ UNCHANGED <<inputVars, phase, linkVars, queue_head, fallback, sorted_order, applyVars>>

\* Release the entries that were waiting for the one just taken.
Release ==
    /\ phase = "scan"
    /\ cursor <= Count
    /\ IF queue[queue_head] \in deps[cursor]
       THEN /\ in_degree' = [in_degree EXCEPT ![cursor] = @ - 1]
            /\ queue' = IF in_degree[cursor] = 1 THEN Append(queue, cursor) ELSE queue
       ELSE UNCHANGED <<in_degree, queue>>
    /\ cursor' = cursor + 1
    /\ UNCHANGED <<inputVars, phase, linkVars, queue_head, fallback, sorted_order, applyVars>>

\* Mutants: the partial result is used although there is a cycle; the catalog
\* order is left zero-based; the apply loop starts at the second position.
FinishSort_With(order, first) ==
    /\ \/ phase = "seed" /\ cursor = Count + 1
       \/ phase = "scan" /\ cursor = Count + 1
    /\ queue_head = Len(queue)
    /\ fallback' = (queue_head # Count)
    /\ sorted_order' = order
    /\ phase' = "apply"
    /\ cursor' = first
    /\ UNCHANGED <<inputVars, linkVars, in_degree, queue, queue_head, applyVars>>
FinishSort_KeepsPartial == FinishSort_With(queue, 1)
FinishSort_ZeroBased ==
    FinishSort_With(IF queue_head = Count THEN queue ELSE [i \in Idx |-> i - 1], 1)
FinishSort_SkipsFirst ==
    FinishSort_With(IF queue_head = Count THEN queue ELSE [i \in Idx |-> i], 2)

\* The queue is exhausted: result[] is the order if it holds every entry;
\* otherwise there is a cycle and catalog_apply uses the catalog order.
FinishSort ==
    /\ \/ phase = "seed" /\ cursor = Count + 1
       \/ phase = "scan" /\ cursor = Count + 1
    /\ queue_head = Len(queue)
    /\ fallback' = (queue_head # Count)
    /\ sorted_order' = IF queue_head = Count THEN queue ELSE [i \in Idx |-> i]
    /\ phase' = "apply"
    /\ cursor' = 1
    /\ UNCHANGED <<inputVars, linkVars, in_degree, queue, queue_head, applyVars>>
-----------------------------------------------------------------------------
(* Phase 5: apply the resources and deliver refreshes.                     *)

\* What resource_apply may return, by provider.
ApplyResults(p) ==
    CASE p = "none" -> {"FAILED"}
      [] p = "ruby" -> IF noop THEN {"NOOP", "FAILED"} ELSE {"SUCCESS", "CHANGED", "FAILED"}
      [] OTHER      -> IF noop THEN {"SUCCESS", "NOOP", "SKIPPED", "FAILED"}
                               ELSE {"SUCCESS", "NOOP", "CHANGED", "FAILED"}

\* What resource_refresh may return, by provider: a C provider without a
\* refresh function has nothing to do.
RefreshResults(p) ==
    CASE p = "none"  -> {"FAILED"}
      [] p = "plain" -> {"NOOP"}
      [] p = "ruby"  -> IF noop THEN {"NOOP", "FAILED"} ELSE {"CHANGED", "FAILED"}
      [] OTHER       -> IF noop THEN {"SKIPPED", "FAILED"} ELSE {"CHANGED", "FAILED"}

\* changed, or would change in noop mode
Changes(result) == result \in {"CHANGED", "SKIPPED"}

Applied == {i \in Idx : outcome[i] # "none"}

\* One iteration of the apply loop on an entry with a resource: apply it, mark
\* what it notifies, refresh it if an earlier entry asked for it (never after
\* a failed apply), and pass the refresh on to targets still to come.
ApplyResource ==
    /\ phase = "apply"
    /\ cursor <= Count
    /\ LET i == sorted_order[cursor]
           p == catalog.providers[i]
       IN  /\ HasResource(i)
           /\ \E res \in ApplyResults(p) :
                LET marked == IF Changes(res) THEN needs_refresh \cup notify_targets[i]
                                              ELSE needs_refresh
                    own == IF Changes(res) THEN changed \cup {i} ELSE changed
                    made == changes_made + (IF res = "CHANGED" THEN 1 ELSE 0)
                IN  /\ outcome' = [outcome EXCEPT ![i] = res]
                    /\ failures' = failures + (IF res = "FAILED" /\ p # "none" THEN 1 ELSE 0)
                    /\ \/ /\ i \in marked /\ res # "FAILED"
                          /\ \E ref \in RefreshResults(p) :
                               /\ refreshed' = refreshed \cup {i}
                               /\ changed' = IF Changes(ref) THEN own \cup {i} ELSE own
                               /\ needs_refresh' = IF Changes(ref)
                                                   THEN marked \cup (notify_targets[i] \ Applied)
                                                   ELSE marked
                               /\ changes_made' = made +
                                     (IF ref = "CHANGED" /\ p = "refreshable" THEN 1 ELSE 0)
                       \/ /\ ~(i \in marked /\ res # "FAILED")
                          /\ changed' = own
                          /\ needs_refresh' = marked
                          /\ changes_made' = made
                          /\ UNCHANGED refreshed
    /\ cursor' = cursor + 1
    /\ UNCHANGED <<inputVars, phase, linkVars, sortVars, ret>>

\* An entry without a resource is passed over.
SkipEntry ==
    /\ phase = "apply"
    /\ cursor <= Count
    /\ ~HasResource(sorted_order[cursor])
    /\ cursor' = cursor + 1
    /\ UNCHANGED <<inputVars, phase, linkVars, sortVars, applyVars>>

\* catalog_apply returns the failure counter of the context.
Return ==
    /\ phase = "apply"
    /\ cursor = Count + 1
    /\ ret' = failures
    /\ phase' = "done"
    /\ UNCHANGED <<inputVars, cursor, linkVars, sortVars, outcome, changed,
                   needs_refresh, refreshed, changes_made, failures>>

Next ==
    \/ Reject \/ ParseResources
    \/ extract_dependencies \/ extract_edges \/ add_file_autorequires
    \/ StartSort \/ SeedQueue \/ Dequeue \/ Release \/ FinishSort
    \/ ApplyResource \/ SkipEntry \/ Return

\* catalog_apply is a single call: it keeps running until it returns.
Spec == Init /\ [][Next]_vars /\ WF_vars(Next)
-----------------------------------------------------------------------------
(* Properties.                                                             *)

Results == {"SUCCESS", "NOOP", "CHANGED", "FAILED", "SKIPPED"}
Phases  == {"parse", "link", "seed", "scan", "apply", "done"}

\* Every variable of catalog_apply keeps its type; in particular the indices
\* stored in deps[], notify_targets[], queue and sorted_order are entries.
TypeOK ==
    /\ IsCatalog(catalog)
    /\ noop \in BOOLEAN
    /\ phase \in Phases
    /\ cursor \in Nat \ {0}
    /\ deps \in [Idx -> SUBSET Idx]
    /\ notify_targets \in [Idx -> SUBSET Idx]
    /\ in_degree \in [Idx -> Int]
    /\ queue \in Seq(Idx)
    /\ queue_head \in 0..Len(queue)
    /\ fallback \in BOOLEAN
    /\ sorted_order \in Seq(Idx)
    /\ outcome \in [Idx -> Results \cup {"none"}]
    /\ changed \in SUBSET Idx
    /\ needs_refresh \in SUBSET Idx
    /\ refreshed \in SUBSET Idx
    /\ changes_made \in Nat
    /\ failures \in Nat
    /\ ret \in Int

Sorted == phase \in {"apply", "done"} /\ sorted_order # <<>>

\* The table has a cycle: some entries all wait for one of themselves.
Cyclic == \E S \in SUBSET Idx : S # {} /\ \A i \in S : deps[i] \cap S # {}

\* The order the apply loop follows visits every entry exactly once, whether
\* the sort succeeded or the catalog order is used.
VisitsEveryEntryOnce ==
    Sorted => /\ Len(sorted_order) = Count
              /\ \A j, k \in Idx : sorted_order[j] = sorted_order[k] => j = k

\* topological_sort puts every entry after all entries of its dependency
\* table, unless it gave up.
DependencyOrder ==
    Sorted /\ ~fallback =>
        \A j, k \in Idx : sorted_order[j] \in deps[sorted_order[k]] => j < k

\* topological_sort gives up exactly when the dependency table has a cycle.
CycleDetection == Sorted => (fallback <=> Cyclic)

\* The unsigned in_degree counter never wraps below zero, and no entry is
\* queued twice, so queue[] never holds more than count entries.
QueueFits ==
    /\ \A i \in Idx : in_degree[i] >= 0
    /\ Len(queue) <= Count
    /\ \A j, k \in DOMAIN queue : queue[j] = queue[k] => j = k

\* What the catalog declares, as opposed to what the tables hold.
Declared == {k \in DOMAIN catalog.rels :
                /\ Later(catalog.rels[k]) # 0
                /\ Earlier(catalog.rels[k]) # 0
                /\ Later(catalog.rels[k]) # Earlier(catalog.rels[k])}
Prerequisites(i) == {Earlier(catalog.rels[k]) : k \in {m \in Declared : Later(catalog.rels[m]) = i}}
Notifies(i) == {Later(catalog.rels[k]) :
                   k \in {m \in Declared : Earlier(catalog.rels[m]) = i /\ Refreshes(catalog.rels[m])}}
Fits == \A i \in Idx : /\ Cardinality(Prerequisites(i)) <= MaxDeps
                       /\ Cardinality(Notifies(i)) <= MaxNotify

\* An entry is applied only after every entry the catalog makes it wait for,
\* provided the relationships fit in the tables and are acyclic.
DeclaredOrder ==
    Sorted /\ ~fallback /\ Fits =>
        \A i \in Applied : \A e \in Prerequisites(i) : HasResource(e) => e \in Applied

\* Whatever changed refreshes everything it notifies: when catalog_apply
\* returns, each target that did not fail has had its refresh called.
RefreshDelivered ==
    phase = "done" /\ Sorted /\ ~fallback /\ Fits =>
        \A i \in changed : \A t \in Notifies(i) :
            HasResource(t) /\ outcome[t] # "FAILED" => t \in refreshed

\* No entry is refreshed unless an entry that notifies it changed (or would
\* have changed in noop mode).
RefreshJustified ==
    \A t \in refreshed : \E i \in changed : t \in Notifies(i)

\* The value returned is the number of resources their provider failed on.
FailuresReturned ==
    phase = "done" /\ Sorted =>
        ret = Cardinality({i \in Idx : outcome[i] = "FAILED" /\ catalog.providers[i] # "none"})

\* catalog_apply returns, and a readable catalog has then had every resource
\* in it applied, cycle or not.
ReturnsHavingAppliedAll ==
    <>[](/\ phase = "done"
         /\ catalog.form = "catalog" /\ Count <= MaxResources =>
               Applied = {i \in Idx : HasResource(i)})

\* What catalog_apply did is accounted for when it returns: each change has reached
\* what it notifies, no refresh came without one, and the value returned counts the
\* failures.
Accounted == RefreshDelivered /\ RefreshJustified /\ FailuresReturned

\* Whatever the tables and the sort do, catalog_apply keeps what OrderedApply
\* promises, for catalogs whose relationships fit in the tables (add_dependency and
\* add_notify drop the others).
Ordered == INSTANCE OrderedApply WITH
    readable  <- catalog.form = "catalog" /\ Count <= MaxResources,
    entries   <- {i \in Idx : HasResource(i)},
    handled   <- {i \in Idx : HasResource(i) /\ catalog.providers[i] # "none"},
    waits_for <- [i \in Idx |-> Prerequisites(i)],
    notifies  <- [i \in Idx |-> Notifies(i)],
    returned  <- phase = "done"
Implements == Ordered!Spec
=============================================================================
