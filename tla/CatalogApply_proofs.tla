------------------------ MODULE CatalogApply_proofs ------------------------
(***************************************************************************)
(* Proofs about CatalogApply, for every set of catalogs and every size of  *)
(* the tables.  The inductive invariant says what Kahn's algorithm has     *)
(* done so far: in_degree[i] counts the dependencies of i not yet taken    *)
(* off the queue (an entry the current scan has not reached yet still      *)
(* counts the entry just taken), the queue holds each entry whose count    *)
(* is zero once, and behind everything that entry waits for.               *)
(***************************************************************************)
EXTENDS CatalogApply, TLAPS, FiniteSetTheorems, SequenceTheorems, WellFoundedInduction

\* A non-empty set of natural numbers has a least element.
LEMMA LeastExists ==
    ASSUME NEW T \in SUBSET Nat, T # {}
    PROVE  \E x \in T : \A y \in T : x <= y
<1>1. PICK x \in T : \A y \in T : ~ (<<y, x>> \in OpToRel(<, Nat))
  BY NatLessThanWellFounded, WFMin
<1>2. ASSUME NEW y \in T PROVE x <= y
  <2>1. ~ (y < x)
    BY <1>1 DEF OpToRel
  <2> QED
    BY <2>1
<1> QED
  BY <1>1, <1>2

\* The tables are indexed by 1..Count, a finite set.
LEMMA CountType ==
    ASSUME IsCatalog(catalog)
    PROVE  /\ Count \in Nat
           /\ IsFiniteSet(Idx)
           /\ Cardinality(Idx) = Count
<1>1. Count \in Nat
  BY DEF IsCatalog, Count
<1> QED
  BY <1>1, FS_Interval DEF Idx

\* find_resource_index yields an index of the table or 0.
LEMMA FindType ==
    ASSUME Count \in Nat, NEW key
    PROVE  find_resource_index(key) \in 0..Count
<1> DEFINE matches == {i \in Idx : catalog.keys[i] = key}
<1>1. CASE matches = {}
  BY <1>1 DEF find_resource_index
<1>2. CASE matches # {}
  <2>1. matches \in SUBSET Nat
    BY DEF Idx
  <2>2. \E i \in matches : \A j \in matches : i <= j
    <3> HIDE DEF matches
    <3> QED BY <1>2, <2>1, LeastExists
  <2>3. find_resource_index(key) = CHOOSE i \in matches : \A j \in matches : i <= j
    BY <1>2 DEF find_resource_index
  <2>4. find_resource_index(key) \in matches
    BY <2>2, <2>3
  <2> QED
    BY <2>4 DEF Idx
<1> QED
  BY <1>1, <1>2

\* Both ends of a relationship of the catalog are indices of the table or 0.
LEMMA EndsType ==
    ASSUME IsCatalog(catalog), NEW k \in 1..Len(catalog.rels)
    PROVE  /\ Later(catalog.rels[k]) \in 0..Count
           /\ Earlier(catalog.rels[k]) \in 0..Count
<1> DEFINE r == catalog.rels[k]
<1>1. Count \in Nat
  BY CountType
<1>2. r \in Relationships /\ k \in DOMAIN catalog.rels
  BY ElementOfSeq, LenProperties DEF IsCatalog
<1>3. r.kind \in MetaKinds \cup EdgeKinds
  BY <1>2 DEF Relationships
<1>4. r.kind \in MetaKinds => r.owner \in 0..Count
  BY <1>1, <1>2 DEF IsCatalog, Count
<1>5. \A key : find_resource_index(key) \in 0..Count
  BY <1>1, FindType
<1> HIDE DEF r
<1>6. Later(r) \in 0..Count
  BY <1>3, <1>4, <1>5 DEF Later, MetaKinds, EdgeKinds
<1>7. Earlier(r) \in 0..Count
  BY <1>3, <1>4, <1>5 DEF Earlier, MetaKinds, EdgeKinds
<1> QED
  BY <1>6, <1>7 DEF r
-----------------------------------------------------------------------------
(* The inductive invariant.                                                *)

\* The first n elements of the queue.
Taken(n) == {queue[k] : k \in 1..n}

\* No entry is queued twice, and every entry is queued behind all entries it
\* waits for.
QueueInv ==
    /\ \A j, k \in 1..Len(queue) : queue[j] = queue[k] => j = k
    /\ \A k \in 1..Len(queue) : deps[queue[k]] \subseteq Taken(k - 1)

\* Before the sort nothing is queued.
StartInv ==
    phase \in {"parse", "link"} =>
        /\ queue = <<>>
        /\ queue_head = 0
        /\ sorted_order = <<>>
        /\ ~fallback

\* The loop that seeds the queue: the entries before the cursor are queued
\* exactly when they wait for nothing.
SeedInv ==
    phase = "seed" =>
        /\ cursor \in 1..(Count + 1)
        /\ queue_head = 0
        /\ \A i \in Idx : in_degree[i] = Cardinality(deps[i])
        /\ \A i \in Idx : i \in Taken(Len(queue)) <=> i < cursor /\ in_degree[i] = 0
        /\ sorted_order = <<>>
        /\ ~fallback

\* The dependencies of entry i that the scan still counts.
Missing(i) == deps[i] \ Taken(IF i < cursor THEN queue_head ELSE queue_head - 1)

\* The loop that releases entries.
ScanInv ==
    phase = "scan" =>
        /\ cursor \in 1..(Count + 1)
        /\ queue_head \in 1..Len(queue)
        /\ \A i \in Idx : in_degree[i] = Cardinality(Missing(i))
        /\ \A i \in Idx : i \in Taken(Len(queue)) <=> in_degree[i] = 0
        /\ sorted_order = <<>>
        /\ ~fallback

\* The order that is applied: result[] when it is complete, else the order of
\* the catalog, and then some entries wait for each other.
OrderInv ==
    /\ phase = "apply" => cursor \in 1..(Count + 1) /\ Len(sorted_order) = Count
    /\ phase \in {"apply", "done"} /\ sorted_order # <<>> =>
          \/ /\ ~fallback
             /\ sorted_order = queue
             /\ Len(queue) = Count
          \/ /\ fallback
             /\ sorted_order = [i \in Idx |-> i]
             /\ Cyclic

IndInv ==
    /\ TypeOK
    /\ \A i \in Idx : in_degree[i] >= 0
    /\ QueueInv /\ StartInv /\ SeedInv /\ ScanInv /\ OrderInv
-----------------------------------------------------------------------------
(* Type correctness.                                                       *)

\* The tables catalog_apply allocates (calloc of the entries) are well typed.
LEMMA InitTypeOK == Init => TypeOK
<1> SUFFICES ASSUME Init PROVE TypeOK
  OBVIOUS
<1>1. IsCatalog(catalog)
  BY CatalogsAssumption DEF Init
<1>2. /\ deps \in [Idx -> SUBSET Idx]
      /\ notify_targets \in [Idx -> SUBSET Idx]
      /\ in_degree \in [Idx -> Int]
      /\ outcome \in [Idx -> Results \cup {"none"}]
  BY DEF Init
<1>3. queue \in Seq(Idx) /\ sorted_order \in Seq(Idx) /\ queue_head \in 0..Len(queue)
  BY DEF Init
<1>4. noop \in BOOLEAN /\ fallback \in BOOLEAN
  BY DEF Init
<1> QED
  BY <1>1, <1>2, <1>3, <1>4 DEF Init, TypeOK, Phases

\* Recording a relationship keeps the tables inside the catalog.
LEMMA LinkTypeOK ==
    ASSUME TypeOK, NEW kinds, Link(kinds)
    PROVE  TypeOK'
<1> DEFINE r == catalog.rels[cursor]
           l == Later(r)
           e == Earlier(r)
<1>1. cursor \in 1..Len(catalog.rels)
  BY DEF TypeOK, Link, IsCatalog
<1>2. IsCatalog(catalog) /\ Count \in Nat
  BY CountType DEF TypeOK
<1>3. l \in 0..Count /\ e \in 0..Count
  BY <1>1, <1>2, EndsType
<1>4. /\ deps' = IF l # 0 /\ e # 0 THEN add_dependency(l, e) ELSE deps
      /\ notify_targets' = IF l # 0 /\ e # 0 /\ Refreshes(r)
                           THEN add_notify(e, l) ELSE notify_targets
      /\ cursor' = cursor + 1
      /\ UNCHANGED <<inputVars, phase, sortVars, applyVars>>
  BY DEF Link
<1> HIDE DEF r, l, e
<1>5. l # 0 /\ e # 0 => l \in Idx /\ e \in Idx
  BY <1>2, <1>3 DEF Idx
<1>6. catalog' = catalog /\ Count' = Count /\ Idx' = Idx
  BY <1>4 DEF inputVars, Count, Idx
<1>7. deps' \in [Idx -> SUBSET Idx]
  BY <1>4, <1>5 DEF TypeOK, add_dependency
<1>8. notify_targets' \in [Idx -> SUBSET Idx]
  BY <1>4, <1>5 DEF TypeOK, add_notify
<1>9. cursor' \in Nat \ {0}
  BY <1>4 DEF TypeOK
<1> QED
  BY <1>4, <1>6, <1>7, <1>8, <1>9 DEF TypeOK, inputVars, sortVars, applyVars

\* Every step keeps the types, provided the scan has an entry at hand and the
\* apply loop an order that covers the catalog.
LEMMA StepTypeOK ==
    ASSUME TypeOK, ScanInv, OrderInv, [Next]_vars
    PROVE  TypeOK'
<1> USE DEF TypeOK
<1>0. Count \in Nat /\ IsFiniteSet(Idx)
  BY CountType
<1>1. CASE Reject
  BY <1>1 DEF Reject, inputVars, linkVars, sortVars, Phases, Count, Idx
<1>2. CASE ParseResources
  BY <1>2 DEF ParseResources, inputVars, linkVars, sortVars, applyVars, Phases, Count, Idx
<1>3. CASE extract_dependencies \/ extract_edges \/ add_file_autorequires
  BY <1>3, LinkTypeOK DEF extract_dependencies, extract_edges, add_file_autorequires
<1>4. CASE StartSort
  <2>1. \A i \in Idx : Cardinality(deps[i]) \in Nat
    BY <1>0, FS_Subset, FS_CardinalityType
  <2>2. in_degree' \in [Idx -> Int]
    BY <1>4, <2>1 DEF StartSort
  <2> QED
    BY <1>4, <2>2 DEF StartSort, inputVars, linkVars, applyVars, Phases, Count, Idx
<1>5. CASE SeedQueue
  <2>1. cursor \in Idx
    BY <1>0, <1>5 DEF SeedQueue, Idx
  <2>2. queue' \in Seq(Idx) /\ queue_head \in 0..Len(queue')
    BY <1>5, <2>1 DEF SeedQueue
  <2> QED
    BY <1>5, <2>2 DEF SeedQueue, inputVars, linkVars, applyVars, Phases, Count, Idx
<1>6. CASE Dequeue
  BY <1>6 DEF Dequeue, inputVars, linkVars, applyVars, Phases, Count, Idx
<1>7. CASE Release
  <2>1. cursor \in Idx
    BY <1>0, <1>7 DEF Release, Idx
  <2>2. queue' = queue \/ queue' = Append(queue, cursor)
    BY <1>7 DEF Release
  <2>3. queue \in Seq(Idx) /\ queue_head \in 0..Len(queue) /\ cursor \in Nat \ {0}
    OBVIOUS
  <2>4. queue' \in Seq(Idx) /\ queue_head \in 0..Len(queue')
    <3> HIDE DEF TypeOK
    <3>1. CASE queue' = queue
      BY <2>3, <3>1
    <3>2. CASE queue' = Append(queue, cursor)
      BY <2>1, <2>3, <3>2
    <3> QED
      BY <2>2, <3>1, <3>2
  <2>5. in_degree' \in [Idx -> Int]
    BY <1>7, <2>1 DEF Release
  <2>6. /\ UNCHANGED <<inputVars, phase, linkVars, queue_head, fallback, sorted_order, applyVars>>
        /\ cursor' \in Nat \ {0}
    BY <1>7, <2>3 DEF Release
  <2>7. Idx' = Idx /\ IsCatalog(catalog)'
    BY <2>6 DEF inputVars, Count, Idx
  <2> QED
    BY <2>4, <2>5, <2>6, <2>7 DEF inputVars, linkVars, applyVars
<1>8. CASE FinishSort
  <2>1. [i \in Idx |-> i] \in Seq(Idx)
    BY <1>0 DEF Idx
  <2>2. sorted_order' \in Seq(Idx)
    BY <1>8, <2>1 DEF FinishSort
  <2>3. fallback' \in BOOLEAN
    BY <1>8 DEF FinishSort
  <2> QED
    BY <1>8, <2>2, <2>3 DEF FinishSort, inputVars, linkVars, applyVars, Phases, Count, Idx
<1>9. CASE ApplyResource
  <2> DEFINE i == sorted_order[cursor]
             p == catalog.providers[i]
             marked(res) == IF Changes(res) THEN needs_refresh \cup notify_targets[i]
                                            ELSE needs_refresh
             own(res) == IF Changes(res) THEN changed \cup {i} ELSE changed
             made(res) == changes_made + (IF res = "CHANGED" THEN 1 ELSE 0)
  <2>1. i \in Idx
    <3> HIDE DEF TypeOK
    <3>1. phase = "apply" /\ cursor <= Count
      BY <1>9 DEF ApplyResource
    <3>2. sorted_order \in Seq(Idx) /\ cursor \in Nat \ {0}
      BY DEF TypeOK
    <3>3. Len(sorted_order) = Count
      BY <3>1 DEF OrderInv
    <3> QED
      BY <1>0, <3>1, <3>2, <3>3
  <2>2. p \in ProviderKinds
    BY <2>1 DEF IsCatalog, Idx, Count
  <2>3. PICK res \in ApplyResults(p) :
           /\ outcome' = [outcome EXCEPT ![i] = res]
           /\ failures' = failures + (IF res = "FAILED" /\ p # "none" THEN 1 ELSE 0)
           /\ \/ \E ref \in RefreshResults(p) :
                   /\ refreshed' = refreshed \cup {i}
                   /\ changed' = IF Changes(ref) THEN own(res) \cup {i} ELSE own(res)
                   /\ needs_refresh' = IF Changes(ref)
                                       THEN marked(res) \cup (notify_targets[i] \ Applied)
                                       ELSE marked(res)
                   /\ changes_made' = made(res) +
                         (IF ref = "CHANGED" /\ p = "refreshable" THEN 1 ELSE 0)
              \/ /\ changed' = own(res)
                 /\ needs_refresh' = marked(res)
                 /\ changes_made' = made(res)
                 /\ UNCHANGED refreshed
    BY <1>9 DEF ApplyResource
  <2>4. /\ cursor' = cursor + 1
        /\ UNCHANGED <<inputVars, phase, linkVars, sortVars, ret>>
    BY <1>9 DEF ApplyResource
  <2> HIDE DEF i, p
  <2>5. res \in Results
    BY <2>2, <2>3 DEF ApplyResults, ProviderKinds, Results
  <2>6. notify_targets[i] \in SUBSET Idx
    BY <2>1
  <2>7. own(res) \in SUBSET Idx /\ marked(res) \in SUBSET Idx /\ made(res) \in Nat
    BY <2>1, <2>6
  <2> HIDE DEF own, marked, made
  <2>8. /\ refreshed' \in SUBSET Idx
        /\ changed' \in SUBSET Idx
        /\ needs_refresh' \in SUBSET Idx
        /\ changes_made' \in Nat
    BY <2>1, <2>3, <2>6, <2>7
  <2>9. outcome' \in [Idx -> Results \cup {"none"}] /\ failures' \in Nat
    BY <2>1, <2>3, <2>5
  <2>10. Idx' = Idx /\ IsCatalog(catalog)'
    BY <2>4 DEF Idx, Count, inputVars
  <2> QED
    BY <2>4, <2>8, <2>9, <2>10 DEF inputVars, linkVars, sortVars
<1>10. CASE SkipEntry
  BY <1>10 DEF SkipEntry, inputVars, linkVars, sortVars, applyVars, Count, Idx
<1>11. CASE Return
  BY <1>11 DEF Return, inputVars, linkVars, sortVars, Phases, Count, Idx
<1>12. CASE UNCHANGED vars
  BY <1>12 DEF vars, inputVars, linkVars, sortVars, applyVars, Count, Idx
<1> QED
  BY <1>1, <1>2, <1>3, <1>4, <1>5, <1>6, <1>7, <1>8, <1>9, <1>10, <1>11, <1>12 DEF Next
-----------------------------------------------------------------------------
(* The sort.                                                               *)

\* The set of dependencies still missing is finite, so that its cardinality
\* counts it.
LEMMA MissingFinite ==
    ASSUME TypeOK, NEW i \in Idx, NEW S
    PROVE  /\ IsFiniteSet(deps[i] \ S)
           /\ Cardinality(deps[i] \ S) \in Nat
           /\ Cardinality(deps[i] \ S) = 0 <=> deps[i] \subseteq S
<1>1. IsFiniteSet(Idx)
  BY CountType DEF TypeOK
<1>2. deps[i] \ S \in SUBSET Idx
  BY DEF TypeOK
<1>3. IsFiniteSet(deps[i] \ S)
  BY <1>1, <1>2, FS_Subset
<1>4. Cardinality(deps[i] \ S) = 0 <=> deps[i] \ S = {}
  BY <1>3, FS_EmptySet
<1> QED
  BY <1>3, <1>4, FS_CardinalityType

\* Queueing an entry that is not queued yet, and that waits only for queued
\* entries, keeps the queue in order.
LEMMA QueueAppend ==
    ASSUME TypeOK, QueueInv, NEW i \in Idx, i \notin Taken(Len(queue)),
           deps[i] \subseteq Taken(Len(queue)),
           queue' = Append(queue, i), deps' = deps
    PROVE  /\ QueueInv'
           /\ \A n \in 0..Len(queue) : Taken(n)' = Taken(n)
           /\ Taken(Len(queue))' = Taken(Len(queue)) \cup {i}
           /\ Len(queue') = Len(queue) + 1
<1>1. /\ Len(queue) \in Nat
      /\ Len(queue') = Len(queue) + 1
      /\ \A k \in 1..Len(queue) : queue'[k] = queue[k]
      /\ queue'[Len(queue) + 1] = i
  BY DEF TypeOK
<1>2. \A n \in 0..Len(queue) : Taken(n)' = Taken(n)
  <2> SUFFICES ASSUME NEW n \in 0..Len(queue) PROVE Taken(n)' = Taken(n)
    OBVIOUS
  <2>1. \A k \in 1..n : queue'[k] = queue[k]
    BY <1>1
  <2> QED
    BY <2>1 DEF Taken
<1>3. Taken(Len(queue))' = Taken(Len(queue)) \cup {i}
  BY <1>1 DEF Taken
<1>4. ASSUME NEW j \in 1..Len(queue'), NEW k \in 1..Len(queue'), queue'[j] = queue'[k]
      PROVE  j = k
  <2>1. \A m \in 1..Len(queue) : queue[m] # i
    BY DEF Taken
  <2>2. CASE j = Len(queue) + 1 \/ k = Len(queue) + 1
    BY <1>1, <1>4, <2>1, <2>2
  <2>3. CASE j # Len(queue) + 1 /\ k # Len(queue) + 1
    <3>1. j \in 1..Len(queue) /\ k \in 1..Len(queue)
      BY <1>1, <2>3
    <3> QED
      BY <1>1, <1>4, <3>1 DEF QueueInv
  <2> QED
    BY <2>2, <2>3
<1>5. ASSUME NEW k \in 1..Len(queue') PROVE deps'[queue'[k]] \subseteq Taken(k - 1)'
  <2>1. CASE k = Len(queue) + 1
    BY <1>1, <1>2, <2>1
  <2>2. CASE k # Len(queue) + 1
    <3>1. k \in 1..Len(queue) /\ k - 1 \in 0..Len(queue)
      BY <1>1, <2>2
    <3>2. deps[queue[k]] \subseteq Taken(k - 1)
      BY <3>1 DEF QueueInv
    <3> QED
      BY <1>1, <1>2, <3>1, <3>2
  <2> QED
    BY <2>1, <2>2
<1> QED
  BY <1>1, <1>2, <1>3, <1>4, <1>5 DEF QueueInv

SortParts == /\ \A i \in Idx : in_degree[i] >= 0
             /\ QueueInv /\ StartInv /\ SeedInv /\ ScanInv /\ OrderInv

\* Whatever leaves the tables and the sort alone and stays in the apply loop,
\* or leaves it, keeps the parts of the invariant about the sort.
LEMMA AfterSort ==
    ASSUME IndInv, phase \in {"apply", "done"}, phase' \in {"apply", "done"},
           phase' = "apply" => phase = "apply" /\ cursor' \in 1..(Count + 1),
           UNCHANGED <<catalog, deps, in_degree, queue, queue_head, fallback, sorted_order>>
    PROVE  SortParts'
<1>1. Count' = Count /\ Idx' = Idx
  BY DEF Count, Idx
<1>2. (\A i \in Idx : in_degree[i] >= 0)'
  BY <1>1 DEF IndInv
<1>3. QueueInv'
  BY DEF IndInv, QueueInv, Taken
<1>4. StartInv' /\ SeedInv' /\ ScanInv'
  BY DEF StartInv, SeedInv, ScanInv
<1>5. OrderInv'
  BY <1>1 DEF IndInv, OrderInv, Cyclic
<1> QED
  BY <1>2, <1>3, <1>4, <1>5 DEF SortParts

\* Until the sort starts the queue is empty, whatever the tables become.
LEMMA BeforeSort ==
    ASSUME IndInv, TypeOK', phase \in {"parse", "link"}, phase' \in {"parse", "link", "done"},
           UNCHANGED <<catalog, in_degree, queue, queue_head, fallback, sorted_order>>
    PROVE  SortParts'
<1>1. Count' = Count /\ Idx' = Idx
  BY DEF Count, Idx
<1>2. (\A i \in Idx : in_degree[i] >= 0)'
  BY <1>1 DEF IndInv
<1>3. queue = <<>> /\ queue_head = 0 /\ sorted_order = <<>> /\ ~fallback
  BY DEF IndInv, StartInv
<1>4. QueueInv'
  BY <1>3 DEF QueueInv
<1>5. StartInv' /\ SeedInv' /\ ScanInv' /\ OrderInv'
  BY <1>3 DEF StartInv, SeedInv, ScanInv, OrderInv
<1> QED
  BY <1>2, <1>4, <1>5 DEF SortParts

\* Once in_degree counts the dependencies, seeding can start: nothing is
\* queued and every dependency is still missing.
LEMMA StartSortStep ==
    ASSUME IndInv, StartSort
    PROVE  SortParts'
<1>1. /\ Count' = Count /\ Idx' = Idx
      /\ UNCHANGED <<deps, queue, queue_head, fallback, sorted_order>>
      /\ phase = "link" /\ phase' = "seed" /\ cursor' = 1
      /\ in_degree' = [i \in Idx |-> Cardinality(deps[i])]
  BY DEF StartSort, Count, Idx, inputVars, linkVars
<1>2. queue = <<>> /\ queue_head = 0 /\ sorted_order = <<>> /\ ~fallback
  BY <1>1 DEF IndInv, StartInv
<1>3. Count \in Nat
  BY CountType DEF IndInv, TypeOK
<1>4. \A i \in Idx : Cardinality(deps[i]) \in Nat
  <2> SUFFICES ASSUME NEW i \in Idx PROVE Cardinality(deps[i]) \in Nat
    OBVIOUS
  <2>1. Cardinality(deps[i] \ {}) \in Nat
    BY MissingFinite DEF IndInv
  <2>2. deps[i] \ {} = deps[i]
    OBVIOUS
  <2> QED
    BY <2>1, <2>2
<1>5. (\A i \in Idx : in_degree[i] >= 0)'
  BY <1>1, <1>4
<1>6. QueueInv'
  BY <1>1, <1>2 DEF QueueInv
<1>7. Taken(Len(queue))' = {}
  BY <1>1, <1>2 DEF Taken
<1>8. SeedInv'
  <2>1. \A i \in Idx : ~(i < 1)
    BY <1>3 DEF Idx
  <2> QED
    BY <1>1, <1>2, <1>3, <1>7, <2>1 DEF SeedInv
<1>9. StartInv' /\ ScanInv' /\ OrderInv'
  BY <1>1 DEF StartInv, ScanInv, OrderInv
<1> QED
  BY <1>5, <1>6, <1>8, <1>9 DEF SortParts

\* An entry whose in_degree is 0 has no dependency, so queueing it keeps the
\* queue in dependency order.
LEMMA SeedQueueStep ==
    ASSUME IndInv, SeedQueue
    PROVE  SortParts'
<1>1. /\ Count' = Count /\ Idx' = Idx
      /\ UNCHANGED <<deps, in_degree, queue_head, fallback, sorted_order>>
      /\ phase = "seed" /\ phase' = "seed" /\ cursor' = cursor + 1
      /\ cursor <= Count
      /\ queue' = IF in_degree[cursor] = 0 THEN Append(queue, cursor) ELSE queue
  BY DEF SeedQueue, Count, Idx, inputVars, linkVars
<1>2. Count \in Nat /\ cursor \in Idx /\ TypeOK
  BY <1>1, CountType DEF IndInv, TypeOK, Idx
<1>3. /\ queue_head = 0
      /\ \A i \in Idx : in_degree[i] = Cardinality(deps[i])
      /\ \A i \in Idx : i \in Taken(Len(queue)) <=> i < cursor /\ in_degree[i] = 0
      /\ sorted_order = <<>>
      /\ ~fallback
  BY <1>1 DEF IndInv, SeedInv
<1>4. (\A i \in Idx : in_degree[i] >= 0)' /\ StartInv' /\ ScanInv' /\ OrderInv'
  BY <1>1 DEF IndInv, StartInv, ScanInv, OrderInv
<1>5. \A i \in Idx : i < cursor' <=> i < cursor \/ i = cursor
  BY <1>1, <1>2 DEF Idx
<1>6. cursor' \in 1..(Count + 1)
  BY <1>1, <1>2 DEF Idx
<1>7. CASE in_degree[cursor] = 0
  <2>1. cursor \notin Taken(Len(queue))
    BY <1>2, <1>3 DEF Idx
  <2>2. deps[cursor] \subseteq Taken(Len(queue))
    <3>1. Cardinality(deps[cursor] \ {}) = 0 <=> deps[cursor] \subseteq {}
      BY <1>2, MissingFinite
    <3>2. deps[cursor] \ {} = deps[cursor]
      OBVIOUS
    <3> QED
      BY <1>2, <1>3, <1>7, <3>1, <3>2
  <2>3. /\ QueueInv'
        /\ Taken(Len(queue))' = Taken(Len(queue)) \cup {cursor}
    BY <1>1, <1>2, <1>7, <2>1, <2>2, QueueAppend DEF IndInv
  <2>4. SeedInv'
    BY <1>1, <1>3, <1>5, <1>6, <1>7, <2>3 DEF SeedInv
  <2> QED
    BY <1>4, <2>3, <2>4 DEF SortParts
<1>8. CASE in_degree[cursor] # 0
  <2>1. QueueInv' /\ Taken(Len(queue))' = Taken(Len(queue))
    BY <1>1, <1>8 DEF IndInv, QueueInv, Taken
  <2>2. SeedInv'
    BY <1>1, <1>3, <1>5, <1>6, <1>8, <2>1 DEF SeedInv
  <2> QED
    BY <1>4, <2>1, <2>2 DEF SortParts
<1> QED
  BY <1>7, <1>8

\* When every entry has been scanned against the previous head, the next head
\* starts with in_degree exact for all entries.
LEMMA DequeueStep ==
    ASSUME IndInv, Dequeue
    PROVE  SortParts'
<1>1. /\ Count' = Count /\ Idx' = Idx
      /\ UNCHANGED <<deps, in_degree, queue, fallback, sorted_order>>
      /\ phase \in {"seed", "scan"} /\ cursor = Count + 1
      /\ phase' = "scan" /\ cursor' = 1
      /\ queue_head < Len(queue) /\ queue_head' = queue_head + 1
  BY DEF Dequeue, Count, Idx, inputVars, linkVars
<1>2. Count \in Nat /\ TypeOK
  BY CountType DEF IndInv, TypeOK
<1>3. \A i \in Idx : i < cursor /\ ~(i < cursor')
  BY <1>1, <1>2 DEF Idx
<1>4. (\A i \in Idx : in_degree[i] >= 0)' /\ StartInv' /\ SeedInv' /\ OrderInv'
  BY <1>1 DEF IndInv, StartInv, SeedInv, OrderInv
<1>5. QueueInv' /\ (\A n \in Nat : Taken(n)' = Taken(n)) /\ Taken(Len(queue))' = Taken(Len(queue))
  BY <1>1 DEF IndInv, QueueInv, Taken
<1>6. sorted_order = <<>> /\ ~fallback
  BY <1>1 DEF IndInv, SeedInv, ScanInv
<1>7. \A i \in Idx : i \in Taken(Len(queue)) <=> in_degree[i] = 0
  BY <1>1, <1>3 DEF IndInv, SeedInv, ScanInv
<1>8. queue_head \in Nat /\ queue_head' \in 1..Len(queue) /\ queue_head' - 1 = queue_head
  BY <1>1, <1>2 DEF TypeOK
<1>9. ASSUME NEW i \in Idx PROVE in_degree[i] = Cardinality(deps[i] \ Taken(queue_head))
  <2>1. CASE phase = "seed"
    <3>1. Taken(queue_head) = {}
      BY <2>1 DEF IndInv, SeedInv, Taken
    <3>2. deps[i] \ Taken(queue_head) = deps[i]
      BY <3>1
    <3> QED
      BY <2>1, <3>2 DEF IndInv, SeedInv
  <2>2. CASE phase = "scan"
    BY <1>3, <2>2 DEF IndInv, ScanInv, Missing
  <2> QED
    BY <1>1, <2>1, <2>2
<1>10. ScanInv'
  <2>1. ASSUME NEW i \in Idx PROVE Missing(i)' = deps[i] \ Taken(queue_head)
    BY <1>1, <1>3, <1>8 DEF Missing, Taken
  <2>2. \A i \in Idx : in_degree'[i] = Cardinality(Missing(i)')
    BY <1>1, <1>9, <2>1
  <2> QED
    BY <1>1, <1>2, <1>5, <1>6, <1>7, <1>8, <2>2 DEF ScanInv
<1> QED
  BY <1>4, <1>5, <1>10 DEF SortParts

\* Scanning one entry against the head lowers its in_degree by exactly the
\* dependency that was taken, and queues it when none is left.
LEMMA ReleaseStep ==
    ASSUME IndInv, Release
    PROVE  SortParts'
<1> DEFINE q == queue[queue_head]
<1>1. /\ Count' = Count /\ Idx' = Idx
      /\ UNCHANGED <<deps, queue_head, fallback, sorted_order>>
      /\ phase = "scan" /\ phase' = "scan" /\ cursor <= Count /\ cursor' = cursor + 1
  BY DEF Release, Count, Idx, inputVars, linkVars
<1>2. /\ q \in deps[cursor] =>
           /\ in_degree' = [in_degree EXCEPT ![cursor] = @ - 1]
           /\ queue' = IF in_degree[cursor] = 1 THEN Append(queue, cursor) ELSE queue
      /\ q \notin deps[cursor] => in_degree' = in_degree /\ queue' = queue
  BY DEF Release
<1>3. Count \in Nat /\ cursor \in Idx /\ TypeOK /\ QueueInv
  BY <1>1, CountType DEF IndInv, TypeOK, Idx
<1>4. /\ queue_head \in 1..Len(queue)
      /\ \A i \in Idx : in_degree[i] = Cardinality(Missing(i))
      /\ \A i \in Idx : i \in Taken(Len(queue)) <=> in_degree[i] = 0
      /\ sorted_order = <<>> /\ ~fallback
  BY <1>1 DEF IndInv, ScanInv
<1>5. /\ Len(queue) \in Nat /\ queue_head - 1 \in 0..Len(queue)
      /\ queue_head \in 0..Len(queue)
  BY <1>3, <1>4 DEF TypeOK
<1>6. q \notin Taken(queue_head - 1) /\ Taken(queue_head) = Taken(queue_head - 1) \cup {q}
  BY <1>3, <1>4, <1>5 DEF QueueInv, Taken
<1>7. Taken(queue_head) \subseteq Taken(Len(queue))
  BY <1>4, <1>5 DEF Taken
<1>8. Missing(cursor) = deps[cursor] \ Taken(queue_head - 1)
  BY <1>3 DEF Missing, Idx
<1>9. cursor' \in 1..(Count + 1)
  BY <1>1, <1>3 DEF Idx
<1>10. StartInv' /\ SeedInv' /\ OrderInv'
  BY <1>1 DEF StartInv, SeedInv, OrderInv
<1> HIDE DEF q
<1>11. ASSUME \A n \in 0..Len(queue) : Taken(n)' = Taken(n), NEW i \in Idx
       PROVE  Missing(i)' = IF i = cursor THEN deps[i] \ Taken(queue_head) ELSE Missing(i)
  <2>1. Taken(queue_head)' = Taken(queue_head) /\ Taken(queue_head - 1)' = Taken(queue_head - 1)
    <3>1. \A n \in {queue_head, queue_head - 1} : {queue'[k] : k \in 1..n} = {queue[k] : k \in 1..n}
      BY <1>5, <1>11 DEF Taken
    <3> QED
      BY <1>1, <3>1 DEF Taken
  <2>2. i < cursor' <=> i < cursor \/ i = cursor
    BY <1>1, <1>3 DEF Idx
  <2>3. CASE i = cursor
    BY <1>1, <2>1, <2>2, <2>3 DEF Missing
  <2>4. CASE i # cursor
    <3>1. (i < cursor)' <=> i < cursor
      BY <2>2, <2>4
    <3>2. CASE i < cursor
      BY <1>1, <2>1, <2>4, <3>1, <3>2 DEF Missing
    <3>3. CASE ~(i < cursor)
      BY <1>1, <2>1, <2>4, <3>1, <3>3 DEF Missing
    <3> QED
      BY <3>2, <3>3
  <2> QED
    BY <2>3, <2>4
<1>12. CASE q \notin deps[cursor]
  <2>1. queue' = queue /\ in_degree' = in_degree
    BY <1>2, <1>12
  <2>2. QueueInv' /\ (\A n \in 0..Len(queue) : Taken(n)' = Taken(n))
                  /\ Taken(Len(queue))' = Taken(Len(queue))
    BY <1>1, <1>3, <2>1 DEF QueueInv, Taken
  <2>3. deps[cursor] \ Taken(queue_head) = Missing(cursor)
    BY <1>6, <1>8, <1>12
  <2>4. \A i \in Idx : Missing(i)' = Missing(i)
    BY <1>11, <2>2, <2>3
  <2>5. ScanInv'
    BY <1>1, <1>4, <1>9, <2>1, <2>2, <2>4 DEF ScanInv
  <2> QED
    BY <1>1, <1>10, <2>1, <2>2, <2>5 DEF SortParts, IndInv
<1>13. CASE q \in deps[cursor]
  <2>1. in_degree' = [in_degree EXCEPT ![cursor] = @ - 1]
    BY <1>2, <1>13
  <2>2. deps[cursor] \ Taken(queue_head) = Missing(cursor) \ {q}
    BY <1>6, <1>8
  <2>3. Cardinality(Missing(cursor) \ {q}) = Cardinality(Missing(cursor)) - 1
    <3>1. IsFiniteSet(Missing(cursor))
      BY <1>3, <1>8, MissingFinite
    <3>2. q \in Missing(cursor)
      BY <1>6, <1>8, <1>13
    <3> QED
      BY <3>1, <3>2, FS_RemoveElement
  <2>4. Cardinality(Missing(cursor) \ {q}) \in Nat
    BY <1>3, <2>2, MissingFinite
  <2>5. in_degree[cursor] >= 1 /\ in_degree[cursor] \in Int
    BY <1>3, <1>4, <2>3, <2>4 DEF TypeOK
  <2>6. (\A i \in Idx : in_degree[i] >= 0)'
    BY <1>1, <1>3, <2>1, <2>5 DEF IndInv, TypeOK
  <2>7. \A i \in Idx : in_degree'[i] = IF i = cursor THEN in_degree[i] - 1 ELSE in_degree[i]
    BY <1>3, <2>1 DEF TypeOK
  <2>8. cursor \notin Taken(Len(queue))
    BY <1>3, <1>4, <2>5
  <2>9. CASE in_degree[cursor] = 1
    <3>1. queue' = Append(queue, cursor)
      BY <1>2, <1>13, <2>9
    <3>2. deps[cursor] \subseteq Taken(Len(queue))
      <4>1. Cardinality(deps[cursor] \ Taken(queue_head)) = 0
        <5>1. Cardinality(Missing(cursor)) = 1
          BY <1>3, <1>4, <2>9
        <5>2. Cardinality(Missing(cursor) \ {q}) = 0
          BY <2>3, <5>1
        <5> QED
          BY <2>2, <5>2
      <4>2. deps[cursor] \subseteq Taken(queue_head)
        BY <1>3, <4>1, MissingFinite
      <4> QED
        BY <1>7, <4>2
    <3>3. /\ QueueInv'
          /\ \A n \in 0..Len(queue) : Taken(n)' = Taken(n)
          /\ Taken(Len(queue))' = Taken(Len(queue)) \cup {cursor}
          /\ Len(queue') = Len(queue) + 1
      BY <1>1, <1>3, <2>8, <3>1, <3>2, QueueAppend
    <3>4. \A i \in Idx : in_degree'[i] = Cardinality(Missing(i)')
      BY <1>4, <1>11, <2>2, <2>3, <2>7, <3>3
    <3>5. \A i \in Idx : i \in Taken(Len(queue))' <=> in_degree'[i] = 0
      BY <1>4, <2>7, <2>9, <3>3
    <3>6. queue_head' \in 1..Len(queue')
      BY <1>1, <1>4, <1>5, <3>3
    <3>7. ScanInv'
      BY <1>1, <1>4, <1>9, <3>4, <3>5, <3>6 DEF ScanInv
    <3> QED
      BY <1>10, <2>6, <3>3, <3>7 DEF SortParts
  <2>10. CASE in_degree[cursor] # 1
    <3>1. queue' = queue
      BY <1>2, <1>13, <2>10
    <3>2. QueueInv' /\ (\A n \in 0..Len(queue) : Taken(n)' = Taken(n))
                    /\ Taken(Len(queue))' = Taken(Len(queue))
      BY <1>1, <1>3, <3>1 DEF QueueInv, Taken
    <3>3. \A i \in Idx : in_degree'[i] = Cardinality(Missing(i)')
      BY <1>4, <1>11, <2>2, <2>3, <2>7, <3>2
    <3>4. \A i \in Idx : i \in Taken(Len(queue))' <=> in_degree'[i] = 0
      BY <1>3, <1>4, <2>5, <2>7, <2>10, <3>2
    <3>5. ScanInv'
      BY <1>1, <1>4, <1>9, <3>1, <3>3, <3>4 DEF ScanInv
    <3> QED
      BY <1>10, <2>6, <3>2, <3>5 DEF SortParts
  <2> QED
    BY <2>9, <2>10
<1> QED
  BY <1>12, <1>13

\* A queue without repetitions is never longer than the catalog, and when it
\* is shorter some entry is missing from it.
LEMMA QueueLength ==
    ASSUME TypeOK, QueueInv
    PROVE  /\ Len(queue) <= Count
           /\ Len(queue) # Count => \E i \in Idx : i \notin Taken(Len(queue))
<1>1. Count \in Nat /\ IsFiniteSet(Idx) /\ Cardinality(Idx) = Count
  BY CountType DEF TypeOK
<1>2. Len(queue) \in Nat /\ queue \in [1..Len(queue) -> Idx]
  BY LenProperties DEF TypeOK
<1>3. Cardinality(1..Len(queue)) = Len(queue) /\ IsFiniteSet(1..Len(queue))
  BY <1>2, FS_Interval
<1>4. queue \in Injection(1..Len(queue), Idx)
  BY <1>2 DEF QueueInv, Injection, IsInjective
<1>5. /\ Len(queue) <= Count
      /\ Len(queue) = Count <=> queue \in Surjection(1..Len(queue), Idx)
  BY <1>1, <1>3, <1>4, FS_Injection
<1>6. ASSUME Idx \subseteq Taken(Len(queue)) PROVE queue \in Surjection(1..Len(queue), Idx)
  BY <1>2, <1>6 DEF Taken, Surjection
<1> QED
  BY <1>5, <1>6

\* When the queue is exhausted, either it holds every entry or the entries it
\* does not hold form a cycle; the order chosen covers the catalog either way.
LEMMA FinishSortStep ==
    ASSUME IndInv, FinishSort
    PROVE  SortParts'
<1>1. /\ Count' = Count /\ Idx' = Idx
      /\ UNCHANGED <<deps, in_degree, queue, queue_head>>
      /\ phase \in {"seed", "scan"} /\ cursor = Count + 1 /\ queue_head = Len(queue)
      /\ phase' = "apply" /\ cursor' = 1
      /\ fallback' = (queue_head # Count)
      /\ sorted_order' = IF queue_head = Count THEN queue ELSE [i \in Idx |-> i]
  BY DEF FinishSort, Count, Idx, inputVars, linkVars
<1>2. Count \in Nat /\ TypeOK /\ QueueInv
  BY CountType DEF IndInv, TypeOK
<1>3. (\A i \in Idx : in_degree[i] >= 0)' /\ StartInv' /\ SeedInv' /\ ScanInv'
  BY <1>1 DEF IndInv, StartInv, SeedInv, ScanInv
<1>4. QueueInv'
  BY <1>1, <1>2 DEF QueueInv, Taken
<1>5. cursor' \in 1..(Count' + 1)
  BY <1>1, <1>2
<1>6. CASE queue_head = Count
  BY <1>1, <1>3, <1>4, <1>5, <1>6 DEF OrderInv, SortParts
<1>7. CASE queue_head # Count
  <2>1. Len([i \in Idx |-> i]) = Count
    BY <1>2 DEF Idx
  <2> DEFINE S == {i \in Idx : i \notin Taken(Len(queue))}
  <2>2. S # {}
    BY <1>1, <1>2, <1>7, QueueLength
  <2>3. ASSUME NEW i \in S PROVE deps[i] \cap S # {}
    <3>1. i < cursor
      BY <1>1, <1>2 DEF Idx
    <3>2. in_degree[i] # 0
      BY <1>1, <3>1 DEF IndInv, SeedInv, ScanInv
    <3>3. in_degree[i] = Cardinality(deps[i] \ Taken(Len(queue)))
      <4>1. CASE phase = "seed"
        <5>1. Taken(Len(queue)) = {}
          BY <1>1, <4>1 DEF IndInv, SeedInv, Taken
        <5>2. deps[i] \ Taken(Len(queue)) = deps[i]
          BY <5>1
        <5> QED
          BY <4>1, <5>2 DEF IndInv, SeedInv
      <4>2. CASE phase = "scan"
        BY <1>1, <3>1, <4>2 DEF IndInv, ScanInv, Missing
      <4> QED
        BY <1>1, <4>1, <4>2
    <3>4. ~(deps[i] \subseteq Taken(Len(queue)))
      BY <1>2, <3>2, <3>3, MissingFinite
    <3>5. deps[i] \subseteq Idx
      BY <1>2 DEF TypeOK
    <3> QED
      BY <3>4, <3>5
  <2>4. Cyclic'
    <3>1. S \in SUBSET Idx' /\ \A i \in S : deps'[i] \cap S # {}
      BY <1>1, <2>3
    <3> HIDE DEF S
    <3> QED
      BY <2>2, <3>1 DEF Cyclic
  <2>5. OrderInv'
    BY <1>1, <1>5, <1>7, <2>1, <2>4 DEF OrderInv
  <2> QED
    BY <1>3, <1>4, <2>5 DEF SortParts
<1> QED
  BY <1>6, <1>7

\* The inductive invariant holds when catalog_apply is called.
LEMMA InitIndInv == Init => IndInv
<1> SUFFICES ASSUME Init PROVE IndInv
  OBVIOUS
<1>1. TypeOK
  BY InitTypeOK
<1>2. queue = <<>> /\ queue_head = 0 /\ sorted_order = <<>> /\ ~fallback /\ phase = "parse"
  BY DEF Init
<1>3. \A i \in Idx : in_degree[i] >= 0
  BY DEF Init
<1>4. QueueInv
  BY <1>2 DEF QueueInv
<1> QED
  BY <1>1, <1>2, <1>3, <1>4 DEF IndInv, StartInv, SeedInv, ScanInv, OrderInv

\* Every step of catalog_apply keeps the inductive invariant.
LEMMA StepIndInv == IndInv /\ [Next]_vars => IndInv'
<1> SUFFICES ASSUME IndInv, [Next]_vars PROVE IndInv'
  OBVIOUS
<1>1. TypeOK'
  BY StepTypeOK DEF IndInv
<1>2. SortParts'
  <2>0. Count \in Nat /\ TypeOK
    BY CountType DEF IndInv, TypeOK
  <2>1. CASE Reject \/ ParseResources
    BY <1>1, <2>1, BeforeSort DEF Reject, ParseResources, inputVars, linkVars, sortVars
  <2>2. CASE extract_dependencies \/ extract_edges \/ add_file_autorequires
    BY <1>1, <2>2, BeforeSort
       DEF extract_dependencies, extract_edges, add_file_autorequires, Link, inputVars, sortVars
  <2>3. CASE StartSort
    BY <2>3, StartSortStep
  <2>4. CASE SeedQueue
    BY <2>4, SeedQueueStep
  <2>5. CASE Dequeue
    BY <2>5, DequeueStep
  <2>6. CASE Release
    BY <2>6, ReleaseStep
  <2>7. CASE FinishSort
    BY <2>7, FinishSortStep
  <2>8. CASE ApplyResource \/ SkipEntry
    <3>1. cursor' \in 1..(Count + 1)
      BY <2>0, <2>8 DEF ApplyResource, SkipEntry, TypeOK
    <3> QED
      BY <2>8, <3>1, AfterSort DEF ApplyResource, SkipEntry, inputVars, linkVars, sortVars
  <2>9. CASE Return
    BY <2>9, AfterSort DEF Return, inputVars, linkVars, sortVars
  <2>10. CASE UNCHANGED vars
    <3>1. UNCHANGED <<catalog, phase, cursor, deps, in_degree, queue, queue_head, fallback, sorted_order>>
      BY <2>10 DEF vars, inputVars, linkVars, sortVars
    <3>2. Count' = Count /\ Idx' = Idx
      BY <3>1 DEF Count, Idx
    <3>3. QueueInv' /\ StartInv' /\ SeedInv'
      BY <3>1, <3>2 DEF IndInv, QueueInv, StartInv, SeedInv, Taken
    <3>4. ScanInv'
      <4>1. Taken(Len(queue))' = Taken(Len(queue)) /\ \A i \in Idx : Missing(i)' = Missing(i)
        BY <3>1 DEF Missing, Taken
      <4> QED
        BY <3>1, <3>2, <4>1 DEF IndInv, ScanInv
    <3>5. OrderInv'
      BY <3>1, <3>2 DEF IndInv, OrderInv, Cyclic
    <3> QED
      BY <3>1, <3>2, <3>3, <3>4, <3>5 DEF SortParts, IndInv
  <2> QED
    BY <2>1, <2>2, <2>3, <2>4, <2>5, <2>6, <2>7, <2>8, <2>9, <2>10 DEF Next
<1> QED
  BY <1>1, <1>2 DEF IndInv, SortParts

\* The inductive invariant holds throughout catalog_apply.
LEMMA Invariance == Spec => []IndInv
  BY InitIndInv, StepIndInv, PTL DEF Spec
-----------------------------------------------------------------------------
(* What follows from the invariant.                                        *)

\* catalog_apply never stores an index outside the catalog in its tables, its
\* queue or its order, and its counters never leave their type.
THEOREM TypeCorrect == Spec => []TypeOK
<1>1. IndInv => TypeOK
  BY DEF IndInv
<1> QED
  BY <1>1, Invariance, PTL

\* topological_sort never writes past the end of queue[], never queues an
\* entry twice and never counts in_degree below zero.
THEOREM QueueSafe == Spec => []QueueFits
<1>1. IndInv => QueueFits
  <2> SUFFICES ASSUME IndInv PROVE QueueFits
    OBVIOUS
  <2>1. Len(queue) <= Count
    BY QueueLength DEF IndInv
  <2>2. DOMAIN queue = 1..Len(queue)
    BY LenProperties DEF IndInv, TypeOK
  <2> QED
    BY <2>1, <2>2 DEF IndInv, QueueFits, QueueInv
<1> QED
  BY <1>1, Invariance, PTL

\* The order chosen holds every entry exactly once.
LEMMA OrderCovers == IndInv => VisitsEveryEntryOnce
<1> SUFFICES ASSUME IndInv, Sorted
             PROVE  /\ Len(sorted_order) = Count
                    /\ \A j, k \in Idx : sorted_order[j] = sorted_order[k] => j = k
  BY DEF VisitsEveryEntryOnce
<1>0. Count \in Nat
  BY CountType DEF IndInv, TypeOK
<1>1. CASE ~fallback
  <2>1. sorted_order = queue /\ Len(queue) = Count
    BY <1>1 DEF IndInv, OrderInv, Sorted
  <2> QED
    BY <2>1 DEF IndInv, QueueInv, Idx
<1>2. CASE fallback
  <2>1. sorted_order = [i \in Idx |-> i]
    BY <1>2 DEF IndInv, OrderInv, Sorted
  <2> QED
    BY <1>0, <2>1 DEF Idx
<1> QED
  BY <1>1, <1>2 DEF IndInv, TypeOK

\* Whatever the relationships of the catalog, the apply loop visits every
\* entry exactly once.
THEOREM VisitsOnce == Spec => []VisitsEveryEntryOnce
  BY OrderCovers, Invariance, PTL

\* Unless it gives up, topological_sort puts every entry behind all entries
\* of its dependency table.
LEMMA OrderFromQueue == IndInv => DependencyOrder
<1> SUFFICES ASSUME IndInv, Sorted, ~fallback, NEW j \in Idx, NEW k \in Idx,
                    sorted_order[j] \in deps[sorted_order[k]]
             PROVE  j < k
  BY DEF DependencyOrder
<1>1. sorted_order = queue /\ Len(queue) = Count /\ Count \in Nat
  BY CountType DEF IndInv, OrderInv, Sorted, TypeOK
<1>2. queue[j] \in Taken(k - 1)
  BY <1>1 DEF IndInv, QueueInv, Idx
<1>3. PICK m \in 1..(k - 1) : queue[m] = queue[j]
  BY <1>2 DEF Taken
<1>4. m = j
  BY <1>1, <1>3 DEF IndInv, QueueInv, Idx
<1> QED
  BY <1>3, <1>4 DEF Idx

\* Every order topological_sort returns lists an entry after its
\* dependencies.
THEOREM DependenciesFirst == Spec => []DependencyOrder
  BY OrderFromQueue, Invariance, PTL

\* topological_sort gives up exactly when some entries of the dependency
\* table wait for each other.
THEOREM CyclesDetected == Spec => []CycleDetection
<1>1. IndInv => CycleDetection
  <2> SUFFICES ASSUME IndInv, Sorted PROVE fallback <=> Cyclic
    BY DEF CycleDetection
  <2>1. ASSUME fallback PROVE Cyclic
    BY <2>1 DEF IndInv, OrderInv, Sorted
  <2>2. ASSUME ~fallback, Cyclic PROVE FALSE
    <3>1. sorted_order = queue /\ Len(queue) = Count /\ Count \in Nat
      BY <2>2, CountType DEF IndInv, OrderInv, Sorted, TypeOK
    <3>2. PICK S \in SUBSET Idx : S # {} /\ \A i \in S : deps[i] \cap S # {}
      BY <2>2 DEF Cyclic
    <3> DEFINE P == {k \in Idx : queue[k] \in S}
    <3>3. P # {}
      <4>1. PICK i \in S : TRUE
        BY <3>2
      <4>2. i \in Taken(Len(queue))
        <5>1. queue \in Injection(Idx, Idx)
          <6>1. queue \in [Idx -> Idx]
            BY <3>1, LenProperties DEF IndInv, TypeOK, Idx
          <6> QED
            BY <3>1, <6>1 DEF IndInv, QueueInv, Injection, IsInjective, Idx
        <5>2. queue \in Surjection(Idx, Idx)
          BY <5>1, FS_Injection, CountType DEF IndInv, TypeOK
        <5> QED
          BY <3>1, <5>2 DEF Surjection, Taken, Idx
      <4> QED
        BY <3>1, <4>2 DEF Taken, Idx
    <3>4. PICK k \in P : \A m \in P : k <= m
      <4>1. P \in SUBSET Nat
        BY DEF Idx
      <4> HIDE DEF P
      <4> QED
        BY <3>3, <4>1, LeastExists
    <3>5. PICK d \in S : d \in deps[queue[k]]
      BY <3>2
    <3>6. d \in Taken(k - 1)
      BY <3>1, <3>5 DEF IndInv, QueueInv, Idx
    <3>7. PICK m \in 1..(k - 1) : queue[m] = d
      BY <3>6 DEF Taken
    <3>8. m \in P
      BY <3>1, <3>5, <3>7 DEF Idx
    <3> QED
      BY <3>4, <3>7, <3>8 DEF Idx
  <2> QED
    BY <2>1, <2>2 DEF IndInv, TypeOK
<1> QED
  BY <1>1, Invariance, PTL
-----------------------------------------------------------------------------
(* What catalog_apply does with the order the sort gives it: the tables    *)
(* hold what the catalog declares, resources are applied and refreshed     *)
(* accordingly, and CatalogApply implements OrderedApply.  The invariant   *)
(* of the sort is that above; what is added here is about the tables, the  *)
(* loop that applies and the flags of the entries.                         *)

\* A catalog that is applied, as opposed to rejected.
Readable == catalog.form = "catalog" /\ Count <= MaxResources

\* The part of catalog.rels the linking has gone through.
Linked == IF phase = "parse" \/ ~Readable THEN {}
          ELSE IF phase = "link" THEN 1..(cursor - 1) ELSE DOMAIN catalog.rels

\* Whom the relationships gone through make an entry wait for, and refresh.
PrerequisitesSoFar(i) ==
    {Earlier(catalog.rels[k]) : k \in {m \in Declared \cap Linked : Later(catalog.rels[m]) = i}}
NotifiesSoFar(i) ==
    {Later(catalog.rels[k]) : k \in {m \in Declared \cap Linked :
                                        Earlier(catalog.rels[m]) = i /\ Refreshes(catalog.rels[m])}}

\* The tables hold what the catalog declares and nothing else, and all of it
\* when it fits.
LinkInv ==
    /\ phase \in {"link", "seed", "scan", "apply"} => Readable
    /\ phase = "link" => cursor \in 1..(Len(catalog.rels) + 1)
    /\ \A i \in Idx : /\ deps[i] \subseteq PrerequisitesSoFar(i)
                      /\ notify_targets[i] \subseteq NotifiesSoFar(i)
    /\ Fits => \A i \in Idx : /\ deps[i] = PrerequisitesSoFar(i)
                              /\ notify_targets[i] = NotifiesSoFar(i)

\* The entries the apply loop has passed.
Passed == IF phase = "apply" THEN {sorted_order[k] : k \in 1..(cursor - 1)}
          ELSE IF phase = "done" /\ Readable THEN Idx ELSE {}

\* Whom a change has reached through the table.
Asked(i) == \E j \in changed : i \in notify_targets[j]

\* The entries failures counts.
FailedEntries == {i \in Idx : outcome[i] = "FAILED" /\ catalog.providers[i] # "none"}

\* The apply loop: the flags of the entries and the counter say what happened
\* to the entries passed, and whoever listens to a change and is still to come
\* is flagged.
ApplyInv ==
    /\ Applied = {i \in Passed : HasResource(i)}
    /\ changed \subseteq Applied
    /\ refreshed \subseteq Applied
    /\ \A i \in needs_refresh : Asked(i)
    /\ \A i \in Idx \ Applied : Asked(i) => i \in needs_refresh
    /\ \A i \in refreshed : Asked(i)
    /\ failures = Cardinality(FailedEntries)
    /\ phase = "done" => IF Readable THEN ret = failures
                                     ELSE sorted_order = <<>> /\ ret \in {-1, 0}

\* In a declared order whoever listens to a change has its turn after it.
DeliveryInv ==
    Fits /\ ~fallback /\ phase \in {"apply", "done"} =>
        \A t \in Applied : outcome[t] # "FAILED" /\ Asked(t) => t \in refreshed
-----------------------------------------------------------------------------
(* The tables.                                                             *)

\* No step of catalog_apply changes the catalog.
LEMMA CatalogFixed == [Next]_vars => catalog' = catalog
  BY DEF Next, vars, Reject, ParseResources, extract_dependencies, extract_edges,
         add_file_autorequires, Link, StartSort, SeedQueue, Dequeue, Release, FinishSort,
         ApplyResource, SkipEntry, Return, inputVars

\* What the catalog declares is a matter of the catalog alone.
LEMMA DeclaredFixed ==
    ASSUME catalog' = catalog
    PROVE  /\ Count' = Count /\ Idx' = Idx /\ Readable' = Readable
           /\ \A r : Later(r)' = Later(r) /\ Earlier(r)' = Earlier(r)
           /\ Declared' = Declared
           /\ \A i : Prerequisites(i)' = Prerequisites(i) /\ Notifies(i)' = Notifies(i)
           /\ Fits' = Fits
<1>1. Count' = Count /\ Idx' = Idx /\ Readable' = Readable
  BY DEF Count, Idx, Readable
<1>2. \A key : find_resource_index(key)' = find_resource_index(key)
  BY <1>1 DEF find_resource_index
<1>3. \A r : Later(r)' = Later(r) /\ Earlier(r)' = Earlier(r)
  BY <1>2 DEF Later, Earlier
<1>4. Declared' = Declared
  BY <1>3 DEF Declared
<1>5. \A i : Prerequisites(i)' = Prerequisites(i) /\ Notifies(i)' = Notifies(i)
  BY <1>3, <1>4 DEF Prerequisites, Notifies
<1>6. Fits' = Fits
  BY <1>1, <1>5 DEF Fits
<1> QED
  BY <1>1, <1>3, <1>4, <1>5, <1>6

\* Both ends of a declared relationship are different entries of the catalog.
LEMMA DeclaredEnds ==
    ASSUME IsCatalog(catalog), NEW k \in Declared
    PROVE  /\ k \in 1..Len(catalog.rels)
           /\ Later(catalog.rels[k]) \in Idx
           /\ Earlier(catalog.rels[k]) \in Idx
           /\ Later(catalog.rels[k]) # Earlier(catalog.rels[k])
<1>1. k \in 1..Len(catalog.rels)
  BY LenProperties DEF IsCatalog, Declared
<1>2. /\ Later(catalog.rels[k]) \in 0..Count
      /\ Earlier(catalog.rels[k]) \in 0..Count
  BY <1>1, EndsType
<1> QED
  BY <1>1, <1>2, CountType DEF Declared, Idx

\* What an entry waits for and what it notifies are entries of the catalog,
\* and a refresh goes to an entry that waits.
LEMMA DeclaredType ==
    ASSUME IsCatalog(catalog), NEW i \in Idx
    PROVE  /\ Prerequisites(i) \in SUBSET Idx
           /\ Notifies(i) \in SUBSET Idx
           /\ i \notin Notifies(i)
           /\ PrerequisitesSoFar(i) \subseteq Prerequisites(i)
           /\ NotifiesSoFar(i) \subseteq Notifies(i)
           /\ \A t \in Notifies(i) : i \in Prerequisites(t)
  BY DeclaredEnds DEF Prerequisites, Notifies, PrerequisitesSoFar, NotifiesSoFar

\* A table with no room left that holds nothing but what it should, when all
\* of that fits, holds it already.
LEMMA FullTable ==
    ASSUME NEW P, IsFiniteSet(P), NEW S \in SUBSET P, NEW x \in P, NEW max \in Nat,
           Cardinality(P) <= max, Cardinality(S) >= max
    PROVE  x \in S
<1>1. IsFiniteSet(S) /\ Cardinality(S) <= Cardinality(P)
  BY FS_Subset
<1>2. Cardinality(S) \in Nat /\ Cardinality(P) \in Nat
  BY <1>1, FS_CardinalityType
<1>3. S = P
  BY <1>1, <1>2, FS_Subset
<1> QED
  BY <1>3

\* Recording a relationship keeps the tables in step with the catalog.
LEMMA LinkStep ==
    ASSUME IndInv, LinkInv, NEW kinds, Link(kinds)
    PROVE  LinkInv'
<1> DEFINE r == catalog.rels[cursor]
           l == Later(r)
           e == Earlier(r)
<1>1. /\ phase = "link" /\ cursor <= Len(catalog.rels)
      /\ deps' = IF l # 0 /\ e # 0 THEN add_dependency(l, e) ELSE deps
      /\ notify_targets' = IF l # 0 /\ e # 0 /\ Refreshes(r)
                           THEN add_notify(e, l) ELSE notify_targets
      /\ cursor' = cursor + 1
      /\ catalog' = catalog /\ phase' = phase
  BY DEF Link, inputVars
<1>2. /\ TypeOK /\ IsCatalog(catalog) /\ Count \in Nat /\ IsFiniteSet(Idx) /\ Readable
      /\ cursor \in Nat \ {0} /\ Len(catalog.rels) \in Nat
      /\ DOMAIN catalog.rels = 1..Len(catalog.rels)
  BY <1>1, CountType, LenProperties DEF IndInv, TypeOK, LinkInv, IsCatalog
<1>3. /\ Idx' = Idx /\ Readable' /\ Declared' = Declared /\ (Fits' <=> Fits)
      /\ \A x : Later(x)' = Later(x) /\ Earlier(x)' = Earlier(x)
  BY <1>1, <1>2, DeclaredFixed
<1>4. Linked = 1..(cursor - 1) /\ Linked' = 1..cursor /\ Linked' = Linked \cup {cursor}
  BY <1>1, <1>2, <1>3 DEF Linked
<1>5. cursor \in Declared <=> l # 0 /\ e # 0 /\ l # e
  BY <1>1, <1>2 DEF Declared
<1>6. ASSUME NEW i \in Idx
      PROVE  /\ PrerequisitesSoFar(i)' =
                   PrerequisitesSoFar(i) \cup (IF cursor \in Declared /\ l = i THEN {e} ELSE {})
             /\ NotifiesSoFar(i)' =
                   NotifiesSoFar(i) \cup (IF cursor \in Declared /\ e = i /\ Refreshes(r)
                                          THEN {l} ELSE {})
  BY <1>1, <1>3, <1>4 DEF PrerequisitesSoFar, NotifiesSoFar
<1>7. cursor' \in 1..(Len(catalog.rels') + 1)
  BY <1>1, <1>2
<1>8. CASE cursor \notin Declared
  <2>1. deps' = deps /\ notify_targets' = notify_targets
    BY <1>1, <1>5, <1>8 DEF add_dependency, add_notify
  <2> QED
    BY <1>1, <1>3, <1>6, <1>7, <1>8, <2>1 DEF LinkInv
<1>9. CASE cursor \in Declared
  <2>1. l \in Idx /\ e \in Idx /\ l # e /\ l # 0 /\ e # 0
    BY <1>2, <1>5, <1>9, DeclaredEnds
  <2>2. \A i \in Idx : /\ deps'[i] \subseteq PrerequisitesSoFar(i)'
                       /\ Fits => deps'[i] = PrerequisitesSoFar(i)'
    <3> SUFFICES ASSUME NEW i \in Idx
                 PROVE  /\ deps'[i] \subseteq PrerequisitesSoFar(i)'
                        /\ Fits => deps'[i] = PrerequisitesSoFar(i)'
      OBVIOUS
    <3>1. deps'[i] = IF i = l /\ ~(Cardinality(deps[l]) >= MaxDeps) THEN deps[i] \cup {e}
                                                                    ELSE deps[i]
      BY <1>1, <1>2, <2>1 DEF add_dependency, TypeOK
    <3>2. /\ deps[i] \subseteq PrerequisitesSoFar(i)
          /\ Fits => deps[i] = PrerequisitesSoFar(i)
      BY DEF LinkInv
    <3>3. ASSUME Fits, i = l, Cardinality(deps[l]) >= MaxDeps PROVE e \in deps[l]
      <4>1. e \in Prerequisites(l)
        BY <1>9 DEF Prerequisites
      <4>2. deps[l] \in SUBSET Prerequisites(l) /\ IsFiniteSet(Prerequisites(l))
        BY <1>2, <2>1, <3>2, <3>3, DeclaredType, FS_Subset
      <4>3. Cardinality(Prerequisites(l)) <= MaxDeps /\ MaxDeps \in Nat
        BY <2>1, <3>3, BoundsAssumption DEF Fits
      <4> QED
        BY <3>3, <4>1, <4>2, <4>3, FullTable
    <3> QED
      BY <1>6, <1>9, <3>1, <3>2, <3>3
  <2>3. \A i \in Idx : /\ notify_targets'[i] \subseteq NotifiesSoFar(i)'
                       /\ Fits => notify_targets'[i] = NotifiesSoFar(i)'
    <3> SUFFICES ASSUME NEW i \in Idx
                 PROVE  /\ notify_targets'[i] \subseteq NotifiesSoFar(i)'
                        /\ Fits => notify_targets'[i] = NotifiesSoFar(i)'
      OBVIOUS
    <3>1. notify_targets'[i] =
             IF i = e /\ Refreshes(r) /\ ~(Cardinality(notify_targets[e]) >= MaxNotify)
             THEN notify_targets[i] \cup {l} ELSE notify_targets[i]
      BY <1>1, <1>2, <2>1 DEF add_notify, TypeOK
    <3>2. /\ notify_targets[i] \subseteq NotifiesSoFar(i)
          /\ Fits => notify_targets[i] = NotifiesSoFar(i)
      BY DEF LinkInv
    <3>3. ASSUME Fits, i = e, Refreshes(r), Cardinality(notify_targets[e]) >= MaxNotify
          PROVE  l \in notify_targets[e]
      <4>1. l \in Notifies(e)
        BY <1>9, <3>3 DEF Notifies
      <4>2. notify_targets[e] \in SUBSET Notifies(e) /\ IsFiniteSet(Notifies(e))
        BY <1>2, <2>1, <3>2, <3>3, DeclaredType, FS_Subset
      <4>3. Cardinality(Notifies(e)) <= MaxNotify /\ MaxNotify \in Nat
        BY <2>1, <3>3, BoundsAssumption DEF Fits
      <4> QED
        BY <3>3, <4>1, <4>2, <4>3, FullTable
    <3> QED
      BY <1>6, <1>9, <3>1, <3>2, <3>3
  <2> QED
    BY <1>1, <1>3, <1>7, <2>2, <2>3 DEF LinkInv
<1> QED
  BY <1>8, <1>9

\* Every other step leaves the tables as they are.
LEMMA StepLinkInv ==
    ASSUME IndInv, LinkInv, [Next]_vars
    PROVE  LinkInv'
<1>1. CASE extract_dependencies \/ extract_edges \/ add_file_autorequires
  BY <1>1, LinkStep DEF extract_dependencies, extract_edges, add_file_autorequires
<1>2. CASE ~(extract_dependencies \/ extract_edges \/ add_file_autorequires)
  <2>1. catalog' = catalog /\ deps' = deps /\ notify_targets' = notify_targets
    BY <1>2 DEF Next, vars, Reject, ParseResources, StartSort, SeedQueue, Dequeue, Release,
           FinishSort, ApplyResource, SkipEntry, Return, inputVars, linkVars
  <2>2. /\ Idx' = Idx /\ Readable' = Readable /\ Declared' = Declared /\ Fits' = Fits
        /\ \A x : Later(x)' = Later(x) /\ Earlier(x)' = Earlier(x)
    BY <2>1, DeclaredFixed
  <2>3. /\ Len(catalog.rels) \in Nat /\ DOMAIN catalog.rels = 1..Len(catalog.rels)
    BY LenProperties DEF IndInv, TypeOK, IsCatalog
  <2>4. /\ Declared \cap Linked' = Declared \cap Linked
        /\ phase' \in {"link", "seed", "scan", "apply"} => Readable
        /\ phase' = "link" => cursor' \in 1..(Len(catalog.rels) + 1)
    <3>1. CASE Reject
      <4>1. ~Readable
        BY <3>1, CountType, BoundsAssumption DEF Reject, Readable, IndInv, TypeOK
      <4> QED
        BY <2>1, <2>2, <3>1, <4>1 DEF Reject, Linked
    <3>2. CASE ParseResources
      BY <2>1, <2>2, <2>3, <3>2 DEF ParseResources, Linked, Readable
    <3>3. CASE StartSort
      <4>1. cursor - 1 = Len(catalog.rels)
        BY <2>3, <3>3 DEF StartSort
      <4> QED
        BY <2>1, <2>2, <2>3, <3>3, <4>1 DEF StartSort, Linked, LinkInv
    <3>4. CASE SeedQueue \/ Dequeue \/ Release \/ FinishSort
      BY <2>1, <2>2, <3>4 DEF SeedQueue, Dequeue, Release, FinishSort, Linked, LinkInv
    <3>5. CASE ApplyResource \/ SkipEntry \/ Return
      BY <2>1, <2>2, <3>5 DEF ApplyResource, SkipEntry, Return, Linked, LinkInv
    <3>6. CASE UNCHANGED vars
      BY <2>1, <2>2, <3>6 DEF vars, Linked, LinkInv
    <3> QED
      BY <1>2, <3>1, <3>2, <3>3, <3>4, <3>5, <3>6 DEF Next
  <2>5. \A i : PrerequisitesSoFar(i)' = PrerequisitesSoFar(i) /\ NotifiesSoFar(i)' = NotifiesSoFar(i)
    BY <2>1, <2>2, <2>4 DEF PrerequisitesSoFar, NotifiesSoFar
  <2> QED
    BY <2>1, <2>2, <2>4, <2>5 DEF LinkInv
<1> QED
  BY <1>1, <1>2
-----------------------------------------------------------------------------
(* The loop that applies.                                                  *)

\* The order of the apply loop is a permutation of the entries.
LEMMA OrderPermutes ==
    ASSUME IndInv, phase = "apply"
    PROVE  /\ Count \in Nat
           /\ cursor \in 1..(Count + 1)
           /\ \A k \in Idx : sorted_order[k] \in Idx
           /\ \A j, k \in Idx : sorted_order[j] = sorted_order[k] => j = k
           /\ \A i \in Idx : \E k \in Idx : sorted_order[k] = i
<1>1. /\ Count \in Nat /\ IsFiniteSet(Idx) /\ cursor \in 1..(Count + 1)
      /\ Len(sorted_order) = Count /\ sorted_order \in Seq(Idx)
  BY CountType DEF IndInv, TypeOK, OrderInv
<1>2. sorted_order \in [Idx -> Idx]
  BY <1>1, LenProperties DEF Idx
<1>3. \A j, k \in Idx : sorted_order[j] = sorted_order[k] => j = k
  <2>1. CASE sorted_order = <<>>
    BY <1>1, <2>1 DEF Idx
  <2>2. CASE sorted_order # <<>>
    BY <2>2, OrderCovers DEF VisitsEveryEntryOnce, Sorted
  <2> QED
    BY <2>1, <2>2
<1>4. sorted_order \in Injection(Idx, Idx)
  BY <1>2, <1>3 DEF Injection, IsInjective
<1>5. sorted_order \in Surjection(Idx, Idx)
  BY <1>1, <1>4, FS_Injection
<1> QED
  BY <1>1, <1>2, <1>3, <1>5 DEF Surjection

\* A declared order has everything an entry waits for before it.
LEMMA PrerequisitesPassed ==
    ASSUME IndInv, LinkInv, phase = "apply", Fits, ~fallback, NEW k \in Idx
    PROVE  Prerequisites(sorted_order[k]) \subseteq {sorted_order[n] : n \in 1..(k - 1)}
<1>1. CASE sorted_order = <<>>
  BY <1>1 DEF IndInv, OrderInv, Idx
<1>2. CASE sorted_order # <<>>
  <2>1. sorted_order = queue /\ Len(queue) = Count
    BY <1>2 DEF IndInv, OrderInv
  <2>2. deps[sorted_order[k]] \subseteq Taken(k - 1)
    BY <2>1 DEF IndInv, QueueInv, Idx
  <2>3. sorted_order[k] \in Idx
    BY OrderPermutes
  <2>4. Linked = DOMAIN catalog.rels
    BY DEF Linked, LinkInv
  <2>5. PrerequisitesSoFar(sorted_order[k]) = Prerequisites(sorted_order[k])
    BY <2>4 DEF PrerequisitesSoFar, Prerequisites, Declared
  <2> QED
    BY <2>1, <2>2, <2>3, <2>5 DEF LinkInv, Taken
<1> QED
  BY <1>1, <1>2

\* What one turn of a resource does to its entry and to those it notifies.
LEMMA TurnOfEntry ==
    ASSUME IndInv, LinkInv, ApplyInv, ApplyResource
    PROVE  \E res \in Results :
             LET i == sorted_order[cursor]
                 asked == res # "FAILED" /\ Asked(i)
             IN  /\ i \in Idx /\ i \notin Applied /\ HasResource(i)
                 /\ outcome' = [outcome EXCEPT ![i] = res]
                 /\ failures' = failures +
                       (IF res = "FAILED" /\ catalog.providers[i] # "none" THEN 1 ELSE 0)
                 /\ refreshed' = IF asked THEN refreshed \cup {i} ELSE refreshed
                 /\ \/ Changes(res) /\ changed' = changed \cup {i}
                    \/ ~Changes(res) /\ changed' = changed
                    \/ asked /\ changed' = changed \cup {i}
                 /\ needs_refresh \subseteq needs_refresh'
                 /\ needs_refresh' \subseteq needs_refresh \cup notify_targets[i]
                 /\ i \in changed' => notify_targets[i] \ Applied \subseteq needs_refresh'
                 /\ i \notin changed' => needs_refresh' = needs_refresh
<1> DEFINE i == sorted_order[cursor]
           p == catalog.providers[i]
<1>1. /\ phase = "apply" /\ cursor <= Count /\ HasResource(i)
  BY DEF ApplyResource
<1>2. /\ Count \in Nat /\ cursor \in Idx /\ i \in Idx
      /\ \A j, k \in Idx : sorted_order[j] = sorted_order[k] => j = k
  BY <1>1, OrderPermutes DEF Idx
<1>3. i \notin Passed
  BY <1>1, <1>2 DEF Passed, Idx
<1>4. i \notin Applied /\ i \notin changed
  BY <1>3 DEF ApplyInv
<1>5. i \notin notify_targets[i]
  BY <1>2, DeclaredType DEF LinkInv, IndInv, TypeOK
<1>6. i \in needs_refresh <=> Asked(i)
  BY <1>2, <1>4 DEF ApplyInv
<1>7. p \in ProviderKinds
  BY <1>2 DEF IndInv, TypeOK, IsCatalog, Idx, Count
<1>8. PICK res \in ApplyResults(p) :
        LET marked == IF Changes(res) THEN needs_refresh \cup notify_targets[i]
                                      ELSE needs_refresh
            own == IF Changes(res) THEN changed \cup {i} ELSE changed
        IN  /\ outcome' = [outcome EXCEPT ![i] = res]
            /\ failures' = failures + (IF res = "FAILED" /\ p # "none" THEN 1 ELSE 0)
            /\ \/ /\ i \in marked /\ res # "FAILED"
                  /\ \E ref \in RefreshResults(p) :
                       /\ refreshed' = refreshed \cup {i}
                       /\ changed' = IF Changes(ref) THEN own \cup {i} ELSE own
                       /\ needs_refresh' = IF Changes(ref)
                                           THEN marked \cup (notify_targets[i] \ Applied)
                                           ELSE marked
               \/ /\ ~(i \in marked /\ res # "FAILED")
                  /\ changed' = own
                  /\ needs_refresh' = marked
                  /\ refreshed' = refreshed
  BY DEF ApplyResource
<1> HIDE DEF i, p
<1>9. res \in Results
  BY <1>7, <1>8 DEF ApplyResults, ProviderKinds, Results
<1>10. /\ refreshed' = IF res # "FAILED" /\ Asked(i) THEN refreshed \cup {i} ELSE refreshed
       /\ \/ Changes(res) /\ changed' = changed \cup {i}
          \/ ~Changes(res) /\ changed' = changed
          \/ res # "FAILED" /\ Asked(i) /\ changed' = changed \cup {i}
       /\ needs_refresh \subseteq needs_refresh'
       /\ needs_refresh' \subseteq needs_refresh \cup notify_targets[i]
       /\ i \in changed' => notify_targets[i] \ Applied \subseteq needs_refresh'
       /\ i \notin changed' => needs_refresh' = needs_refresh
  <2> DEFINE marked == IF Changes(res) THEN needs_refresh \cup notify_targets[i]
                                       ELSE needs_refresh
             own == IF Changes(res) THEN changed \cup {i} ELSE changed
  <2>1. i \in marked <=> Asked(i)
    BY <1>5, <1>6
  <2>2. CASE i \in marked /\ res # "FAILED"
    <3>1. PICK ref \in RefreshResults(p) :
             /\ refreshed' = refreshed \cup {i}
             /\ changed' = IF Changes(ref) THEN own \cup {i} ELSE own
             /\ needs_refresh' = IF Changes(ref)
                                 THEN marked \cup (notify_targets[i] \ Applied)
                                 ELSE marked
      BY <1>8, <2>2
    <3> QED
      BY <1>4, <2>1, <2>2, <3>1
  <2>3. CASE ~(i \in marked /\ res # "FAILED")
    <3>1. changed' = own /\ needs_refresh' = marked /\ refreshed' = refreshed
      BY <1>8, <2>3
    <3> QED
      BY <1>4, <2>1, <2>3, <3>1
  <2> QED
    BY <2>2, <2>3
<1>11. /\ outcome' = [outcome EXCEPT ![i] = res]
       /\ failures' = failures + (IF res = "FAILED" /\ catalog.providers[i] # "none" THEN 1 ELSE 0)
  BY <1>8 DEF p
<1>12. i = sorted_order[cursor]
  BY DEF i
<1> QED
  BY <1>1, <1>2, <1>4, <1>9, <1>10, <1>11, <1>12

\* A turn keeps the flags and the counter in step with what happened.
LEMMA ApplyResourceStep ==
    ASSUME IndInv, LinkInv, ApplyInv, DeliveryInv, ApplyResource
    PROVE  ApplyInv' /\ DeliveryInv'
<1> DEFINE i == sorted_order[cursor]
<1>1. PICK res \in Results :
        /\ i \in Idx /\ i \notin Applied /\ HasResource(i)
        /\ outcome' = [outcome EXCEPT ![i] = res]
        /\ failures' = failures +
              (IF res = "FAILED" /\ catalog.providers[i] # "none" THEN 1 ELSE 0)
        /\ refreshed' = IF res # "FAILED" /\ Asked(i) THEN refreshed \cup {i} ELSE refreshed
        /\ \/ Changes(res) /\ changed' = changed \cup {i}
           \/ ~Changes(res) /\ changed' = changed
           \/ res # "FAILED" /\ Asked(i) /\ changed' = changed \cup {i}
        /\ needs_refresh \subseteq needs_refresh'
        /\ needs_refresh' \subseteq needs_refresh \cup notify_targets[i]
        /\ i \in changed' => notify_targets[i] \ Applied \subseteq needs_refresh'
        /\ i \notin changed' => needs_refresh' = needs_refresh
  BY TurnOfEntry
<1>2. /\ UNCHANGED <<catalog, phase, deps, notify_targets, sorted_order, queue, fallback, ret>>
      /\ cursor' = cursor + 1 /\ phase = "apply" /\ cursor <= Count
  BY DEF ApplyResource, inputVars, linkVars, sortVars
<1>3. /\ Count \in Nat /\ cursor \in Idx /\ IsFiniteSet(Idx) /\ TypeOK
      /\ \A j, k \in Idx : sorted_order[j] = sorted_order[k] => j = k
  <2>1. TypeOK /\ IsFiniteSet(Idx)
    BY CountType DEF IndInv, TypeOK
  <2> QED
    BY <1>2, <2>1, OrderPermutes DEF Idx
<1>4. /\ Idx' = Idx /\ (Fits' <=> Fits) /\ (Readable' <=> Readable)
      /\ \A x : HasResource(x)' <=> HasResource(x)
  BY <1>2, DeclaredFixed DEF HasResource
<1>5. Passed' = Passed \cup {i} /\ i \notin Passed
  BY <1>2, <1>3 DEF Passed, Idx
<1> HIDE DEF i
<1>6. res # "none" /\ i \notin changed
  BY <1>1 DEF Results, ApplyInv
<1>7. \A t \in Idx : outcome'[t] = IF t = i THEN res ELSE outcome[t]
  BY <1>1, <1>3 DEF TypeOK
<1>8. Applied' = Applied \cup {i}
  BY <1>1, <1>4, <1>6, <1>7 DEF Applied
<1>9. changed \subseteq changed' /\ changed' \subseteq changed \cup {i}
  BY <1>1
<1>10. \A t : Asked(t)' <=> Asked(t) \/ (i \in changed' /\ t \in notify_targets[i])
  BY <1>2, <1>9 DEF Asked
<1>11. i \notin notify_targets[i]
  BY <1>1, <1>3, DeclaredType DEF LinkInv, TypeOK
<1>12. Applied' = {x \in Passed' : HasResource(x)'}
  BY <1>1, <1>4, <1>5, <1>8 DEF ApplyInv
<1>13. changed' \subseteq Applied' /\ refreshed' \subseteq Applied'
  BY <1>1, <1>8, <1>9 DEF ApplyInv
<1>14. /\ \A x \in needs_refresh' : Asked(x)'
       /\ \A x \in Idx' \ Applied' : Asked(x)' => x \in needs_refresh'
  BY <1>1, <1>4, <1>8, <1>10 DEF ApplyInv
<1>15. \A x \in refreshed' : Asked(x)'
  BY <1>1, <1>10 DEF ApplyInv
<1>16. failures' = Cardinality(FailedEntries')
  <2>1. i \notin FailedEntries /\ IsFiniteSet(FailedEntries)
    BY <1>1, <1>3, FS_Subset DEF FailedEntries, Applied
  <2>2. CASE res = "FAILED" /\ catalog.providers[i] # "none"
    <3>1. FailedEntries' = FailedEntries \cup {i}
      BY <1>1, <1>2, <1>4, <1>7, <2>2 DEF FailedEntries
    <3> QED
      BY <1>1, <2>1, <2>2, <3>1, FS_AddElement DEF ApplyInv
  <2>3. CASE ~(res = "FAILED" /\ catalog.providers[i] # "none")
    <3>1. FailedEntries' = FailedEntries
      BY <1>2, <1>4, <1>7, <2>1, <2>3 DEF FailedEntries
    <3> QED
      BY <1>1, <1>3, <2>3, <3>1 DEF ApplyInv, TypeOK
  <2> QED
    BY <2>2, <2>3
<1>17. ApplyInv'
  BY <1>2, <1>12, <1>13, <1>14, <1>15, <1>16 DEF ApplyInv
<1>18. DeliveryInv'
  <2> SUFFICES ASSUME Fits, ~fallback, NEW t \in Applied', outcome'[t] # "FAILED", Asked(t)'
               PROVE  t \in refreshed'
    BY <1>2, <1>4 DEF DeliveryInv
  <2>1. CASE t = i
    BY <1>1, <1>7, <1>10, <1>11, <2>1
  <2>2. CASE t # i /\ Asked(t)
    <3>1. t \in Applied /\ outcome[t] = outcome'[t]
      BY <1>7, <1>8, <2>2 DEF Applied
    <3> QED
      BY <1>1, <1>2, <2>2, <3>1 DEF DeliveryInv
  <2>3. CASE t # i /\ ~Asked(t)
    <3>1. t \in notify_targets[i] /\ t \in Passed /\ t \in Idx
      BY <1>1, <1>8, <1>10, <2>3 DEF ApplyInv, Applied
    <3>2. i \in Prerequisites(t)
      BY <1>1, <1>3, <3>1, DeclaredType DEF LinkInv, TypeOK
    <3>3. PICK k \in 1..(cursor - 1) : t = sorted_order[k]
      BY <1>2, <3>1 DEF Passed
    <3>4. k \in Idx
      BY <1>3 DEF Idx
    <3>5. PICK n \in 1..(k - 1) : i = sorted_order[n]
      BY <1>2, <3>2, <3>3, <3>4, PrerequisitesPassed
    <3>6. n \in 1..(cursor - 1)
      BY <1>3 DEF Idx
    <3> QED
      BY <1>2, <1>5, <3>5, <3>6 DEF Passed
  <2> QED
    BY <2>1, <2>2, <2>3
<1> QED
  BY <1>17, <1>18

\* Nothing has been applied before the loop, and nothing is after it.
LEMMA StepApplyInv ==
    ASSUME IndInv, LinkInv, ApplyInv, DeliveryInv, [Next]_vars
    PROVE  ApplyInv' /\ DeliveryInv'
<1>1. CASE ApplyResource
  BY <1>1, ApplyResourceStep
<1>2. CASE ~ApplyResource
  <2>0. Count \in Nat
    BY CountType DEF IndInv, TypeOK
  <2>1. catalog' = catalog
    BY CatalogFixed
  <2>2. /\ Idx' = Idx /\ Count' = Count /\ (Fits' <=> Fits) /\ (Readable' <=> Readable)
        /\ \A x : HasResource(x)' <=> HasResource(x)
    BY <2>1, DeclaredFixed DEF HasResource
  <2>3. UNCHANGED <<outcome, changed, needs_refresh, refreshed, failures>>
    BY <1>2 DEF Next, vars, Reject, ParseResources, extract_dependencies, extract_edges,
           add_file_autorequires, Link, StartSort, SeedQueue, Dequeue, Release, FinishSort,
           SkipEntry, Return, applyVars
  <2>4. Applied' = Applied /\ FailedEntries' = FailedEntries
    BY <2>1, <2>2, <2>3 DEF Applied, FailedEntries
  <2>5. CASE phase \in {"parse", "link", "seed", "scan"} /\ ~(UNCHANGED vars)
    <3>1. Applied = {} /\ changed = {} /\ refreshed = {}
      BY <2>5 DEF ApplyInv, Passed
    <3>2. \A x : ~Asked(x) /\ ~Asked(x)'
      BY <2>3, <3>1 DEF Asked
    <3>3. Passed' = {} /\ (phase' = "done" => /\ ~Readable
                                              /\ sorted_order' = <<>>
                                              /\ ret' \in {-1, 0})
      <4>1. CASE Reject
        <5>1. ~Readable
          BY <2>0, <4>1, BoundsAssumption DEF Reject, Readable
        <5>2. sorted_order' = <<>>
          BY <4>1 DEF Reject, sortVars, IndInv, StartInv
        <5>3. ret' \in {-1, 0} /\ phase' = "done"
          BY <4>1 DEF Reject
        <5> QED
          BY <2>2, <5>1, <5>2, <5>3 DEF Passed
      <4>2. CASE FinishSort
        <5>1. cursor' = 1 /\ phase' = "apply"
          BY <4>2 DEF FinishSort
        <5> QED
          BY <5>1 DEF Passed
      <4>3. CASE ~Reject /\ ~FinishSort
        <5>1. phase' \in {"link", "seed", "scan"}
          BY <1>2, <2>5, <4>3 DEF Next, vars, ParseResources, extract_dependencies, extract_edges,
                 add_file_autorequires, Link, StartSort, SeedQueue, Dequeue, Release,
                 SkipEntry, Return
        <5> QED
          BY <5>1 DEF Passed
      <4> QED
        BY <4>1, <4>2, <4>3
    <3>4. ApplyInv'
      BY <2>2, <2>3, <2>4, <3>1, <3>2, <3>3 DEF ApplyInv
    <3> QED
      BY <2>4, <3>1, <3>4 DEF DeliveryInv
  <2>6. CASE phase \in {"apply", "done"} \/ UNCHANGED vars
    <3>1. /\ notify_targets' = notify_targets /\ sorted_order' = sorted_order
          /\ fallback' = fallback /\ (phase' \in {"apply", "done"} <=> phase \in {"apply", "done"})
      BY <1>2, <2>6 DEF Next, vars, Reject, ParseResources, extract_dependencies, extract_edges,
             add_file_autorequires, Link, StartSort, SeedQueue, Dequeue, Release, FinishSort,
             SkipEntry, Return, linkVars, sortVars
    <3>2. \A x : Asked(x)' <=> Asked(x)
      BY <2>3, <3>1 DEF Asked
    <3>3. Applied = {x \in Passed' : HasResource(x)}
      <4>1. CASE SkipEntry
        <5>1. /\ cursor \in Idx /\ cursor' = cursor + 1 /\ phase = "apply" /\ phase' = "apply"
              /\ ~HasResource(sorted_order[cursor])
          BY <2>0, <4>1 DEF SkipEntry, Idx, IndInv, TypeOK
        <5>2. Passed' = Passed \cup {sorted_order[cursor]}
          BY <3>1, <5>1 DEF Passed, Idx
        <5> QED
          BY <5>1, <5>2 DEF ApplyInv
      <4>2. CASE Return
        <5>1. cursor = Count + 1 /\ phase = "apply" /\ phase' = "done" /\ Readable
          BY <4>2 DEF Return, LinkInv
        <5>2. Passed = Idx
          BY <5>1, OrderPermutes DEF Passed, Idx
        <5> QED
          BY <2>2, <5>1, <5>2 DEF ApplyInv, Passed
      <4>3. CASE UNCHANGED vars
        <5>1. Passed' = Passed
          BY <2>2, <4>3 DEF vars, sortVars, Passed
        <5> QED
          BY <5>1 DEF ApplyInv
      <4> QED
        BY <1>2, <2>6, <4>1, <4>2, <4>3 DEF Next, Reject, ParseResources, extract_dependencies,
               extract_edges, add_file_autorequires, Link, StartSort, SeedQueue, Dequeue, Release,
               FinishSort
    <3>4. phase' = "done" => IF Readable THEN ret' = failures'
                                         ELSE sorted_order' = <<>> /\ ret' \in {-1, 0}
      <4>1. CASE Return
        BY <2>3, <4>1 DEF Return, LinkInv
      <4>2. CASE SkipEntry
        BY <4>2 DEF SkipEntry
      <4>3. CASE UNCHANGED vars
        BY <4>3 DEF vars, applyVars, sortVars, ApplyInv
      <4> QED
        BY <1>2, <2>6, <4>1, <4>2, <4>3 DEF Next, Reject, ParseResources, extract_dependencies,
               extract_edges, add_file_autorequires, Link, StartSort, SeedQueue, Dequeue, Release,
               FinishSort
    <3>5. ApplyInv'
      BY <2>2, <2>3, <2>4, <3>1, <3>2, <3>3, <3>4 DEF ApplyInv
    <3>6. DeliveryInv'
      BY <2>2, <2>3, <2>4, <3>1, <3>2 DEF DeliveryInv
    <3> QED
      BY <3>5, <3>6
  <2> QED
    BY <1>2, <2>5, <2>6 DEF Next, Reject, ParseResources, extract_dependencies, extract_edges,
           add_file_autorequires, Link, StartSort, SeedQueue, Dequeue, Release, FinishSort,
           SkipEntry, Return
<1> QED
  BY <1>1, <1>2
-----------------------------------------------------------------------------
(* What follows from the invariants.                                       *)

\* Nothing is linked and nothing is applied when catalog_apply is called.
LEMMA InitApplyInv == Init => LinkInv /\ ApplyInv /\ DeliveryInv
<1> SUFFICES ASSUME Init PROVE LinkInv /\ ApplyInv /\ DeliveryInv
  OBVIOUS
<1>1. Linked = {} /\ Passed = {} /\ Applied = {} /\ FailedEntries = {}
  BY DEF Init, Linked, Passed, Applied, FailedEntries
<1>2. \A i : PrerequisitesSoFar(i) = {} /\ NotifiesSoFar(i) = {}
  BY <1>1 DEF PrerequisitesSoFar, NotifiesSoFar
<1>3. LinkInv
  BY <1>2 DEF Init, LinkInv
<1>4. failures = Cardinality(FailedEntries)
  BY <1>1, FS_EmptySet DEF Init
<1>5. ApplyInv /\ DeliveryInv
  BY <1>1, <1>4 DEF Init, ApplyInv, DeliveryInv, Asked
<1> QED
  BY <1>3, <1>5

\* The tables, the flags and the counter are in step throughout.
LEMMA ApplyInvariance == Spec => [](IndInv /\ LinkInv /\ ApplyInv /\ DeliveryInv)
<1>1. Init => IndInv /\ LinkInv /\ ApplyInv /\ DeliveryInv
  BY InitIndInv, InitApplyInv
<1>2. IndInv /\ LinkInv /\ ApplyInv /\ DeliveryInv /\ [Next]_vars
         => (IndInv /\ LinkInv /\ ApplyInv /\ DeliveryInv)'
  BY StepIndInv, StepLinkInv, StepApplyInv
<1> QED
  BY <1>1, <1>2, PTL DEF Spec

\* A resource is applied after every resource the catalog makes it wait for,
\* whether through a metaparameter, an edge or its parent directory.
THEOREM AppliedInDeclaredOrder == Spec => []DeclaredOrder
<1>1. IndInv /\ LinkInv /\ ApplyInv => DeclaredOrder
  <2> SUFFICES ASSUME IndInv, LinkInv, ApplyInv, Sorted, ~fallback, Fits,
                      NEW i \in Applied, NEW e \in Prerequisites(i), HasResource(e)
               PROVE  e \in Applied
    BY DEF DeclaredOrder
  <2>1. i \in Passed /\ i \in Idx
    BY DEF ApplyInv, Applied
  <2>2. e \in Idx
    BY <2>1, DeclaredType DEF IndInv, TypeOK
  <2>3. CASE phase = "apply"
    <3>1. PICK k \in 1..(cursor - 1) : i = sorted_order[k]
      BY <2>1, <2>3 DEF Passed
    <3>2. k \in Idx /\ cursor \in Nat
      BY <2>3, OrderPermutes DEF Idx
    <3>3. PICK n \in 1..(k - 1) : e = sorted_order[n]
      BY <2>3, <3>1, <3>2, PrerequisitesPassed
    <3>4. e \in Passed
      BY <2>3, <3>2, <3>3 DEF Passed, Idx
    <3> QED
      BY <2>2, <3>4 DEF ApplyInv
  <2>4. CASE phase = "done"
    <3>1. Passed = Idx
      BY <2>1, <2>4 DEF Passed
    <3> QED
      BY <2>2, <3>1 DEF ApplyInv
  <2> QED
    BY <2>3, <2>4 DEF Sorted
<1> QED
  BY <1>1, ApplyInvariance, PTL

\* When catalog_apply returns, every change has refreshed what it notifies, no
\* refresh happened without a change, and the value returned is the number of
\* resources their provider failed on.
THEOREM EverythingAccounted == Spec => []Accounted
<1>1. IndInv /\ LinkInv /\ ApplyInv /\ DeliveryInv => Accounted
  <2> SUFFICES ASSUME IndInv, LinkInv, ApplyInv, DeliveryInv PROVE Accounted
    OBVIOUS
  <2>1. IsCatalog(catalog) /\ notify_targets \in [Idx -> SUBSET Idx] /\ Applied \subseteq Idx
    BY DEF IndInv, TypeOK, Applied
  <2>2. ASSUME NEW t, Asked(t) PROVE \E i \in changed : t \in Notifies(i)
    BY <2>1, <2>2, DeclaredType DEF Asked, LinkInv, ApplyInv
  <2>3. RefreshJustified
    BY <2>2 DEF RefreshJustified, ApplyInv
  <2>4. FailuresReturned
    BY DEF FailuresReturned, ApplyInv, Sorted, FailedEntries
  <2>5. ASSUME phase = "done", ~fallback, Fits, NEW i \in changed, NEW t \in Notifies(i),
               HasResource(t), outcome[t] # "FAILED"
        PROVE  t \in refreshed
    <3>1. i \in Idx /\ Readable
      BY <2>1, <2>5 DEF ApplyInv, Passed
    <3>2. t \in Applied
      BY <2>1, <2>5, <3>1, DeclaredType DEF ApplyInv, Passed
    <3>3. NotifiesSoFar(i) = Notifies(i)
      BY <2>5, <3>1 DEF NotifiesSoFar, Notifies, Linked, Declared
    <3>4. Asked(t)
      BY <2>5, <3>1, <3>3 DEF LinkInv, Asked
    <3> QED
      BY <2>5, <3>2, <3>4 DEF DeliveryInv
  <2>6. RefreshDelivered
    BY <2>5 DEF RefreshDelivered
  <2> QED
    BY <2>3, <2>4, <2>6 DEF Accounted
<1> QED
  BY <1>1, ApplyInvariance, PTL
-----------------------------------------------------------------------------
(* CatalogApply implements OrderedApply.                                   *)

\* catalog_apply starts where OrderedApply does.
LEMMA ImplementsInit == Init => Ordered!Init
  BY DEF Init, Ordered!Init

\* The turn of a resource is a turn of OrderedApply.
LEMMA ImplementsTurn ==
    ASSUME IndInv, LinkInv, ApplyInv, Fits, ApplyResource
    PROVE  \E i \in {j \in Idx : HasResource(j)} : Ordered!Apply(i)
<1> DEFINE i == sorted_order[cursor]
<1>1. PICK res \in Results :
        /\ i \in Idx /\ i \notin Applied /\ HasResource(i)
        /\ outcome' = [outcome EXCEPT ![i] = res]
        /\ refreshed' = IF res # "FAILED" /\ Asked(i) THEN refreshed \cup {i} ELSE refreshed
        /\ \/ Changes(res) /\ changed' = changed \cup {i}
           \/ ~Changes(res) /\ changed' = changed
           \/ res # "FAILED" /\ Asked(i) /\ changed' = changed \cup {i}
  BY TurnOfEntry
<1>2. /\ catalog' = catalog /\ phase = "apply" /\ phase' = "apply" /\ ret' = ret
      /\ cursor <= Count /\ Readable
  BY DEF ApplyResource, inputVars, LinkInv
<1>3. cursor \in Idx /\ TypeOK /\ IsCatalog(catalog)
  <2>1. TypeOK /\ IsCatalog(catalog)
    BY DEF IndInv, TypeOK
  <2> QED
    BY <1>2, <2>1, OrderPermutes DEF Idx
<1>4. Ordered!Applied = Applied
  BY DEF Ordered!Applied, ApplyInv, Applied
<1>5. UNCHANGED Ordered!catalogVars
  <2>1. /\ Idx' = Idx /\ Count' = Count
        /\ \A x : Prerequisites(x)' = Prerequisites(x) /\ Notifies(x)' = Notifies(x)
    BY <1>2, DeclaredFixed
  <2> QED
    BY <1>2, <2>1 DEF Ordered!catalogVars, HasResource
<1>6. \A j \in Idx : notify_targets[j] = Notifies(j)
  BY <1>2 DEF LinkInv, NotifiesSoFar, Notifies, Linked, Declared
<1>7. Asked(i) <=> \E j \in changed : i \in [n \in Idx |-> Notifies(n)][j]
  BY <1>6 DEF Asked, ApplyInv, Applied
<1>8. Ordered!Unordered \/ Ordered!Ready(i)
  <2>1. CASE fallback
    <3>1. sorted_order # <<>>
      BY <1>2, <1>3 DEF IndInv, OrderInv, TypeOK, Idx
    <3>2. PICK S \in SUBSET Idx : S # {} /\ \A x \in S : deps[x] \cap S # {}
      BY <1>2, <2>1, <3>1 DEF IndInv, OrderInv, Cyclic
    <3>3. \A x \in Idx : deps[x] \subseteq Prerequisites(x)
      BY <1>3, DeclaredType DEF LinkInv
    <3>4. \A x \in S : [n \in Idx |-> Prerequisites(n)][x] \cap S # {}
      BY <3>2, <3>3
    <3>5. S \in SUBSET DOMAIN [n \in Idx |-> Prerequisites(n)]
      OBVIOUS
    <3>6. Ordered!Unordered
      BY <3>2, <3>4, <3>5, Zenon DEF Ordered!Unordered
    <3> QED
      BY <3>6
  <2>2. CASE ~fallback
    <3>1. Prerequisites(i) \subseteq {sorted_order[n] : n \in 1..(cursor - 1)}
      BY <1>2, <1>3, <2>2, PrerequisitesPassed
    <3>2. Prerequisites(i) \subseteq Passed
      BY <1>2, <3>1 DEF Passed
    <3>3. [n \in Idx |-> Prerequisites(n)][i] = Prerequisites(i)
      BY <1>1
    <3>4. [n \in Idx |-> Prerequisites(n)][i] \cap {j \in Idx : HasResource(j)} \subseteq Applied
      BY <3>2, <3>3 DEF ApplyInv
    <3> QED
      BY <1>4, <3>4 DEF Ordered!Ready
  <2> QED
    BY <2>1, <2>2
<1> HIDE DEF i
<1>9. i \in {j \in Idx : HasResource(j)} \ Applied
  BY <1>1
<1>10. UNCHANGED <<phase = "done", ret>> /\ ~(phase = "done")
  BY <1>2
<1>11. res \in {"SUCCESS", "NOOP", "CHANGED", "FAILED", "SKIPPED"}
       /\ (Changes(res) <=> res \in Ordered!Effective)
  BY DEF Results, Changes, Ordered!Effective
<1>12. Ordered!Apply(i)
  BY <1>1, <1>2, <1>4, <1>5, <1>7, <1>8, <1>9, <1>10, <1>11 DEF Ordered!Apply, Readable
<1> QED
  BY <1>9, <1>12

\* Every step of catalog_apply is a step of OrderedApply, or none of its business.
LEMMA ImplementsNext ==
    ASSUME IndInv, LinkInv, ApplyInv, Fits, [Next]_vars
    PROVE  [Ordered!Next]_(Ordered!vars)
<1>1. CASE ApplyResource
  BY <1>1, ImplementsTurn DEF Ordered!Next
<1>2. CASE ~ApplyResource
  <2>1. catalog' = catalog
    BY CatalogFixed
  <2>2. /\ Idx' = Idx /\ Count' = Count
        /\ \A x : Prerequisites(x)' = Prerequisites(x) /\ Notifies(x)' = Notifies(x)
    BY <2>1, DeclaredFixed
  <2>3. UNCHANGED Ordered!catalogVars
    BY <2>1, <2>2 DEF Ordered!catalogVars, HasResource
  <2>4. UNCHANGED <<outcome, changed, refreshed>>
    BY <1>2 DEF Next, vars, Reject, ParseResources, extract_dependencies, extract_edges,
           add_file_autorequires, Link, StartSort, SeedQueue, Dequeue, Release, FinishSort,
           SkipEntry, Return, applyVars
  <2>5. CASE Reject
    <3>1. ret' \in {-1, 0} /\ ~(phase = "done") /\ phase' = "done"
      BY <2>5 DEF Reject
    <3>2. ~Readable
      BY <2>5, CountType, BoundsAssumption DEF Reject, Readable, IndInv, TypeOK
    <3>3. Ordered!Return
      BY <2>3, <2>4, <3>1, <3>2 DEF Ordered!Return, Readable
    <3> QED
      BY <3>3 DEF Ordered!Next
  <2>6. CASE Return
    <3>1. ret' = failures /\ phase = "apply" /\ phase' = "done" /\ cursor = Count + 1 /\ Readable
      BY <2>6 DEF Return, LinkInv
    <3>2. Passed = Idx
      BY <3>1, OrderPermutes DEF Passed, Idx
    <3>3. Ordered!Applied = {i \in Idx : HasResource(i)}
      BY <3>2 DEF Ordered!Applied, ApplyInv, Applied
    <3>4. ret' = Cardinality({i \in {j \in Idx : HasResource(j) /\ catalog.providers[j] # "none"} :
                                 outcome[i] = "FAILED"})
      <4>1. FailedEntries = {i \in {j \in Idx : HasResource(j) /\ catalog.providers[j] # "none"} :
                                outcome[i] = "FAILED"}
        BY DEF FailedEntries, ApplyInv, Applied
      <4> QED
        BY <3>1, <4>1 DEF ApplyInv
    <3>5. Ordered!Return
      <4>1. catalog.form = "catalog" /\ Count <= MaxResources
        BY <3>1 DEF Readable
      <4>2. ~(phase = "done") /\ (phase = "done")' = TRUE
        BY <3>1
      <4>3. \A S : Ordered!Cardinality(S) = Cardinality(S)
        BY DEF Ordered!Cardinality, Cardinality
      <4> QED
        BY <2>3, <2>4, <3>3, <3>4, <4>1, <4>2, <4>3, Zenon DEF Ordered!Return
    <3> QED
      BY <3>5 DEF Ordered!Next
  <2>7. CASE ~Reject /\ ~Return
    <3>1. ret' = ret /\ (phase' = "done" <=> phase = "done")
      BY <1>2, <2>7 DEF Next, vars, ParseResources, extract_dependencies, extract_edges,
             add_file_autorequires, Link, StartSort, SeedQueue, Dequeue, Release, FinishSort,
             SkipEntry, applyVars
    <3> QED
      BY <2>3, <2>4, <3>1 DEF Ordered!vars
  <2> QED
    BY <2>5, <2>6, <2>7
<1> QED
  BY <1>1, <1>2

\* catalog_apply keeps its promise on every catalog whose relationships fit in
\* the tables of the entries: each resource once, in a declared order if there
\* is one, refreshed at its turn exactly if something it listens to changed
\* before, and the failures counted.
THEOREM ApplyImplementsOrdered == Spec /\ Fits => Implements
<1>1. Init => Ordered!Init
  BY ImplementsInit
<1>2. IndInv /\ LinkInv /\ ApplyInv /\ Fits /\ [Next]_vars => [Ordered!Next]_(Ordered!vars)
  BY ImplementsNext
<1>3. Fits /\ [Next]_vars => Fits'
  BY CatalogFixed, DeclaredFixed
<1> QED
  BY <1>1, <1>2, <1>3, ApplyInvariance, PTL DEF Spec, Implements, Ordered!Spec
=============================================================================
