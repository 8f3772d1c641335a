------------------------ MODULE CatalogServer_proofs ------------------------
(***************************************************************************)
(* Proofs about CatalogServer, for any nodes, manifests, changes of facts  *)
(* and faults: what a catalog may hold, and that PuppetDB is never behind  *)
(* the agents.                                                             *)
(***************************************************************************)
EXTENDS CatalogServer, SequenceTheorems, TLAPS

Requests == [node : Nodes, facts : Version, awaited : BOOLEAN, phase : Phases,
             at : Nat \ {0}, failed : BOOLEAN, entries : SUBSET Entries,
             registered : BOOLEAN]

Calls == [facts : Version, awaited : BOOLEAN]

Tables == [nodes    : SUBSET Nodes,
           facts    : [Nodes -> Version \cup {none}],
           catalogs : [Nodes -> Catalogs \cup {none}],
           exported : [Resources -> [node : Nodes, value : Version] \cup {none}]]

\* The manifest of n has a statement about r.
Has(n, op, r) == \E i \in DOMAIN manifest[n] : manifest[n][i].op = op /\ manifest[n][i].res = r

\* Entries that a catalog of n may have.
Once(entries) == \A d, e \in entries : d.res = e.res => d = e

Rightful(n, entries) ==
    \A e \in entries : /\ e.value <= facts[e.from]
                       /\ Has(e.from, IF e.from = n THEN "declare" ELSE "export", e.res)

\* The rows of exported resources are what the exporters may export, and the
\* catalog in the making is like those that are kept.
ExportsInv ==
    \A r \in Resources : tables.exported[r] # none =>
        /\ tables.exported[r].value <= facts[tables.exported[r].node]
        /\ Has(tables.exported[r].node, "export", r)

EntriesInv == req # none => Once(req.entries) /\ Rightful(req.node, req.entries)

\* All that is known of n is at most as new as v.
NoNewer(n, v) ==
    /\ tables.facts[n] # none => tables.facts[n] <= v
    /\ tables.catalogs[n] # none => tables.catalogs[n].facts <= v
    /\ applied[n] # none => applied[n].facts <= v

\* The requests of a node are served in the order it sent them, and its facts
\* only grow.
OrderInv ==
    /\ \A n \in Nodes :
          /\ NoNewer(n, facts[n])
          /\ \A i \in DOMAIN inbox[n] :
                /\ NoNewer(n, inbox[n][i].facts) /\ inbox[n][i].facts <= facts[n]
                /\ \A j \in DOMAIN inbox[n] : i <= j => inbox[n][i].facts <= inbox[n][j].facts
    /\ req # none =>
          /\ NoNewer(req.node, req.facts) /\ req.facts <= facts[req.node]
          /\ \A i \in DOMAIN inbox[req.node] : req.facts <= inbox[req.node][i].facts

\* What the request in the making has stored.
StoredInv ==
    req # none /\ req.node \notin missed =>
        /\ req.phase \in {"catalog", "answer"} => tables.facts[req.node] = req.facts
        /\ req.phase = "answer" => tables.catalogs[req.node] = Compiled

\* The catalogs that are kept.
Right(n, c) == c # none => Once(c.entries) /\ Rightful(n, c.entries)

KeptInv == \A n \in Nodes : Right(n, applied[n]) /\ Right(n, tables.catalogs[n])

TypeInv ==
    /\ manifest \in Manifests
    /\ facts \in [Nodes -> Version]
    /\ inbox \in [Nodes -> Seq(Calls)]
    /\ req = none \/ req \in Requests
    /\ tables \in Tables
    /\ applied \in [Nodes -> Catalogs \cup {none}]
    /\ missed \subseteq Nodes
    /\ faults \in 0 .. MaxFaults

IndInv ==
    /\ TypeInv /\ KeptInv /\ StoreAhead
    /\ ExportsInv /\ EntriesInv /\ OrderInv /\ StoredInv
-----------------------------------------------------------------------------
(* What the invariant says of the properties.                              *)

LEMMA IndInvImplies == IndInv => CatalogsRight /\ StoreAhead
<1> SUFFICES ASSUME IndInv PROVE CatalogsRight
  BY DEF IndInv
<1>1. TypeOK
  BY DEF IndInv, TypeInv, TypeOK, Requests, Tables, Calls
<1>2. EachResourceOnce
  BY DEF IndInv, KeptInv, Right, Once, EachResourceOnce, CatalogsOf
<1>3. OnlyExportsOfOthers
  <2> SUFFICES ASSUME NEW n \in Nodes, NEW c \in CatalogsOf(n), NEW e \in c.entries
               PROVE  /\ e.value <= facts[e.from]
                      /\ Has(e.from, IF e.from = n THEN "declare" ELSE "export", e.res)
    BY DEF OnlyExportsOfOthers, Has
  <2> QED
    BY DEF IndInv, KeptInv, Right, Rightful, CatalogsOf
<1> QED
  BY <1>1, <1>2, <1>3 DEF CatalogsRight
-----------------------------------------------------------------------------
(* The agents.                                                             *)

\* The facts of a node only grow, so what was right stays right.
LEMMA FactsGrow ==
    ASSUME IndInv, manifest' = manifest, facts' \in [Nodes -> Version],
           \A n \in Nodes : facts[n] <= facts'[n],
           tables' = tables, applied' = applied, missed' = missed
    PROVE  /\ KeptInv' /\ ExportsInv' /\ StoreAhead'
           /\ req' = req => EntriesInv'
<1>0. \A n \in Nodes : facts[n] \in Int /\ facts'[n] \in Int
  BY BoundsAssumption DEF IndInv, TypeInv, Version
<1>1. \A e \in Entries : e.value \in Int /\ e.from \in Nodes
  BY BoundsAssumption DEF Entries, Version
<1>2. \A S \in SUBSET Entries : \A n : Rightful(n, S) =>
         \A e \in S : /\ e.value <= facts'[e.from]
                      /\ Has(e.from, IF e.from = n THEN "declare" ELSE "export", e.res)
  BY <1>0, <1>1 DEF Rightful
<1>3. KeptInv'
  <2>1. \A n \in Nodes : /\ applied[n] # none => applied[n].entries \in SUBSET Entries
                         /\ tables.catalogs[n] # none => tables.catalogs[n].entries \in SUBSET Entries
    BY DEF IndInv, TypeInv, Tables, Catalogs
  <2>2. ASSUME NEW n \in Nodes, NEW c \in {applied[n], tables.catalogs[n]}, c # none
        PROVE  Once(c.entries) /\ \A e \in c.entries :
                  /\ e.value <= facts'[e.from]
                  /\ Has(e.from, IF e.from = n THEN "declare" ELSE "export", e.res)
    <3>1. Once(c.entries) /\ Rightful(n, c.entries) /\ c.entries \in SUBSET Entries
      BY <2>1, <2>2 DEF IndInv, KeptInv, Right
    <3> QED
      BY <1>2, <3>1
  <2> QED
    BY <2>2 DEF KeptInv, Right, Rightful, Has
<1>4. ExportsInv'
  <2>1. \A r \in Resources : tables.exported[r] # none =>
           tables.exported[r].node \in Nodes /\ tables.exported[r].value \in Int
    BY BoundsAssumption DEF IndInv, TypeInv, Tables, Version
  <2> QED
    BY <1>0, <2>1 DEF IndInv, ExportsInv, Has
<1>5. StoreAhead'
  BY DEF IndInv, StoreAhead, FactsBeforeCatalog, StoredBeforeApplied
<1>6. ASSUME req' = req PROVE EntriesInv'
  <2>1. req # none => req.entries \in SUBSET Entries
    BY DEF IndInv, TypeInv, Requests
  <2>2. req # none => Once(req.entries) /\ Rightful(req.node, req.entries)
    BY DEF IndInv, EntriesInv
  <2>3. req # none => \A e \in req.entries :
           /\ e.value <= facts'[e.from]
           /\ Has(e.from, IF e.from = req.node THEN "declare" ELSE "export", e.res)
    BY <1>2, <2>1, <2>2
  <2> QED
    BY <1>6, <2>2, <2>3 DEF EntriesInv, Rightful, Has
<1> QED
  BY <1>3, <1>4, <1>5, <1>6

\* The numbers the versions are.
LEMMA Versions ==
    ASSUME TypeInv
    PROVE  /\ \A v \in Version : v \in Int
           /\ \A n \in Nodes : /\ facts[n] \in Int
                               /\ tables.facts[n] # none => tables.facts[n] \in Int
                               /\ tables.catalogs[n] # none => tables.catalogs[n].facts \in Int
                               /\ applied[n] # none => applied[n].facts \in Int
                               /\ Len(inbox[n]) \in Nat /\ DOMAIN inbox[n] = 1 .. Len(inbox[n])
                               /\ \A i \in DOMAIN inbox[n] : /\ inbox[n][i] \in Calls
                                                             /\ inbox[n][i].facts \in Version
           /\ req # none => req.node \in Nodes /\ req.facts \in Version /\ req.facts \in Int
<1>1. \A v \in Version : v \in Int
  BY BoundsAssumption DEF Version
<1>2. ASSUME NEW n \in Nodes
      PROVE  /\ Len(inbox[n]) \in Nat /\ DOMAIN inbox[n] = 1 .. Len(inbox[n])
             /\ \A i \in DOMAIN inbox[n] : inbox[n][i] \in Calls /\ inbox[n][i].facts \in Version
  <2>1. inbox[n] \in Seq(Calls)
    BY DEF TypeInv
  <2>2. Len(inbox[n]) \in Nat /\ DOMAIN inbox[n] = 1 .. Len(inbox[n])
    BY <2>1
  <2>3. \A i \in DOMAIN inbox[n] : inbox[n][i] \in Calls
    BY <2>1, <2>2
  <2>4. \A c \in Calls : c.facts \in Version
    BY DEF Calls
  <2> QED
    BY <2>2, <2>3, <2>4
<1>3. \A n \in Nodes : /\ facts[n] \in Version
                       /\ tables.facts[n] # none => tables.facts[n] \in Version
                       /\ tables.catalogs[n] # none => tables.catalogs[n].facts \in Version
                       /\ applied[n] # none => applied[n].facts \in Version
  BY DEF TypeInv, Tables, Catalogs
<1>4. req # none => req.node \in Nodes /\ req.facts \in Version
  BY DEF TypeInv, Requests
<1> QED
  BY <1>1, <1>2, <1>3, <1>4

LEMMA ChangeFactsStep ==
    ASSUME IndInv, NEW n \in Nodes, ChangeFacts(n)
    PROVE  IndInv'
<1>1. /\ facts' = [facts EXCEPT ![n] = @ + 1] /\ facts[n] < MaxFacts
      /\ UNCHANGED <<manifest, inbox, req, tables, applied, missed, faults>>
  BY DEF ChangeFacts
<1>2. facts \in [Nodes -> Version] /\ facts[n] + 1 \in Version
  BY <1>1, BoundsAssumption DEF IndInv, TypeInv, Version
<1>3. facts' \in [Nodes -> Version] /\ \A m \in Nodes : facts[m] <= facts'[m]
  <2>1. facts' \in [Nodes -> Version]
    BY <1>1, <1>2
  <2>2. \A m \in Nodes : facts[m] \in Int /\ facts'[m] = IF m = n THEN facts[n] + 1 ELSE facts[m]
    BY <1>1, <1>2, Versions DEF IndInv
  <2> QED
    BY <2>1, <2>2
<1>4. TypeInv'
  BY <1>1, <1>3 DEF IndInv, TypeInv
<1>5. KeptInv' /\ ExportsInv' /\ StoreAhead' /\ EntriesInv'
  BY <1>1, <1>3, FactsGrow
<1>6. StoredInv'
  BY <1>1 DEF IndInv, StoredInv, Compiled
<1>7. \A m \in Nodes : facts[m] \in Int /\ facts'[m] \in Int
  BY <1>2, <1>3, BoundsAssumption DEF Version
<1>8. OrderInv'
  <2>1. ASSUME NEW m \in Nodes
        PROVE  /\ tables.facts[m] # none => tables.facts[m] <= facts'[m]
               /\ tables.catalogs[m] # none => tables.catalogs[m].facts <= facts'[m]
               /\ applied[m] # none => applied[m].facts <= facts'[m]
               /\ \A i \in DOMAIN inbox[m] : inbox[m][i].facts <= facts'[m]
    BY <1>3, <1>7, Versions DEF IndInv, OrderInv, NoNewer
  <2>2. req # none => req.facts <= facts'[req.node]
    BY <1>3, <1>7, Versions DEF IndInv, OrderInv
  <2> QED
    BY <1>1, <2>1, <2>2 DEF IndInv, OrderInv, NoNewer
<1> QED
  BY <1>4, <1>5, <1>6, <1>8 DEF IndInv

\* The parts that requests on their way have nothing to do with.
LEMMA InboxFrame ==
    ASSUME IndInv, UNCHANGED <<manifest, facts, tables, applied, missed>>
    PROVE  KeptInv' /\ ExportsInv' /\ StoreAhead'
<1>1. /\ facts' \in [Nodes -> Version] /\ \A n \in Nodes : facts[n] <= facts'[n]
  BY BoundsAssumption DEF IndInv, TypeInv, Version
<1> QED
  BY <1>1, FactsGrow

LEMMA AskStep ==
    ASSUME IndInv, NEW n \in Nodes, Ask(n)
    PROVE  IndInv'
<1> DEFINE call == [facts |-> facts[n], awaited |-> TRUE]
<1>1. /\ inbox' = [inbox EXCEPT ![n] = Append(@, call)]
      /\ UNCHANGED <<manifest, facts, req, tables, applied, missed, faults>>
  BY DEF Ask
<1>2. call \in Calls /\ inbox \in [Nodes -> Seq(Calls)] /\ call.facts = facts[n]
  BY DEF IndInv, TypeInv, Calls
<1> HIDE DEF call
<1>3. /\ inbox' \in [Nodes -> Seq(Calls)]
      /\ inbox'[n] = Append(inbox[n], call)
      /\ \A m \in Nodes : m # n => inbox'[m] = inbox[m]
  BY <1>1, <1>2
<1>4. /\ DOMAIN inbox'[n] = 1 .. (Len(inbox[n]) + 1)
      /\ inbox'[n][Len(inbox[n]) + 1] = call
      /\ \A i \in DOMAIN inbox[n] : inbox'[n][i] = inbox[n][i]
  <2>1. inbox[n] \in Seq(Calls)
    BY <1>2
  <2> QED
    BY <1>2, <1>3, <2>1
<1>5. TypeInv'
  BY <1>1, <1>3 DEF IndInv, TypeInv
<1>6. KeptInv' /\ ExportsInv' /\ StoreAhead'
  BY <1>1, InboxFrame
<1>7. EntriesInv' /\ StoredInv'
  BY <1>1 DEF IndInv, EntriesInv, StoredInv, Compiled, Rightful, Has
<1>8. OrderInv'
  <2>1. \A i \in DOMAIN inbox'[n] : \/ i \in DOMAIN inbox[n] /\ i <= Len(inbox[n])
                                    \/ i = Len(inbox[n]) + 1
    BY <1>4, Versions DEF IndInv
  <2>2. Len(inbox[n]) \in Nat /\ facts[n] \in Int
    BY Versions DEF IndInv
  <2>3. ASSUME NEW i \in DOMAIN inbox'[n]
        PROVE  /\ tables.facts[n] # none => tables.facts[n] <= inbox'[n][i].facts
               /\ tables.catalogs[n] # none => tables.catalogs[n].facts <= inbox'[n][i].facts
               /\ applied[n] # none => applied[n].facts <= inbox'[n][i].facts
               /\ inbox'[n][i].facts <= facts[n]
               /\ req # none /\ req.node = n => req.facts <= inbox'[n][i].facts
               /\ \A j \in DOMAIN inbox'[n] : i <= j => inbox'[n][i].facts <= inbox'[n][j].facts
    <3>1. CASE i \in DOMAIN inbox[n] /\ i <= Len(inbox[n])
      BY <1>2, <1>4, <2>1, <3>1 DEF IndInv, OrderInv, NoNewer
    <3>2. CASE i = Len(inbox[n]) + 1
      BY <1>2, <1>4, <2>1, <2>2, <3>2 DEF IndInv, OrderInv, NoNewer
    <3> QED
      BY <2>1, <3>1, <3>2
  <2>4. \A m \in Nodes : NoNewer(m, facts[m])'
    BY <1>1 DEF IndInv, OrderInv, NoNewer
  <2>5. ASSUME NEW m \in Nodes
        PROVE  \A i \in DOMAIN inbox'[m] :
                 /\ NoNewer(m, inbox[m][i].facts)' /\ inbox'[m][i].facts <= facts'[m]
                 /\ \A j \in DOMAIN inbox'[m] : i <= j => inbox'[m][i].facts <= inbox'[m][j].facts
    <3>1. CASE m = n
      BY <1>1, <2>3, <3>1 DEF NoNewer
    <3>2. CASE m # n
      BY <1>1, <1>3, <3>2 DEF IndInv, OrderInv, NoNewer
    <3> QED
      BY <3>1, <3>2
  <2>6. req' # none =>
          /\ NoNewer(req.node, req.facts)' /\ req'.facts <= facts'[req'.node]
          /\ \A i \in DOMAIN inbox'[req'.node] : req'.facts <= inbox'[req'.node][i].facts
    <3>1. req # none => req.node \in Nodes
      BY Versions DEF IndInv
    <3>2. CASE req = none
      BY <1>1, <3>2
    <3>3. CASE req # none /\ req.node = n
      BY <1>1, <2>3, <3>3 DEF IndInv, OrderInv, NoNewer
    <3>4. CASE req # none /\ req.node # n
      BY <1>1, <1>3, <3>1, <3>4 DEF IndInv, OrderInv, NoNewer
    <3> QED
      BY <3>2, <3>3, <3>4
  <2> QED
    BY <2>4, <2>5, <2>6 DEF OrderInv
<1> QED
  BY <1>5, <1>6, <1>7, <1>8 DEF IndInv

LEMMA TimeoutStep ==
    ASSUME IndInv, NEW n \in Nodes, Timeout(n)
    PROVE  IndInv'
<1>1. /\ inbox' = [inbox EXCEPT ![n] = [i \in DOMAIN @ |-> [@[i] EXCEPT !.awaited = FALSE]]]
      /\ req' = IF req # none /\ req.node = n THEN [req EXCEPT !.awaited = FALSE] ELSE req
      /\ UNCHANGED <<manifest, facts, tables, applied, missed>>
  BY DEF Timeout
<1>2. faults' \in 0 .. MaxFaults
  BY BoundsAssumption DEF Timeout, IndInv, TypeInv
<1>3. inbox \in [Nodes -> Seq(Calls)] /\ inbox[n] \in Seq(Calls)
  BY DEF IndInv, TypeInv
<1> DEFINE quiet == [i \in DOMAIN inbox[n] |-> [inbox[n][i] EXCEPT !.awaited = FALSE]]
<1>4. /\ quiet \in Seq(Calls) /\ DOMAIN quiet = DOMAIN inbox[n]
      /\ \A i \in DOMAIN inbox[n] : quiet[i].facts = inbox[n][i].facts
  <2>1. Len(inbox[n]) \in Nat /\ DOMAIN inbox[n] = 1 .. Len(inbox[n])
    BY <1>3
  <2>2. \A i \in 1 .. Len(inbox[n]) : inbox[n][i] \in Calls
    BY <1>3
  <2>3. \A c \in Calls : [c EXCEPT !.awaited = FALSE] \in Calls
                         /\ [c EXCEPT !.awaited = FALSE].facts = c.facts
    BY DEF Calls
  <2>4. \A i \in 1 .. Len(inbox[n]) : [inbox[n][i] EXCEPT !.awaited = FALSE] \in Calls
    BY <2>2, <2>3
  <2>5. quiet = [i \in 1 .. Len(inbox[n]) |-> [inbox[n][i] EXCEPT !.awaited = FALSE]]
    BY <2>1
  <2>6. quiet \in Seq(Calls)
    BY <2>1, <2>4, <2>5, IsASeq
  <2> QED
    BY <2>1, <2>2, <2>3, <2>5, <2>6
<1>5. inbox' = [inbox EXCEPT ![n] = quiet]
  BY <1>1
<1> HIDE DEF quiet
<1>6. /\ inbox' \in [Nodes -> Seq(Calls)]
      /\ \A m \in Nodes : /\ DOMAIN inbox'[m] = DOMAIN inbox[m]
                          /\ \A i \in DOMAIN inbox[m] : inbox'[m][i].facts = inbox[m][i].facts
  BY <1>3, <1>4, <1>5
<1>7. /\ req = none => req' = none
      /\ req # none => /\ req' \in Requests /\ req \in Requests
                       /\ req'.node = req.node /\ req'.facts = req.facts /\ req'.phase = req.phase
                       /\ req'.failed = req.failed /\ req'.entries = req.entries
  BY <1>1 DEF IndInv, TypeInv, Requests
<1>8. TypeInv'
  BY <1>1, <1>2, <1>6, <1>7 DEF IndInv, TypeInv
<1>9. KeptInv' /\ ExportsInv' /\ StoreAhead'
  BY <1>1, InboxFrame
<1>10. req' # none => req # none
  BY <1>7
<1>11. EntriesInv'
  <2> SUFFICES ASSUME req' # none PROVE Once(req'.entries) /\ Rightful(req.node, req.entries)'
    BY DEF EntriesInv
  <2> QED
    BY <1>1, <1>7, <1>10 DEF IndInv, EntriesInv, Rightful, Has
<1>12. StoredInv'
  BY <1>1, <1>7, <1>10 DEF IndInv, StoredInv, Compiled
<1>13. OrderInv'
  <2>1. \A m \in Nodes : \A i \in DOMAIN inbox[m] : NoNewer(m, inbox[m][i].facts)'
    BY <1>1, <1>6 DEF IndInv, OrderInv, NoNewer
  <2>2. \A m \in Nodes : NoNewer(m, facts[m])'
    BY <1>1 DEF IndInv, OrderInv, NoNewer
  <2>3. req' # none => NoNewer(req.node, req.facts)'
    BY <1>1, <1>7, <1>10 DEF IndInv, OrderInv, NoNewer
  <2>4. req # none => req.node \in Nodes
    BY Versions DEF IndInv
  <2>5. ASSUME NEW m \in Nodes, NEW i \in DOMAIN inbox'[m]
        PROVE  /\ NoNewer(m, inbox[m][i].facts)' /\ inbox'[m][i].facts <= facts'[m]
               /\ \A j \in DOMAIN inbox'[m] : i <= j => inbox'[m][i].facts <= inbox'[m][j].facts
    <3>1. i \in DOMAIN inbox[m] /\ inbox'[m][i].facts = inbox[m][i].facts
      BY <1>6, <2>5
    <3>2. /\ inbox[m][i].facts <= facts[m]
          /\ \A j \in DOMAIN inbox[m] : i <= j => inbox[m][i].facts <= inbox[m][j].facts
      BY <3>1 DEF IndInv, OrderInv
    <3>3. \A j \in DOMAIN inbox'[m] : i <= j => inbox'[m][i].facts <= inbox'[m][j].facts
      BY <1>6, <3>1, <3>2
    <3>4. NoNewer(m, inbox[m][i].facts)'
      BY <2>1, <3>1
    <3> QED
      BY <1>1, <3>1, <3>2, <3>3, <3>4
  <2>6. ASSUME req' # none
        PROVE  /\ req'.facts <= facts'[req'.node]
               /\ \A i \in DOMAIN inbox'[req'.node] : req'.facts <= inbox'[req'.node][i].facts
    <3>1. /\ req.facts <= facts[req.node]
          /\ \A i \in DOMAIN inbox[req.node] : req.facts <= inbox[req.node][i].facts
      BY <1>10, <2>6 DEF IndInv, OrderInv
    <3> QED
      BY <1>1, <1>6, <1>7, <1>10, <2>4, <2>6, <3>1
  <2> QED
    BY <2>2, <2>3, <2>5, <2>6 DEF OrderInv
<1> QED
  BY <1>8, <1>9, <1>11, <1>12, <1>13 DEF IndInv

\* The oldest request of a node is served first.
LEMMA AcceptStep ==
    ASSUME IndInv, NEW n \in Nodes, Accept(n)
    PROVE  IndInv'
<1>1. /\ req = none /\ inbox[n] # <<>>
      /\ req' = [node       |-> n,
                 facts      |-> Head(inbox[n]).facts,
                 awaited    |-> Head(inbox[n]).awaited,
                 phase      |-> "compile",
                 at         |-> 1,
                 failed     |-> FALSE,
                 entries    |-> {},
                 registered |-> FALSE]
      /\ inbox' = [inbox EXCEPT ![n] = Tail(@)]
      /\ UNCHANGED <<manifest, facts, tables, applied, missed, faults>>
  BY DEF Accept
<1>2. inbox \in [Nodes -> Seq(Calls)] /\ inbox[n] \in Seq(Calls)
  BY DEF IndInv, TypeInv
<1>3. /\ Len(inbox[n]) \in Nat /\ 1 \in DOMAIN inbox[n] /\ Head(inbox[n]) = inbox[n][1]
      /\ inbox[n][1] \in Calls
      /\ DOMAIN inbox[n] = 1 .. Len(inbox[n])
      /\ Tail(inbox[n]) \in Seq(Calls) /\ DOMAIN Tail(inbox[n]) = 1 .. (Len(inbox[n]) - 1)
      /\ \A i \in 1 .. (Len(inbox[n]) - 1) : Tail(inbox[n])[i] = inbox[n][i + 1]
  BY <1>1, <1>2
<1>4. /\ inbox' \in [Nodes -> Seq(Calls)] /\ inbox'[n] = Tail(inbox[n])
      /\ \A m \in Nodes : m # n => inbox'[m] = inbox[m]
  BY <1>1, <1>2, <1>3
<1>5. /\ req' \in Requests /\ req'.node = n /\ req'.facts = inbox[n][1].facts
      /\ req'.phase = "compile" /\ req'.entries = {}
  <2>1. inbox[n][1].facts \in Version /\ inbox[n][1].awaited \in BOOLEAN
    BY <1>3 DEF Calls
  <2> QED
    BY <1>1, <1>3, <2>1 DEF Requests, Phases
<1>6. TypeInv'
  BY <1>1, <1>4, <1>5 DEF IndInv, TypeInv
<1>7. KeptInv' /\ ExportsInv' /\ StoreAhead'
  BY <1>1, InboxFrame
<1>8. EntriesInv' /\ StoredInv'
  BY <1>5 DEF EntriesInv, StoredInv, Once, Rightful
<1>9. \A i \in DOMAIN inbox'[n] : /\ i + 1 \in DOMAIN inbox[n] /\ inbox'[n][i] = inbox[n][i + 1]
                                  /\ i \in Int /\ 1 <= i + 1
  BY <1>3, <1>4
<1>10. ASSUME NEW i \in DOMAIN inbox'[n]
       PROVE  /\ NoNewer(n, inbox'[n][i].facts) /\ inbox'[n][i].facts <= facts[n]
              /\ req'.facts <= inbox'[n][i].facts
              /\ \A j \in DOMAIN inbox'[n] : i <= j => inbox'[n][i].facts <= inbox'[n][j].facts
  <2>1. \A j \in DOMAIN inbox'[n] : i <= j => i + 1 <= j + 1
    BY <1>9
  <2>2. /\ NoNewer(n, inbox[n][i + 1].facts) /\ inbox[n][i + 1].facts <= facts[n]
        /\ inbox[n][1].facts <= inbox[n][i + 1].facts
        /\ \A j \in DOMAIN inbox[n] : i + 1 <= j => inbox[n][i + 1].facts <= inbox[n][j].facts
    BY <1>3, <1>9 DEF IndInv, OrderInv
  <2> QED
    BY <1>5, <1>9, <2>1, <2>2
<1>11. NoNewer(n, req'.facts) /\ req'.facts <= facts[n]
  BY <1>3, <1>5 DEF IndInv, OrderInv
<1>12. OrderInv'
  <2>1. ASSUME NEW m \in Nodes
        PROVE  /\ NoNewer(m, facts[m])'
               /\ \A i \in DOMAIN inbox'[m] :
                    /\ NoNewer(m, inbox[m][i].facts)' /\ inbox'[m][i].facts <= facts'[m]
                    /\ \A j \in DOMAIN inbox'[m] : i <= j => inbox'[m][i].facts <= inbox'[m][j].facts
    <3>1. CASE m = n
      BY <1>1, <1>10, <3>1 DEF IndInv, OrderInv, NoNewer
    <3>2. CASE m # n
      BY <1>1, <1>4, <3>2 DEF IndInv, OrderInv, NoNewer
    <3> QED
      BY <3>1, <3>2
  <2>2. NoNewer(req.node, req.facts)'
    BY <1>1, <1>5, <1>11 DEF NoNewer
  <2> QED
    BY <1>1, <1>5, <1>10, <1>11, <2>1, <2>2 DEF OrderInv
<1> QED
  BY <1>6, <1>7, <1>8, <1>12 DEF IndInv

LEMMA RestartStep ==
    ASSUME IndInv, Restart
    PROVE  IndInv'
<1>1. /\ req' = none /\ inbox' = [n \in Nodes |-> <<>>]
      /\ UNCHANGED <<manifest, facts, tables, applied, missed>>
  BY DEF Restart
<1>2. faults' \in 0 .. MaxFaults
  BY BoundsAssumption DEF Restart, IndInv, TypeInv
<1>3. inbox' \in [Nodes -> Seq(Calls)] /\ \A n \in Nodes : DOMAIN inbox'[n] = {}
  BY <1>1
<1>4. TypeInv'
  BY <1>1, <1>2, <1>3 DEF IndInv, TypeInv
<1>5. KeptInv' /\ ExportsInv' /\ StoreAhead'
  BY <1>1, InboxFrame
<1>6. EntriesInv' /\ StoredInv'
  BY <1>1 DEF EntriesInv, StoredInv
<1>7. OrderInv'
  <2>1. \A n \in Nodes : NoNewer(n, facts[n])'
    BY <1>1 DEF IndInv, OrderInv, NoNewer
  <2> QED
    BY <1>1, <1>3, <2>1 DEF OrderInv
<1> QED
  BY <1>4, <1>5, <1>6, <1>7 DEF IndInv
-----------------------------------------------------------------------------
(* The server.                                                             *)

\* A step of the server in the middle of a request: it may write one row, of
\* what this request has found out.
LEMMA ServeStep ==
    ASSUME IndInv, req # none, req' \in Requests, req'.node = req.node, req'.facts = req.facts,
           UNCHANGED <<manifest, facts, inbox, applied>>,
           missed \subseteq missed', missed' \subseteq Nodes, faults' \in 0 .. MaxFaults,
           tables' \in Tables,
           \A n \in Nodes : \/ tables'.facts[n] = tables.facts[n]
                            \/ n = req.node /\ tables'.facts[n] = req.facts,
           \A n \in Nodes : \/ tables'.catalogs[n] = tables.catalogs[n]
                            \/ /\ n = req.node /\ tables'.catalogs[n] = Compiled
                               /\ n \notin missed => tables'.facts[n] = req.facts,
           \A r \in Resources : \/ tables'.exported[r] = tables.exported[r]
                                \/ /\ tables'.exported[r] = [node |-> req.node, value |-> req.facts]
                                   /\ Has(req.node, "export", r),
           Once(req'.entries), Rightful(req.node, req'.entries), StoredInv'
    PROVE  IndInv'
<1>1. /\ req \in Requests /\ req.node \in Nodes /\ req.facts \in Version /\ req.facts \in Int
      /\ req.facts <= facts[req.node]
  BY Versions DEF IndInv, TypeInv, OrderInv
<1>2. TypeInv'
  BY DEF IndInv, TypeInv
<1>3. Compiled # none /\ Compiled.facts = req.facts /\ Right(req.node, Compiled)
  <2>1. Compiled \in Catalogs /\ Compiled.facts = req.facts
        /\ Compiled.entries \in {{}, req.entries}
    BY <1>1 DEF Compiled, Catalogs, Requests
  <2>2. Once(req.entries) /\ Rightful(req.node, req.entries)
    BY DEF IndInv, EntriesInv
  <2>3. Once({}) /\ Rightful(req.node, {})
    BY DEF Once, Rightful
  <2> QED
    BY <2>1, <2>2, <2>3, NoneAssumption DEF Right
<1>4. KeptInv'
  <2>1. \A n \in Nodes : Right(n, applied[n]) /\ Right(n, tables'.catalogs[n])
    BY <1>3 DEF IndInv, KeptInv
  <2> QED
    BY <2>1 DEF KeptInv, Right, Rightful, Has
<1>5. ExportsInv'
  <2>1. ASSUME NEW r \in Resources, tables'.exported[r] # none
        PROVE  /\ tables'.exported[r].value <= facts[tables'.exported[r].node]
               /\ Has(tables'.exported[r].node, "export", r)
    <3>1. CASE tables'.exported[r] = tables.exported[r]
      BY <2>1, <3>1 DEF IndInv, ExportsInv
    <3>2. CASE tables'.exported[r] = [node |-> req.node, value |-> req.facts]
                 /\ Has(req.node, "export", r)
      BY <1>1, <3>2
    <3> QED
      BY <3>1, <3>2
  <2> QED
    BY <2>1 DEF ExportsInv, Has
<1>6. EntriesInv'
  BY DEF EntriesInv, Rightful, Has
<1>7. ASSUME NEW n \in Nodes, NEW v \in Int, NoNewer(n, v), n = req.node => req.facts <= v
      PROVE  NoNewer(n, v)'
  BY <1>3, <1>7 DEF NoNewer
<1>8. OrderInv'
  <2>1. ASSUME NEW n \in Nodes
        PROVE  /\ NoNewer(n, facts[n])'
               /\ \A i \in DOMAIN inbox[n] : NoNewer(n, inbox[n][i].facts)'
    <3>1. NoNewer(n, facts[n]) /\ \A i \in DOMAIN inbox[n] : NoNewer(n, inbox[n][i].facts)
      BY DEF IndInv, OrderInv
    <3>2. n = req.node => /\ req.facts <= facts[n]
                          /\ \A i \in DOMAIN inbox[n] : req.facts <= inbox[n][i].facts
      BY DEF IndInv, OrderInv
    <3>3. facts[n] \in Int /\ \A i \in DOMAIN inbox[n] : inbox[n][i].facts \in Int
      BY Versions DEF IndInv
    <3> QED
      BY <1>3, <3>1, <3>2, <3>3 DEF NoNewer
  <2>2. NoNewer(req.node, req.facts)'
    <3>1. NoNewer(req.node, req.facts)
      BY DEF IndInv, OrderInv
    <3> QED
      BY <1>1, <1>3, <3>1 DEF NoNewer
  <2> QED
    BY <2>1, <2>2 DEF IndInv, OrderInv
<1>9. FactsBeforeCatalog'
  <2> SUFFICES ASSUME NEW n \in Nodes, n \notin missed', tables'.catalogs[n] # none
               PROVE  /\ tables'.facts[n] # none
                      /\ tables'.catalogs[n].facts <= tables'.facts[n]
    BY DEF FactsBeforeCatalog
  <2>1. n \notin missed /\ req.facts # none
    BY <1>1, NoneAssumption
  <2>2. CASE tables'.catalogs[n] = tables.catalogs[n]
    <3>1. /\ tables.facts[n] # none /\ tables.catalogs[n].facts <= tables.facts[n]
      BY <2>1, <2>2 DEF IndInv, StoreAhead, FactsBeforeCatalog
    <3>2. n = req.node => tables.catalogs[n].facts <= req.facts
      BY <2>2 DEF IndInv, OrderInv, NoNewer
    <3> QED
      BY <2>1, <2>2, <3>1, <3>2
  <2>3. CASE n = req.node /\ tables'.catalogs[n] = Compiled /\ tables'.facts[n] = req.facts
    BY <1>1, <1>3, <2>1, <2>3
  <2> QED
    BY <2>1, <2>2, <2>3
<1>10. StoredBeforeApplied'
  <2> SUFFICES ASSUME NEW n \in Nodes, n \notin missed', applied[n] # none
               PROVE  /\ tables'.catalogs[n] # none
                      /\ applied[n].facts <= tables'.catalogs[n].facts
    BY DEF StoredBeforeApplied
  <2>1. /\ tables.catalogs[n] # none /\ applied[n].facts <= tables.catalogs[n].facts
        /\ n = req.node => applied[n].facts <= req.facts
    BY DEF IndInv, StoreAhead, StoredBeforeApplied, OrderInv, NoNewer
  <2> QED
    BY <1>3, <2>1
<1> QED
  BY <1>2, <1>4, <1>5, <1>6, <1>8, <1>9, <1>10 DEF IndInv, StoreAhead

\* The three ways of a store, and what they leave in the tables.
LEMMA StoreSteps ==
    ASSUME IndInv, req # none, NEW table \in {"facts", "catalogs", "exported"},
           NEW key, NEW row, NEW next, Store(table, key, row, next)
    PROVE  /\ missed \subseteq missed' /\ missed' \subseteq Nodes /\ faults' \in 0 .. MaxFaults
           /\ \/ /\ tables' = [tables EXCEPT !.nodes = @ \cup {req.node}]
                 /\ req' = [req EXCEPT !.registered = TRUE] /\ missed' = missed
              \/ /\ tables' = [tables EXCEPT ![table] = [@ EXCEPT ![key] = row]]
                 /\ req' = [next EXCEPT !.registered = FALSE] /\ missed' = missed
              \/ /\ tables' = tables /\ req.node \in missed'
                 /\ req' = [next EXCEPT !.registered = FALSE]
<1>1. missed \subseteq Nodes /\ faults \in 0 .. MaxFaults /\ req.node \in Nodes
  BY Versions DEF IndInv, TypeInv
<1>2. CASE Register(req.node) /\ UNCHANGED faults
  BY <1>1, <1>2 DEF Register
<1>3. CASE Put(table, key, row, next) /\ UNCHANGED faults
  BY <1>1, <1>3 DEF Put, Row
<1>4. CASE Missed(next) /\ faults' = faults + 1
  <2>1. faults' \in 0 .. MaxFaults
    BY <1>1, <1>4, BoundsAssumption DEF Missed
  <2> QED
    BY <1>1, <1>4, <2>1 DEF Missed
<1> QED
  BY <1>2, <1>3, <1>4 DEF Store

\* A node that was met, and what a request becomes on its way.
LEMMA Registering ==
    ASSUME TypeInv, req # none, tables' = [tables EXCEPT !.nodes = @ \cup {req.node}]
    PROVE  /\ tables' \in Tables /\ tables'.facts = tables.facts
           /\ tables'.catalogs = tables.catalogs /\ tables'.exported = tables.exported
  BY Versions DEF TypeInv, Tables

LEMMA OnTheWay ==
    ASSUME TypeInv, req # none
    PROVE  /\ req \in Requests
           /\ LET r == [req EXCEPT !.registered = TRUE]
              IN  /\ r \in Requests /\ r.node = req.node /\ r.facts = req.facts
                  /\ r.phase = req.phase /\ r.failed = req.failed /\ r.entries = req.entries
           /\ \A x \in Requests :
                 LET r == [x EXCEPT !.registered = FALSE]
                 IN  /\ r \in Requests /\ r.node = x.node /\ r.facts = x.facts
                     /\ r.phase = x.phase /\ r.failed = x.failed /\ r.entries = x.entries
           /\ /\ Onward \in Requests /\ Onward.node = req.node /\ Onward.facts = req.facts
              /\ Onward.phase = req.phase /\ Onward.failed = req.failed
              /\ Onward.entries = req.entries
           /\ \A s \in {"catalog", "answer"} :
                 LET r == [req EXCEPT !.phase = s]
                 IN  /\ r \in Requests /\ r.node = req.node /\ r.facts = req.facts
                     /\ r.phase = s /\ r.failed = req.failed /\ r.entries = req.entries
<1>1. req \in Requests
  BY DEF TypeInv
<1>2. req.at + 1 \in Nat \ {0}
  BY <1>1 DEF Requests
<1>3. /\ Onward \in Requests /\ Onward.node = req.node /\ Onward.facts = req.facts
      /\ Onward.phase = req.phase /\ Onward.failed = req.failed /\ Onward.entries = req.entries
  BY <1>1, <1>2 DEF Onward, Requests
<1>4. \A x \in Requests, b \in BOOLEAN :
         LET r == [x EXCEPT !.registered = b]
         IN  /\ r \in Requests /\ r.node = x.node /\ r.facts = x.facts
             /\ r.phase = x.phase /\ r.failed = x.failed /\ r.entries = x.entries
  BY DEF Requests
<1>5. \A s \in {"catalog", "answer"} :
         LET r == [req EXCEPT !.phase = s]
         IN  /\ r \in Requests /\ r.node = req.node /\ r.facts = req.facts
             /\ r.phase = s /\ r.failed = req.failed /\ r.entries = req.entries
  BY <1>1 DEF Requests, Phases
<1> QED
  BY <1>1, <1>3, <1>4, <1>5

\* What holds of the request holds of a copy that differs elsewhere.
LEMMA SameRequest ==
    ASSUME IndInv, req # none
    PROVE  Once(req.entries) /\ Rightful(req.node, req.entries)
  BY DEF IndInv, EntriesInv

LEMMA ExportStep ==
    ASSUME IndInv, Export
    PROVE  IndInv'
<1> DEFINE r == Code[req.at].res
           row == [node |-> req.node, value |-> req.facts]
<1>1. /\ req # none /\ req.phase = "compile" /\ Has(req.node, "export", r)
      /\ UNCHANGED <<manifest, facts, inbox, applied>>
      /\ Store("exported", r, row, Onward)
  BY DEF Export, Compiling, Code, Has
<1> HIDE DEF r
<1>2. /\ missed \subseteq missed' /\ missed' \subseteq Nodes /\ faults' \in 0 .. MaxFaults
      /\ \/ /\ tables' = [tables EXCEPT !.nodes = @ \cup {req.node}]
            /\ req' = [req EXCEPT !.registered = TRUE] /\ missed' = missed
         \/ /\ tables' = [tables EXCEPT !.exported = [@ EXCEPT ![r] = row]]
            /\ req' = [Onward EXCEPT !.registered = FALSE] /\ missed' = missed
         \/ /\ tables' = tables /\ req.node \in missed'
            /\ req' = [Onward EXCEPT !.registered = FALSE]
  BY <1>1, StoreSteps
<1>3. /\ req' \in Requests /\ req'.node = req.node /\ req'.facts = req.facts
      /\ req'.phase = "compile" /\ req'.entries = req.entries
  BY <1>1, <1>2, OnTheWay DEF IndInv
<1>4. StoredInv'
  BY <1>3 DEF StoredInv
<1>5. Once(req'.entries) /\ Rightful(req.node, req'.entries)
  BY <1>1, <1>3, SameRequest
<1>6. /\ tables' \in Tables /\ tables'.facts = tables.facts /\ tables'.catalogs = tables.catalogs
      /\ \A x \in Resources : \/ tables'.exported[x] = tables.exported[x]
                              \/ x = r /\ tables'.exported[x] = row
  <2>1. CASE tables' = [tables EXCEPT !.nodes = @ \cup {req.node}]
    BY <1>1, <2>1, Registering DEF IndInv
  <2>2. CASE tables' = [tables EXCEPT !.exported = [@ EXCEPT ![r] = row]]
    <3>1. row \in [node : Nodes, value : Version]
      BY <1>1, Versions DEF IndInv
    <3>2. tables \in Tables /\ tables.exported \in [Resources -> [node : Nodes, value : Version] \cup {none}]
      BY DEF IndInv, TypeInv, Tables
    <3> HIDE DEF row
    <3>3. /\ [tables.exported EXCEPT ![r] = row] \in [Resources -> [node : Nodes, value : Version] \cup {none}]
          /\ \A x \in Resources : \/ [tables.exported EXCEPT ![r] = row][x] = tables.exported[x]
                                  \/ x = r /\ [tables.exported EXCEPT ![r] = row][x] = row
      BY <3>1, <3>2
    <3> QED
      BY <2>2, <3>2, <3>3 DEF Tables
  <2>3. CASE tables' = tables
    BY <2>3 DEF IndInv, TypeInv
  <2> QED
    BY <1>2, <2>1, <2>2, <2>3
<1> QED
  BY <1>1, <1>2, <1>3, <1>4, <1>5, <1>6, ServeStep

\* A step that only goes on with the compilation.
LEMMA CompileStep ==
    ASSUME IndInv, req # none, req.phase = "compile", req' \in Requests, req'.node = req.node,
           req'.facts = req.facts, req'.phase = "compile",
           UNCHANGED <<manifest, facts, inbox, applied, tables>>,
           missed \subseteq missed', missed' \subseteq Nodes, faults' \in 0 .. MaxFaults,
           Once(req'.entries), Rightful(req.node, req'.entries)
    PROVE  IndInv'
<1>1. StoredInv'
  BY DEF StoredInv
<1>2. tables' \in Tables
  BY DEF IndInv, TypeInv
<1> QED
  BY <1>1, <1>2, ServeStep

LEMMA DeclareStep ==
    ASSUME IndInv, Declare
    PROVE  IndInv'
<1> DEFINE r == Code[req.at].res
           e == [res |-> r, from |-> req.node, value |-> req.facts]
<1>1. /\ req # none /\ req.phase = "compile" /\ Has(req.node, "declare", r)
      /\ UNCHANGED <<manifest, facts, inbox, applied, tables, missed, faults>>
      /\ req' = IF r \in Declared THEN Onward ELSE [Onward EXCEPT !.entries = @ \cup {e}]
      /\ req.at \in DOMAIN Code /\ Code[req.at].op = "declare"
  BY DEF Declare, Compiling, Code, Has
<1>2. /\ missed \subseteq missed' /\ missed' \subseteq Nodes /\ faults' \in 0 .. MaxFaults
  BY <1>1 DEF IndInv, TypeInv
<1>3. req.node \in Nodes /\ req.facts \in Version /\ req.facts <= facts[req.node]
  BY <1>1, Versions DEF IndInv, OrderInv
<1>4. r \in Resources
  <2>1. manifest[req.node] \in Seq(Statements)
    BY <1>3, ManifestsAssumption DEF IndInv, TypeInv
  <2>2. Code[req.at] \in Statements
    BY <1>1, <2>1 DEF Code
  <2> QED
    BY <1>1, <2>2 DEF Statements
<1> HIDE DEF r
<1>5. e \in Entries /\ e.res = r /\ e.from = req.node /\ e.value = req.facts
  BY <1>3, <1>4 DEF Entries
<1>6. Once(req.entries) /\ Rightful(req.node, req.entries)
  BY <1>1, SameRequest
<1> HIDE DEF e
<1>7. /\ req' \in Requests /\ req'.node = req.node /\ req'.facts = req.facts
      /\ req'.phase = "compile"
      /\ \/ req'.entries = req.entries
         \/ r \notin Declared /\ req'.entries = req.entries \cup {e}
  BY <1>1, <1>5, OnTheWay DEF IndInv, Requests
<1>8. Once(req'.entries) /\ Rightful(req.node, req'.entries)
  <2>1. CASE req'.entries = req.entries
    BY <1>6, <2>1
  <2>2. CASE r \notin Declared /\ req'.entries = req.entries \cup {e}
    <3>1. \A d \in req.entries : d.res # e.res
      BY <1>5, <2>2 DEF Declared
    <3>2. Once(req'.entries)
      BY <1>6, <2>2, <3>1 DEF Once
    <3>3. Rightful(req.node, req'.entries)
      BY <1>1, <1>3, <1>5, <1>6, <2>2 DEF Rightful
    <3> QED
      BY <3>2, <3>3
  <2> QED
    BY <1>7, <2>1, <2>2
<1> QED
  BY <1>1, <1>2, <1>7, <1>8, CompileStep

\* What is collected are rows of other nodes with names of their own.
LEMMA CollectStep ==
    ASSUME IndInv, Collect
    PROVE  IndInv'
<1> DEFINE E(r) == [res   |-> r,
                    from  |-> tables.exported[r].node,
                    value |-> tables.exported[r].value]
           new == {E(r) : r \in Collectable}
<1>1. /\ req # none /\ req.phase = "compile" /\ UNCHANGED <<manifest, facts, inbox, applied>>
  BY DEF Collect, Compiling
<1>2. Once(req.entries) /\ Rightful(req.node, req.entries)
  BY <1>1, SameRequest
<1>3. CASE req' = [Onward EXCEPT !.entries = @ \cup new] /\ UNCHANGED <<tables, missed, faults>>
  <2>1. /\ missed \subseteq missed' /\ missed' \subseteq Nodes /\ faults' \in 0 .. MaxFaults
    BY <1>3 DEF IndInv, TypeInv
  <2>2. ASSUME NEW r \in Collectable
        PROVE  /\ E(r) \in Entries /\ E(r).res = r /\ E(r).from # req.node /\ r \notin Declared
               /\ E(r).value <= facts[E(r).from] /\ Has(E(r).from, "export", r)
    <3>1. /\ r \in Resources /\ tables.exported[r] # none /\ r \notin Declared
          /\ tables.exported[r].node # req.node
      BY DEF Collectable, QueryExported
    <3>2. tables.exported[r] \in [node : Nodes, value : Version]
      BY <3>1 DEF IndInv, TypeInv, Tables
    <3>3. E(r) \in Entries /\ E(r).res = r /\ E(r).from = tables.exported[r].node
          /\ E(r).value = tables.exported[r].value
      BY <3>1, <3>2 DEF Entries
    <3> HIDE DEF E
    <3> QED
      BY <3>1, <3>3 DEF IndInv, ExportsInv
  <2>3. \A e \in new : \E r \in Collectable : e = E(r)
    OBVIOUS
  <2> HIDE DEF E
  <2>4. ASSUME NEW e \in new
        PROVE  /\ e \in Entries /\ \A d \in req.entries : d.res # e.res
               /\ e.value <= facts[e.from] /\ e.from # req.node /\ Has(e.from, "export", e.res)
               /\ e = E(e.res)
    BY <2>2, <2>3 DEF Declared
  <2>5. Once(req.entries \cup new) /\ Rightful(req.node, req.entries \cup new)
    <3> HIDE DEF new
    <3>1. Once(req.entries \cup new)
      BY <1>2, <2>4 DEF Once
    <3>2. Rightful(req.node, req.entries \cup new)
      BY <1>2, <2>4 DEF Rightful
    <3> QED
      BY <3>1, <3>2
  <2>6. /\ req' \in Requests /\ req'.node = req.node /\ req'.facts = req.facts
        /\ req'.phase = "compile" /\ req'.entries = req.entries \cup new
    <3>1. new \subseteq Entries
      BY <2>4
    <3> HIDE DEF new
    <3> QED
      BY <1>1, <1>3, <3>1, OnTheWay DEF IndInv, Requests
  <2> HIDE DEF new
  <2> QED
    BY <1>1, <1>3, <2>1, <2>5, <2>6, CompileStep
<1>4. CASE Missed(Onward) /\ faults' = faults + 1
  <2>1. /\ missed \subseteq missed' /\ missed' \subseteq Nodes /\ faults' \in 0 .. MaxFaults
    BY <1>1, <1>4, Versions, BoundsAssumption DEF Missed, IndInv, TypeInv
  <2>2. /\ req' \in Requests /\ req'.node = req.node /\ req'.facts = req.facts
        /\ req'.phase = "compile" /\ req'.entries = req.entries
    BY <1>1, <1>4, OnTheWay DEF IndInv, Missed
  <2> QED
    BY <1>1, <1>2, <1>4, <2>1, <2>2, CompileStep DEF Missed
<1> QED
  BY <1>3, <1>4 DEF Collect

LEMMA FailStep ==
    ASSUME IndInv, Fail
    PROVE  IndInv'
<1>1. /\ req # none /\ req.phase = "compile"
      /\ UNCHANGED <<manifest, facts, inbox, applied, tables, missed, faults>>
      /\ req' \in {Onward, [Onward EXCEPT !.failed = TRUE]}
  BY DEF Fail, Compiling
<1>2. /\ missed \subseteq missed' /\ missed' \subseteq Nodes /\ faults' \in 0 .. MaxFaults
  BY <1>1 DEF IndInv, TypeInv
<1>3. /\ req' \in Requests /\ req'.node = req.node /\ req'.facts = req.facts
      /\ req'.phase = "compile" /\ req'.entries = req.entries
  <2>1. /\ Onward \in Requests /\ Onward.node = req.node /\ Onward.facts = req.facts
        /\ Onward.phase = "compile" /\ Onward.entries = req.entries
    BY <1>1, OnTheWay DEF IndInv
  <2>2. LET r == [Onward EXCEPT !.failed = TRUE]
        IN  /\ r \in Requests /\ r.node = Onward.node /\ r.facts = Onward.facts
            /\ r.phase = Onward.phase /\ r.entries = Onward.entries
    BY <2>1 DEF Requests
  <2> QED
    BY <1>1, <2>1, <2>2
<1>4. Once(req.entries) /\ Rightful(req.node, req.entries)
  BY <1>1, SameRequest
<1> QED
  BY <1>1, <1>2, <1>3, <1>4, CompileStep

LEMMA StoreFactsStep ==
    ASSUME IndInv, StoreFacts
    PROVE  IndInv'
<1> DEFINE next == [req EXCEPT !.phase = "catalog"]
<1>1. /\ req # none /\ req.phase = "compile"
      /\ UNCHANGED <<manifest, facts, inbox, applied>>
      /\ Store("facts", req.node, req.facts, next)
  BY DEF StoreFacts
<1>2. /\ next \in Requests /\ next.node = req.node /\ next.facts = req.facts
      /\ next.phase = "catalog" /\ next.entries = req.entries
  BY <1>1, OnTheWay DEF IndInv
<1> HIDE DEF next
<1>3. /\ missed \subseteq missed' /\ missed' \subseteq Nodes /\ faults' \in 0 .. MaxFaults
      /\ \/ /\ tables' = [tables EXCEPT !.nodes = @ \cup {req.node}]
            /\ req' = [req EXCEPT !.registered = TRUE] /\ missed' = missed
         \/ /\ tables' = [tables EXCEPT !.facts = [@ EXCEPT ![req.node] = req.facts]]
            /\ req' = [next EXCEPT !.registered = FALSE] /\ missed' = missed
         \/ /\ tables' = tables /\ req.node \in missed'
            /\ req' = [next EXCEPT !.registered = FALSE]
  BY <1>1, StoreSteps
<1>4. /\ req' \in Requests /\ req'.node = req.node /\ req'.facts = req.facts
      /\ req'.entries = req.entries
      /\ \/ req'.phase = "compile"
         \/ /\ req'.phase = "catalog"
            /\ \/ tables' = [tables EXCEPT !.facts = [@ EXCEPT ![req.node] = req.facts]]
               \/ req.node \in missed'
  <2>1. LET r == [req EXCEPT !.registered = TRUE]
        IN  /\ r \in Requests /\ r.node = req.node /\ r.facts = req.facts
            /\ r.phase = "compile" /\ r.entries = req.entries
    BY <1>1, OnTheWay DEF IndInv
  <2>2. LET r == [next EXCEPT !.registered = FALSE]
        IN  /\ r \in Requests /\ r.node = req.node /\ r.facts = req.facts
            /\ r.phase = "catalog" /\ r.entries = req.entries
    BY <1>1, <1>2, OnTheWay DEF IndInv
  <2> QED
    BY <1>3, <2>1, <2>2
<1>5. Once(req'.entries) /\ Rightful(req.node, req'.entries)
  BY <1>1, <1>4, SameRequest
<1>6. req.node \in Nodes /\ req.facts \in Version
  BY <1>1, Versions DEF IndInv
<1>7. /\ tables' \in Tables /\ tables'.exported = tables.exported
      /\ tables'.catalogs = tables.catalogs
      /\ \A n \in Nodes : \/ tables'.facts[n] = tables.facts[n]
                          \/ n = req.node /\ tables'.facts[n] = req.facts
  <2>1. CASE tables' = [tables EXCEPT !.nodes = @ \cup {req.node}]
    BY <1>1, <2>1, Registering DEF IndInv
  <2>2. CASE tables' = [tables EXCEPT !.facts = [@ EXCEPT ![req.node] = req.facts]]
    <3>1. tables \in Tables /\ tables.facts \in [Nodes -> Version \cup {none}]
      BY DEF IndInv, TypeInv, Tables
    <3>2. /\ [tables.facts EXCEPT ![req.node] = req.facts] \in [Nodes -> Version \cup {none}]
          /\ \A n \in Nodes : \/ [tables.facts EXCEPT ![req.node] = req.facts][n] = tables.facts[n]
                              \/ /\ n = req.node
                                 /\ [tables.facts EXCEPT ![req.node] = req.facts][n] = req.facts
      BY <1>6, <3>1
    <3> QED
      BY <2>2, <3>1, <3>2 DEF Tables
  <2>3. CASE tables' = tables
    BY <2>3 DEF IndInv, TypeInv
  <2> QED
    BY <1>3, <2>1, <2>2, <2>3
<1>8. StoredInv'
  <2>1. CASE tables' = [tables EXCEPT !.facts = [@ EXCEPT ![req.node] = req.facts]]
    <3>1. tables \in Tables /\ tables.facts \in [Nodes -> Version \cup {none}]
      BY DEF IndInv, TypeInv, Tables
    <3>2. tables'.facts[req.node] = req.facts
      BY <1>6, <2>1, <3>1 DEF Tables
    <3> QED
      BY <1>4, <3>2 DEF StoredInv
  <2> QED
    BY <1>4, <2>1 DEF StoredInv
<1> QED
  BY <1>1, <1>3, <1>4, <1>5, <1>7, <1>8, ServeStep

LEMMA StoreCatalogStep ==
    ASSUME IndInv, StoreCatalog
    PROVE  IndInv'
<1> DEFINE next == [req EXCEPT !.phase = "answer"]
           c == Compiled
<1>1. /\ req # none /\ req.phase = "catalog"
      /\ UNCHANGED <<manifest, facts, inbox, applied>>
      /\ Store("catalogs", req.node, c, next)
  BY DEF StoreCatalog
<1>2. /\ next \in Requests /\ next.node = req.node /\ next.facts = req.facts
      /\ next.phase = "answer" /\ next.entries = req.entries /\ next.failed = req.failed
  BY <1>1, OnTheWay DEF IndInv
<1>3. req.node \in Nodes /\ req.facts \in Version /\ req \in Requests
  BY <1>1, Versions DEF IndInv, TypeInv
<1>4. c \in Catalogs
  BY <1>3 DEF Compiled, Catalogs, Requests
<1>5. req' # none => Compiled' = [facts |-> req'.facts, failed |-> req'.failed,
                                  entries |-> IF req'.failed THEN {} ELSE req'.entries]
  BY DEF Compiled
<1>6. c = [facts |-> req.facts, failed |-> req.failed,
           entries |-> IF req.failed THEN {} ELSE req.entries]
  BY DEF Compiled
<1> HIDE DEF next, c
<1>7. /\ missed \subseteq missed' /\ missed' \subseteq Nodes /\ faults' \in 0 .. MaxFaults
      /\ \/ /\ tables' = [tables EXCEPT !.nodes = @ \cup {req.node}]
            /\ req' = [req EXCEPT !.registered = TRUE] /\ missed' = missed
         \/ /\ tables' = [tables EXCEPT !.catalogs = [@ EXCEPT ![req.node] = c]]
            /\ req' = [next EXCEPT !.registered = FALSE] /\ missed' = missed
         \/ /\ tables' = tables /\ req.node \in missed'
            /\ req' = [next EXCEPT !.registered = FALSE]
  BY <1>1, StoreSteps
<1>8. /\ req' \in Requests /\ req'.node = req.node /\ req'.facts = req.facts
      /\ req'.entries = req.entries /\ req'.failed = req.failed
      /\ \/ req'.phase = "catalog"
         \/ /\ req'.phase = "answer"
            /\ \/ tables' = [tables EXCEPT !.catalogs = [@ EXCEPT ![req.node] = c]]
               \/ req.node \in missed'
  <2>1. LET r == [req EXCEPT !.registered = TRUE]
        IN  /\ r \in Requests /\ r.node = req.node /\ r.facts = req.facts
            /\ r.phase = "catalog" /\ r.entries = req.entries /\ r.failed = req.failed
    BY <1>1, OnTheWay DEF IndInv
  <2>2. LET r == [next EXCEPT !.registered = FALSE]
        IN  /\ r \in Requests /\ r.node = req.node /\ r.facts = req.facts
            /\ r.phase = "answer" /\ r.entries = req.entries /\ r.failed = req.failed
    BY <1>1, <1>2, OnTheWay DEF IndInv
  <2> QED
    BY <1>7, <2>1, <2>2
<1>9. Once(req'.entries) /\ Rightful(req.node, req'.entries)
  BY <1>1, <1>8, SameRequest
<1>10. req.node \notin missed => tables.facts[req.node] = req.facts
  BY <1>1 DEF IndInv, StoredInv
<1>11. /\ tables' \in Tables /\ tables'.exported = tables.exported
       /\ tables'.facts = tables.facts
       /\ \A n \in Nodes : \/ tables'.catalogs[n] = tables.catalogs[n]
                           \/ n = req.node /\ tables'.catalogs[n] = c
       /\ \/ tables'.catalogs[req.node] = c
          \/ tables' # [tables EXCEPT !.catalogs = [@ EXCEPT ![req.node] = c]]
  <2>1. tables \in Tables /\ tables.catalogs \in [Nodes -> Catalogs \cup {none}]
    BY DEF IndInv, TypeInv, Tables
  <2> DEFINE rows == [tables.catalogs EXCEPT ![req.node] = c]
  <2>2. /\ rows \in [Nodes -> Catalogs \cup {none}]
        /\ rows[req.node] = c
        /\ \A n \in Nodes : rows[n] = tables.catalogs[n] \/ (n = req.node /\ rows[n] = c)
    BY <1>3, <1>4, <2>1
  <2>3. [tables EXCEPT !.catalogs = [@ EXCEPT ![req.node] = c]] = [tables EXCEPT !.catalogs = rows]
    OBVIOUS
  <2> HIDE DEF rows
  <2>4. CASE tables' = [tables EXCEPT !.catalogs = rows]
    BY <2>1, <2>2, <2>4 DEF Tables
  <2>5. CASE /\ tables' = [tables EXCEPT !.nodes = @ \cup {req.node}]
             /\ tables' # [tables EXCEPT !.catalogs = rows]
    BY <1>1, <2>3, <2>5, Registering DEF IndInv
  <2>6. CASE tables' = tables /\ tables' # [tables EXCEPT !.catalogs = rows]
    BY <2>1, <2>3, <2>6
  <2> QED
    BY <1>7, <2>3, <2>4, <2>5, <2>6
<1>12. StoredInv'
  <2>1. Compiled' = c
    BY <1>6, <1>8 DEF Compiled
  <2> QED
    BY <1>8, <1>10, <1>11, <1>7, <2>1 DEF StoredInv
<1>13. \A n \in Nodes : \/ tables'.catalogs[n] = tables.catalogs[n]
                        \/ /\ n = req.node /\ tables'.catalogs[n] = Compiled
                           /\ n \notin missed => tables'.facts[n] = req.facts
  BY <1>10, <1>11 DEF c
<1> QED
  BY <1>1, <1>7, <1>8, <1>9, <1>11, <1>12, <1>13, ServeStep

\* The agent applies what was stored, and nothing else changes.
LEMMA AnswerStep ==
    ASSUME IndInv, Answer
    PROVE  IndInv'
<1> DEFINE c == Compiled
<1>1. /\ req # none /\ req.phase = "answer" /\ req' = none
      /\ \/ applied' = [applied EXCEPT ![req.node] = c]
         \/ applied' = applied
      /\ UNCHANGED <<manifest, facts, inbox, tables, missed, faults>>
  BY DEF Answer
<1>2. req.node \in Nodes /\ req.facts \in Version /\ req.facts \in Int /\ req \in Requests
  BY <1>1, Versions DEF IndInv, TypeInv
<1>3. /\ c \in Catalogs /\ c # none /\ c.facts = req.facts
      /\ c.entries \in {{}, req.entries}
  BY <1>2, NoneAssumption DEF Compiled, Catalogs, Requests
<1>4. Once(c.entries) /\ Rightful(req.node, c.entries)
  <2>1. Once({}) /\ Rightful(req.node, {})
    BY DEF Once, Rightful
  <2>2. Once(req.entries) /\ Rightful(req.node, req.entries)
    BY <1>1, SameRequest
  <2> HIDE DEF c
  <2> QED
    BY <1>3, <2>1, <2>2
<1>5. req.node \notin missed => tables.catalogs[req.node] = c
  BY <1>1 DEF IndInv, StoredInv
<1> HIDE DEF c
<1>6. /\ applied' \in [Nodes -> Catalogs \cup {none}]
      /\ \A n \in Nodes : applied'[n] = applied[n] \/ (n = req.node /\ applied'[n] = c)
  <2>1. applied \in [Nodes -> Catalogs \cup {none}]
    BY DEF IndInv, TypeInv
  <2> QED
    BY <1>1, <1>2, <1>3, <2>1
<1>7. TypeInv'
  BY <1>1, <1>6 DEF IndInv, TypeInv
<1>8. KeptInv'
  <2>1. \A n \in Nodes : Right(n, applied'[n]) /\ Right(n, tables.catalogs[n])
    BY <1>4, <1>6 DEF IndInv, KeptInv, Right
  <2> QED
    BY <1>1, <2>1 DEF KeptInv, Right, Rightful, Has
<1>9. StoreAhead'
  <2>1. FactsBeforeCatalog'
    BY <1>1 DEF IndInv, StoreAhead, FactsBeforeCatalog
  <2>2. StoredBeforeApplied'
    <3> SUFFICES ASSUME NEW n \in Nodes, n \notin missed, applied'[n] # none
                 PROVE  /\ tables.catalogs[n] # none
                        /\ applied'[n].facts <= tables.catalogs[n].facts
      BY <1>1 DEF StoredBeforeApplied
    <3>1. CASE applied'[n] = applied[n]
      BY <3>1 DEF IndInv, StoreAhead, StoredBeforeApplied
    <3>2. CASE n = req.node /\ applied'[n] = c
      BY <1>2, <1>3, <1>5, <3>2
    <3> QED
      BY <1>6, <3>1, <3>2
  <2> QED
    BY <2>1, <2>2 DEF StoreAhead
<1>10. ExportsInv'
  BY <1>1 DEF IndInv, ExportsInv, Has
<1>11. EntriesInv' /\ StoredInv'
  BY <1>1 DEF EntriesInv, StoredInv
<1>12. OrderInv'
  <2>1. ASSUME NEW n \in Nodes, NEW v, NoNewer(n, v), n = req.node => req.facts <= v
        PROVE  /\ tables'.facts[n] # none => tables'.facts[n] <= v
               /\ tables'.catalogs[n] # none => tables'.catalogs[n].facts <= v
               /\ applied'[n] # none => applied'[n].facts <= v
    BY <1>1, <1>3, <1>6, <2>1 DEF NoNewer
  <2>2. ASSUME NEW n \in Nodes
        PROVE  /\ NoNewer(n, facts[n])'
               /\ \A i \in DOMAIN inbox[n] : NoNewer(n, inbox[n][i].facts)'
    <3>1. /\ NoNewer(n, facts[n])
          /\ \A i \in DOMAIN inbox[n] : NoNewer(n, inbox[n][i].facts)
          /\ n = req.node => /\ req.facts <= facts[n]
                             /\ \A i \in DOMAIN inbox[n] : req.facts <= inbox[n][i].facts
      BY <1>1 DEF IndInv, OrderInv
    <3> QED
      BY <1>1, <2>1, <3>1 DEF NoNewer
  <2> QED
    BY <1>1, <2>2 DEF IndInv, OrderInv
<1> QED
  BY <1>7, <1>8, <1>9, <1>10, <1>11, <1>12 DEF IndInv
-----------------------------------------------------------------------------
(* The invariant, and what follows.                                        *)

LEMMA InitIndInv == Init => IndInv
<1> SUFFICES ASSUME Init PROVE IndInv
  OBVIOUS
<1>1. /\ req = none /\ missed = {} /\ manifest \in Manifests
      /\ \A n \in Nodes : /\ facts[n] = 0 /\ DOMAIN inbox[n] = {}
                          /\ tables.facts[n] = none /\ tables.catalogs[n] = none
                          /\ applied[n] = none
      /\ \A r \in Resources : tables.exported[r] = none
  BY DEF Init
<1>2. TypeInv
  <2>1. 0 \in Version /\ faults \in 0 .. MaxFaults
    BY BoundsAssumption DEF Init, Version
  <2>2. facts \in [Nodes -> Version] /\ inbox \in [Nodes -> Seq(Calls)]
    BY <2>1 DEF Init
  <2>3. applied \in [Nodes -> Catalogs \cup {none}]
    BY DEF Init
  <2>4. tables \in Tables
    BY DEF Init, Tables
  <2> QED
    BY <1>1, <2>1, <2>2, <2>3, <2>4 DEF TypeInv
<1>3. KeptInv /\ StoreAhead /\ ExportsInv /\ EntriesInv /\ StoredInv
  BY <1>1 DEF KeptInv, Right, StoreAhead, FactsBeforeCatalog, StoredBeforeApplied,
              ExportsInv, EntriesInv, StoredInv
<1>4. OrderInv
  BY <1>1 DEF OrderInv, NoNewer
<1> QED
  BY <1>2, <1>3, <1>4 DEF IndInv

LEMMA StepIndInv == IndInv /\ [Next]_vars => IndInv'
<1> SUFFICES ASSUME IndInv, [Next]_vars PROVE IndInv'
  OBVIOUS
<1>1. ASSUME NEW n \in Nodes, ChangeFacts(n) \/ Ask(n) \/ Timeout(n) \/ Accept(n)
      PROVE  IndInv'
  BY <1>1, ChangeFactsStep, AskStep, TimeoutStep, AcceptStep
<1>2. CASE Serve
  BY <1>2, ExportStep, DeclareStep, CollectStep, FailStep, StoreFactsStep, StoreCatalogStep,
     AnswerStep DEF Serve
<1>3. CASE Restart
  BY <1>3, RestartStep
<1>4. CASE UNCHANGED vars
  <2>1. TypeInv'
    BY <1>4 DEF vars, IndInv, TypeInv
  <2>2. KeptInv'
    BY <1>4 DEF vars, IndInv, KeptInv, Right, Once, Rightful, Has
  <2>3. StoreAhead'
    BY <1>4 DEF vars, IndInv, StoreAhead, FactsBeforeCatalog, StoredBeforeApplied
  <2>4. ExportsInv' /\ EntriesInv' /\ OrderInv'
    <3>1. ExportsInv'
      BY <1>4 DEF vars, IndInv, ExportsInv, Has
    <3>2. EntriesInv'
      BY <1>4 DEF vars, IndInv, EntriesInv, Once, Rightful, Has
    <3>3. OrderInv'
      BY <1>4 DEF vars, IndInv, OrderInv, NoNewer
    <3> QED
      BY <3>1, <3>2, <3>3
  <2>5. StoredInv'
    BY <1>4 DEF vars, IndInv, StoredInv, Compiled
  <2> QED
    BY <2>1, <2>2, <2>3, <2>4, <2>5 DEF IndInv
<1> QED
  BY <1>1, <1>2, <1>3, <1>4 DEF Next

LEMMA SpecIndInv == Spec => []IndInv
<1> QED
  BY InitIndInv, StepIndInv, PTL DEF Spec

\* A catalog, applied or stored, holds each resource once, and of other nodes
\* only what their manifests export, from facts they have had: whatever
\* handle_catalog is interrupted by and whoever exports the same name.
THEOREM CatalogsAreRight == Spec => []CatalogsRight
<1> QED
  BY SpecIndInv, IndInvImplies, PTL

\* handle_catalog stores facts, then catalog, then answers: PuppetDB is never
\* behind what an agent applied, unless a statement failed for that node.
THEOREM StoreIsAhead == Spec => []StoreAhead
<1> QED
  BY SpecIndInv, IndInvImplies, PTL
=============================================================================
