--------------------------- MODULE CatalogServer ----------------------------
(***************************************************************************)
(* Catalog requests and the PuppetDB store: handle_catalog of              *)
(* puppetc-server, the compilation as far as it reads and writes the       *)
(* store, and the SQLite tables of puppetdb.c.  One polling thread serves  *)
(* all connections, so one request is handled at a time, but every SQL     *)
(* statement commits by itself: a compilation exports and collects while   *)
(* it runs, and the server may be killed between any two statements.       *)
(* Agents ask again and again, from facts that change, and stop waiting    *)
(* when the answer takes too long; a request they abandoned is still       *)
(* served.                                                                 *)
(***************************************************************************)
EXTENDS Integers, Sequences, FiniteSets

CONSTANTS
    Nodes,
    Resources,      \* exported and declared resources, all of one type
    Manifests,      \* what the nodes may compile: functions from Nodes to statements
    Changing,       \* the nodes whose facts change
    MaxFacts,       \* how often they do
    MaxFaults,      \* how many kills, SQL errors and timeouts there are
    none

(***************************************************************************)
(* A manifest is a sequence of the statements that matter here.  "fail" is *)
(* a call of fail() that a node reaches when its facts are `when'.         *)
(***************************************************************************)
Statements ==
    [op : {"export", "declare"}, res : Resources]
        \cup [op : {"collect"}]
        \cup [op : {"fail"}, when : 0 .. MaxFacts]

ASSUME ManifestsAssumption == Manifests \subseteq [Nodes -> Seq(Statements)]
ASSUME BoundsAssumption == MaxFacts \in Nat /\ MaxFaults \in Nat

VARIABLES
    manifest,       \* the site, the same for the whole behaviour
    facts,          \* the version of the facts of each machine
    inbox,          \* the complete requests on the connections of each node
    req,            \* the request request_handler is in
    tables,         \* the database file
    applied,        \* the last catalog each agent received
    missed,         \* the nodes for which a statement on the database failed
    faults

vars == <<manifest, facts, inbox, req, tables, applied, missed, faults>>

Version == 0 .. MaxFacts

Entries == [res : Resources, from : Nodes, value : Version]

Catalogs == [facts : Version, failed : BOOLEAN, entries : SUBSET Entries]

ASSUME NoneAssumption == none \notin Version /\ none \notin Catalogs

Phases == {"compile", "catalog", "answer"}

Init ==
    /\ manifest \in Manifests
    /\ facts = [n \in Nodes |-> 0]
    /\ inbox = [n \in Nodes |-> <<>>]
    /\ req = none
    /\ tables = [nodes    |-> {},
                 facts    |-> [n \in Nodes |-> none],
                 catalogs |-> [n \in Nodes |-> none],
                 exported |-> [r \in Resources |-> none]]
    /\ applied = [n \in Nodes |-> none]
    /\ missed = {}
    /\ faults = 0

-----------------------------------------------------------------------------
(* The agents. *)

ChangeFacts(n) ==
    /\ n \in Changing
    /\ facts[n] < MaxFacts
    /\ facts' = [facts EXCEPT ![n] = @ + 1]
    /\ UNCHANGED <<manifest, inbox, req, tables, applied, missed, faults>>

\* The request whose answer the agent of n still waits for.
Waiting(n) ==
    \/ \E i \in DOMAIN inbox[n] : inbox[n][i].awaited
    \/ req # none /\ req.node = n /\ req.awaited

Ask(n) ==
    /\ ~Waiting(n)
    /\ inbox' = [inbox EXCEPT ![n] = Append(@, [facts |-> facts[n], awaited |-> TRUE])]
    /\ UNCHANGED <<manifest, facts, req, tables, applied, missed, faults>>

\* CURLOPT_TIMEOUT: the agent gives up, the server does not notice.
Timeout(n) ==
    /\ faults < MaxFaults
    /\ faults' = faults + 1
    /\ Waiting(n)
    /\ inbox' = [inbox EXCEPT ![n] =
                    [i \in DOMAIN @ |-> [@[i] EXCEPT !.awaited = FALSE]]]
    /\ req' = IF req # none /\ req.node = n THEN [req EXCEPT !.awaited = FALSE] ELSE req
    /\ UNCHANGED <<manifest, facts, tables, applied, missed>>

-----------------------------------------------------------------------------
(* The store.  A store is two statements: the row of the node, then the    *)
(* row itself; it is given up when one of them fails.                      *)

\* get_or_create_node: insert the node, or mark it as seen.
Register(n) ==
    /\ ~req.registered
    /\ tables' = [tables EXCEPT !.nodes = @ \cup {n}]
    /\ req' = [req EXCEPT !.registered = TRUE]
    /\ UNCHANGED missed

\* Mutant: a row that is there stays as it is.
Row_Ignore(t, n, v) == [t EXCEPT ![n] = IF @ = none THEN v ELSE @]

Row(t, n, v) == [t EXCEPT ![n] = v]

\* The INSERT OR REPLACE, then on to `next'.
Put(table, key, row, next) ==
    /\ req.registered
    /\ tables' = [tables EXCEPT ![table] = Row(@, key, row)]
    /\ req' = [next EXCEPT !.registered = FALSE]
    /\ UNCHANGED missed

\* A statement fails: a warning, and the request goes on without it.
Missed(next) ==
    /\ faults < MaxFaults
    /\ req' = [next EXCEPT !.registered = FALSE]
    /\ missed' = missed \cup {req.node}
    /\ UNCHANGED tables

Store(table, key, row, next) ==
    \/ Register(req.node) /\ UNCHANGED faults
    \/ Put(table, key, row, next) /\ UNCHANGED faults
    \/ Missed(next) /\ faults' = faults + 1

\* puppetdb_query_exported: the rows of nodes that are not deactivated.
QueryExported ==
    {r \in Resources : /\ tables.exported[r] # none
                       /\ tables.exported[r].node \in tables.nodes}

-----------------------------------------------------------------------------
(* handle_catalog. *)

\* The polling thread takes up a connection whose request is complete.
Accept(n) ==
    /\ req = none
    /\ inbox[n] # <<>>
    /\ req' = [node       |-> n,
               facts      |-> Head(inbox[n]).facts,
               awaited    |-> Head(inbox[n]).awaited,
               phase      |-> "compile",
               at         |-> 1,
               failed     |-> FALSE,
               entries    |-> {},
               registered |-> FALSE]
    /\ inbox' = [inbox EXCEPT ![n] = Tail(@)]
    /\ UNCHANGED <<manifest, facts, tables, applied, missed, faults>>

Code == manifest[req.node]

Compiling(op) ==
    /\ req # none
    /\ req.phase = "compile"
    /\ req.at \in DOMAIN Code
    /\ Code[req.at].op = op

Onward == [req EXCEPT !.at = @ + 1]

Declared == {e.res : e \in req.entries}

Export ==
    /\ Compiling("export")
    /\ Store("exported", Code[req.at].res, [node |-> req.node, value |-> req.facts], Onward)
    /\ UNCHANGED <<manifest, facts, inbox, applied>>

\* A resource of the node itself; one that is declared already is an error
\* that is counted, and the catalog keeps the first.
Declare ==
    /\ Compiling("declare")
    /\ LET r == Code[req.at].res
           e == [res |-> r, from |-> req.node, value |-> req.facts]
       IN  req' = IF r \in Declared THEN Onward
                                    ELSE [Onward EXCEPT !.entries = @ \cup {e}]
    /\ UNCHANGED <<manifest, facts, inbox, tables, applied, missed, faults>>

\* Mutant: the query leaves this node's exports in.
Collectable_Own == QueryExported \ Declared

\* The rows of other nodes that are not declared yet enter the catalog.
Collectable == {r \in QueryExported \ Declared : tables.exported[r].node # req.node}

Collect ==
    /\ Compiling("collect")
    /\ \/ /\ req' = [Onward EXCEPT !.entries = @ \cup
                        {[res   |-> r,
                          from  |-> tables.exported[r].node,
                          value |-> tables.exported[r].value] : r \in Collectable}]
          /\ UNCHANGED <<tables, missed, faults>>
       \/ Missed(Onward) /\ faults' = faults + 1
    /\ UNCHANGED <<manifest, facts, inbox, applied>>

\* fail() sets a flag; the statements after it run as well.
Fail ==
    /\ Compiling("fail")
    /\ req' = IF Code[req.at].when = req.facts THEN [Onward EXCEPT !.failed = TRUE] ELSE Onward
    /\ UNCHANGED <<manifest, facts, inbox, tables, applied, missed, faults>>

\* The catalog, or an error that is treated like one.
Compiled ==
    [facts   |-> req.facts,
     failed  |-> req.failed,
     entries |-> IF req.failed THEN {} ELSE req.entries]

StoreFacts ==
    /\ req # none
    /\ req.phase = "compile"
    /\ req.at \notin DOMAIN Code
    /\ Store("facts", req.node, req.facts, [req EXCEPT !.phase = "catalog"])
    /\ UNCHANGED <<manifest, facts, inbox, applied>>

StoreCatalog ==
    /\ req # none
    /\ req.phase = "catalog"
    /\ Store("catalogs", req.node, Compiled, [req EXCEPT !.phase = "answer"])
    /\ UNCHANGED <<manifest, facts, inbox, applied>>

\* Mutant: the answer is sent before the catalog is stored.
Answer_Early ==
    /\ req # none
    /\ req.phase \in {"catalog", "answer"}
    /\ applied' = IF req.awaited /\ ~req.failed
                  THEN [applied EXCEPT ![req.node] = Compiled]
                  ELSE applied
    /\ req' = IF req.phase = "answer" THEN none ELSE [req EXCEPT !.awaited = FALSE]
    /\ UNCHANGED <<manifest, facts, inbox, tables, missed, faults>>

\* The agent applies a catalog and rejects an error.
Answer ==
    /\ req # none
    /\ req.phase = "answer"
    /\ applied' = IF req.awaited /\ ~req.failed
                  THEN [applied EXCEPT ![req.node] = Compiled]
                  ELSE applied
    /\ req' = none
    /\ UNCHANGED <<manifest, facts, inbox, tables, missed, faults>>

\* The server is killed and started again: connections and compilation are
\* gone, the database stays as the last statement left it.
Restart ==
    /\ faults < MaxFaults
    /\ faults' = faults + 1
    /\ req' = none
    /\ inbox' = [n \in Nodes |-> <<>>]
    /\ UNCHANGED <<manifest, facts, tables, applied, missed>>

-----------------------------------------------------------------------------

Serve ==
    \/ Export \/ Declare \/ Collect \/ Fail
    \/ StoreFacts \/ StoreCatalog \/ Answer

Next ==
    \/ \E n \in Nodes : ChangeFacts(n) \/ Ask(n) \/ Timeout(n) \/ Accept(n)
    \/ Serve
    \/ Restart

\* Every agent is started again by its timer, and the server neither stops
\* nor leaves a connection unserved.
Fairness ==
    /\ \A n \in Nodes : WF_vars(Ask(n)) /\ SF_vars(Accept(n))
    /\ WF_vars(Serve)

Spec == Init /\ [][Next]_vars /\ Fairness

-----------------------------------------------------------------------------
(* Properties. *)

\* The types of the variables.
TypeOK ==
    /\ manifest \in Manifests
    /\ facts \in [Nodes -> Version]
    /\ inbox \in [Nodes -> Seq([facts : Version, awaited : BOOLEAN])]
    /\ \/ req = none
       \/ req \in [node : Nodes, facts : Version, awaited : BOOLEAN, phase : Phases,
                   at : Nat \ {0}, failed : BOOLEAN, entries : SUBSET Entries,
                   registered : BOOLEAN]
    /\ tables.nodes \subseteq Nodes
    /\ tables.facts \in [Nodes -> Version \cup {none}]
    /\ tables.catalogs \in [Nodes -> Catalogs \cup {none}]
    /\ tables.exported \in [Resources -> [node : Nodes, value : Version] \cup {none}]
    /\ applied \in [Nodes -> Catalogs \cup {none}]
    /\ missed \subseteq Nodes
    /\ faults \in 0 .. MaxFaults

\* What the agent of n may have applied, or PuppetDB may show for n.
CatalogsOf(n) == {applied[n], tables.catalogs[n]} \ {none}

\* No catalog holds two versions of a resource, whoever exported, collected
\* or declared it first: the catalogue of names that puppet_exec_collector
\* and the declarations share keeps them apart.
EachResourceOnce ==
    \A n \in Nodes : \A c \in CatalogsOf(n) : \A d, e \in c.entries :
        d.res = e.res => d = e

\* A node gets of others only what their manifests export, never its own
\* exports back, and never with facts the exporter does not have yet.
OnlyExportsOfOthers ==
    \A n \in Nodes : \A c \in CatalogsOf(n) : \A e \in c.entries :
        /\ e.value <= facts[e.from]
        /\ \E i \in DOMAIN manifest[e.from] :
              /\ manifest[e.from][i].op = IF e.from = n THEN "declare" ELSE "export"
              /\ manifest[e.from][i].res = e.res

\* handle_catalog stores the facts before the catalog they gave, whatever
\* interrupts it, so PuppetDB never shows a catalog newer than the facts.
FactsBeforeCatalog ==
    \A n \in Nodes \ missed :
        tables.catalogs[n] # none =>
            /\ tables.facts[n] # none
            /\ tables.catalogs[n].facts <= tables.facts[n]

\* handle_catalog answers after it stored: an agent never applies a catalog
\* that is newer than the one PuppetDB shows for it, even if the server is
\* killed at once or an abandoned request is served in between.
StoredBeforeApplied ==
    \A n \in Nodes \ missed :
        applied[n] # none =>
            /\ tables.catalogs[n] # none
            /\ applied[n].facts <= tables.catalogs[n].facts

\* The names are the exporters' own: nobody else exports or declares them.
Exporters(r) ==
    {n \in Nodes : \E i \in DOMAIN manifest[n] :
                      manifest[n][i].op \in {"export", "declare"} /\ manifest[n][i].res = r}

Collects(n) == \E i \in DOMAIN manifest[n] : manifest[n][i].op = "collect"

MayFail(n) == \E i \in DOMAIN manifest[n] : manifest[n][i].op = "fail"

\* When the machines come to rest, every agent that collects ends with what
\* the others export from their last facts: README.md's demo, where the
\* nodes learn each other's host entries over several runs.  It takes two
\* things: that nobody else uses the name, and that the collecting node
\* compiles (the exporting node may fail, its exports are stored all the same).
Settled(n, m, r) ==
    /\ applied[n] # none
    /\ [res |-> r, from |-> m, value |-> facts[m]] \in applied[n].entries

ExportsArrive ==
    \A n, m \in Nodes, r \in Resources :
        n # m => (Exporters(r) = {m} /\ Collects(n) /\ ~MayFail(n)
                  /\ (\E i \in DOMAIN manifest[m] :
                         manifest[m][i].op = "export" /\ manifest[m][i].res = r)
                  => <>[]Settled(n, m, r))

\* A catalog has one version of each resource, and of other nodes only exports.
CatalogsRight == TypeOK /\ EachResourceOnce /\ OnlyExportsOfOthers

\* handle_catalog stores before it answers: PuppetDB is not behind what an agent
\* applied, nor its facts behind its catalogs.
StoreAhead == FactsBeforeCatalog /\ StoredBeforeApplied
=============================================================================
