# puppet_c in TLA+

puppet_c is a Puppet compiler, server and agent written in C.  This directory
holds TLA+ modules that model its core, TLC configurations that check them on
small instances, and TLAPS proofs.  Each definition keeps the name of the
function or the field it models where TLA+ allows it; `PROJECT.json` gives the
source lines of every definition.

## The system

| part | state | operations | meets other parts through |
|---|---|---|---|
| compiler, node compilation (`compiler/puppet_interpreter.c`, `puppet_loader.c`, `main.c`) | one `puppet_env_t` per node; a program state shared by all (manifest and class caches, Ruby type registry, policy entries) | run the top-level statements, then every node of the facts file, in sequence or with `-P` one thread per node | the loader mutex, `reg_mutex`, counters added up at the end |
| compiler, ERB (`compiler/puppet_erb.c`, `puppet_erb_native.c`) | native cache of parsed templates; a queue to the one thread that owns Ruby; Ruby globals | `puppet_erb_render` | called by every compile thread |
| compiler, evaluator (`puppet_interpreter.c`, `puppet_catalog.c`, parts of `puppet_stdlib.c`) | `puppet_env_t`: scopes, class and virtual resource tables, the array of deferred defines, overrides, the catalog | execute the statements of a node, realize, collect, override, check parameter types | loader, Hiera, PuppetDB |
| compiler, Hiera (`puppet_hiera.c`) | a cache of answers per provider; the modules' configurations and data files, shared by all threads | lookup in the environment's and the modules' hierarchies | called by the evaluator; `loader->cache_mutex` |
| compiler, front end (tree-sitter grammar, `puppet_ts_parser.c`, `puppet_ast.c`) | none after a parse | text to AST | loader |
| compiler, lint, dead code, validation, JSON | none | read-only traversals | main, loader |
| server (`server/puppetc_server.c`) | one polling thread | catalogs, files, facts, certificate requests | compiles in process; PuppetDB; certificate authority |
| PuppetDB (`common/puppetdb.c`) | SQLite tables of nodes, facts, catalogs and exported resources | store facts, catalogs and exports, query exports | one statement at a time, from the server and the compiler |
| certificate authority (`puppet_ca.c`, `puppet_autosign.c`, `puppetc_ca_cli.c`) | serial file, `requests/`, `signed/`; the serial number in the memory of each process | init, sign, revoke, clean, list | server process and command line tool share the files |
| agent run (`agent/puppetc_agent.c`, `puppet_pluginsync.c`) | key and certificate files, synchronised plugins | one run per invocation: facts, plugins, certificate, catalog, apply | server over HTTP(S) |
| agent, catalog application (`agent/puppet_provider.c`) | the table of entries with dependencies and notify targets | `catalog_apply` | providers |
| agent, providers (`provider_*.c`, `puppet_agent_ruby.c`) | the machine | apply and refresh of one resource | catalog application |
| facter, common libraries | none that outlives a call | | |

What is hard in it: the threads of `-P` and their lazily filled caches; the
queue to the Ruby thread; the bounded dependency and notify tables of the agent
and the sort with its fallback for cycles; refreshes that must be remembered
from one visit to a later one; failures that must reach an exit status through
several counters; two processes on the certificate authority's files and crashes
between file operations; bodies of defines and overrides that run long after
they were declared, in scopes that come and go; caches that outlive the node
they were filled for; a store that is written by separate statements while
agents time out and ask again; and providers that rewrite files other hands
write too.  `PROJECT.json` lists these hazards
one by one at the line where they bite, with the properties that cover them.

## The modules

| module | what it is |
|---|---|
| `OrderedApply` | abstract: every resource once, in a declared order if there is one, refreshed at its turn exactly if what it listens to changed before, failures counted |
| `CatalogApply` | `catalog_apply`: parse, build the table, sort, apply, refresh, return; implements `OrderedApply` |
| `CatalogApply_proofs` | theorems about its sort, and about what it does with the order; it implements `OrderedApply` |
| `MCCatalogApply` | the catalogs used for model checking |
| `RenderService` | abstract: each caller gets the text of its own template or a failure |
| `ErbRender` | `puppet_erb_render` with its cache, its queue and the Ruby thread; implements `RenderService` |
| `ErbRender_proofs`, `NodeCompile_proofs`, `CertAuthority_proofs`, `AgentRun_proofs`, `Evaluation_proofs`, `HieraLookup_proofs`, `CatalogServer_proofs` | theorems about these modules |
| `MCErbRender` | two template files for model checking |
| `NodeCompile` | `--all-nodes`, sequential and parallel, with the shared caches, the policy file, the counters and the exit status |
| `MCNodeCompile` | three classes, three resources and the site manifests for model checking |
| `CertAuthority` | the certificate authority: server, `puppetc-ca` and agents on shared and own files, with crashes, timeouts and failed saves |
| `MCCertAuthority` | the two agents for model checking |
| `TextProviders` | the providers that edit files line by line: host, cron, ssh_authorized_key, mount |
| `SystemProviders` | the providers that work on the machine: file, package, service, user, group, sysctl, exec, notify, anchor |
| `Providers`, `MCProviders` | runs of the agent with these providers on a machine that others change too |
| `AgentRun`, `MCAgentRun` | one agent from plugin synchronisation to exit status, run after run |
| `Evaluation`, `MCEvaluation` | the evaluation of one node's manifests |
| `HieraLookup`, `MCHieraLookup` | lookups and their caches, by one environment or by a thread for each node |
| `CatalogServer`, `MCCatalogServer` | catalog requests, the compilation's exports and collectors, and the PuppetDB tables |
| `TypeCheck` | the check of a value against the text of a type |
| `StdlibFunctions` | `versioncmp`, the functions on arrays, `deep_merge` |
| `Values`, `MCValues` | questions to the operators of these two, each held against a definition that ignores the code |

### CatalogApply

A catalog is a sequence of keys, the kind of provider each entry meets, and the
relationships in the order the code visits them: metaparameters entry by entry,
then catalog edges, then parent directories.  One action handles one
relationship (`extract_dependencies`, the edge loop, the autorequire loop); the
sort is one action to count `in_degree`, one per seed and one per visit of the
queue; each resource is one `Apply` step in which the provider's answer is a
choice among the results the code tells apart, followed by the recording of
refreshes and the refresh itself.  `deps[]` and `notify_targets[]` are sets
bounded by `MaxDeps` and `MaxNotify`, since the code looks only at membership and
at the number of slots in use.  `noop` is an input: it restricts the results a
provider may give.  Printing is left out.

`OrderedApply` says what all of this is for, with neither tables, nor sort, nor
flags: it reads the declared relationships from the catalog and lets any entry
whose prerequisites had their turn be next (any entry at all when the
relationships are circular).  The mapping is a function of the state of
`CatalogApply`, without history: every step up to the first `ApplyResource`
stutters, as does `SkipEntry`.  The implementation holds for catalogs whose
relationships fit in the tables, which those of the run do; `add_dependency` and
`add_notify` drop what does not fit.  A cycle is where it is least obvious: the
fallback order may visit a target before the resource that notifies it, and the
refresh is then lost, which the abstract specification grants by its "before".

### ErbRender

A worker is a compile thread and, while it waits, its request: the code keeps
the request on the worker's stack.  Each critical section is a step.
`pthread_cond_wait` may wake without a signal.  A template is a name with a
text; the set of texts a name may have is a constant, so that a template file
(one text) and an inline template (any text under one name) are instances of
the same module; the run uses the former.  Trees carry the order of their allocation, so a freed tree
and a second parse of the same text are told apart.

### NodeCompile

Environment 0 is `main`'s; node n compiled by a thread has the clone n.  A
statement is an `include`, a resource declaration or a call of `fail()`.  The
manifest cache is looked up, parsed outside the lock, looked up again and
inserted, as `puppet_loader_load_manifest` does; the Ruby type registry and the
policy file are read in several steps under `reg_mutex`, with the reads outside
the lock the code makes.  Counters keep the code's double counting.  Not in the
module: single-node mode, `require` and `contain`, replay of top-level
assignments, the check of source URLs, and the lint of the entry manifest.
Defines, inheritance and what a node evaluates by itself are in `Evaluation`.

### CertAuthority

The processes share files and nothing else.  `disk` gives the contents of every
file; `fopen(..., "w")` (or `open` with `O_TRUNC`) makes a file `Torn` and the
write that follows makes it whole, so a crash or another process can come in
between.  A process is at a stage: a file it is about to save, or a point
between saves.  `OpenFile`, `WriteFile` and `CannotOpen` serve all saves, and the
tables `Follows` and `Otherwise` say where the code goes on after a save that
succeeded and after an `fopen` that failed (the results of saving the serial
number and the signed certificate are ignored, as in `puppet_ca_sign_csr`).
`serial_number` is the number in the memory of a process, read from the file only
when the process starts.  A request in `inbox` is `live` while its agent waits for
it; after a timeout it may still be served.  Requests are well formed (the
certname matches the common name, the signature is right): the checks on a
malformed request return before any state changes.

A server that has its authority makes its own certificate and key at the start,
unless both files are there (`ServerCertExists`), and then `StartDaemon` decides
what it listens to.  Without an authority, or with one of the two files missing,
that is plain HTTP; a file that a crash left empty is read as an empty string, which
`MHD_start_daemon` refuses, and the server ends, at this and every later start.
The URL of an agent is `https://` and the agent has the certificate of the authority;
a run with an `http://` URL counts as a fault.  A request reaches the server when
both speak the same protocol.  `NeedsRepair` names the states that
`EventuallyCertified` leaves out: empty files of the agent, of the authority or of the
server's certificate, and a server that listens without TLS.

Two constants say what the environment does.  `Concurrent`: the operator runs
`puppetc-ca` while the server is up.  `LoseSerial`: a save of the serial file may
fail, or be cut short by a crash while it is empty.

### Providers

A provider is an operator from a resource, the machine and the noop flag to the
set of its outcomes: the answer `CatalogApply` takes as an input, and the machine
it leaves.  `TextProviders` has files as sequences of lines and keeps the code's
way of finding an entry (the line under a cron marker, the first line that
names the host), the fixed buffer (`MaxLines`) and the rewriting in place that a
full disk or a kill cuts short (`Torn`).  `SystemProviders` has nodes, accounts,
packages and units, and takes the tools by what the providers rely on.
`Providers` applies a catalog entry by entry, with `needs_refresh`, run after run,
while others edit the machine.  Spacing, command lines and quoting are left out;
an owner stands for owner and group.

`Tidy`, `FileGap`, `UserGap` and `Restless` name what the properties leave out,
because the code does otherwise: several lines that carry one entry, files past
the buffer, a crontab marker whose job was deleted; a link or a directory where
a file is wanted, an owner that does not exist, mode `0000`; a primary group that
does not exist; and resources that act in every run (exec without a guard,
supplementary groups, `latest` on Debian, cron with an environment).

### AgentRun

`pc` is where `run_agent` is; a run goes through the plugin metadata, the files one
by one, Ruby's facts, the certificate, the catalog request and its application.
`config` is one of the combinations the command line allows, the same in all runs, and
says which plugins were copied to the agent by hand.  The server may publish a file
between the metadata and its contents (`served` remembers what it had).  A fault is a request that fails, a file cut
short, or a kill.  The certificate protocol is one step (it is `CertAuthority`),
and so is the loop over the catalog (`CatalogApply`).

The listing and the contents of plugins are two endpoints of the server, and their
paths do not agree.  `scan_lib_directory` lists a file in a subdirectory of a
module's `lib` as `facter/x.rb` (`server/puppetc_server.c:484`), and
`handle_plugin_content` opens that path below the directory of the modules (line 550),
where it is not: it answers 404, and the agent counts an error and leaves the file it
has, if any, alone.  Only files directly in `lib` (`Direct`) are listed as
`module/lib/x.rb` and found.  Facts, types and providers are in subdirectories
(`Nested`) and reach an agent by hand, as `demo/Dockerfile.node:46` copies them, which
`Installed` stands for.  So `KeptAsInstalled` says of them what the code does, and
`PluginsArrive` is about `Direct`.  Assumed: the server has a directory of modules,
its listing fits the buffer of 1 MB, no plugin is larger than 10 MB, no path has two dots in
a row, two modules have no file in common, and no listed path happens to be that of
another file (a module called `facter`, say).

### Evaluation

What the C functions have still to do is the list `env.todo`: the next statement,
or the code that follows a nested body (pop the scope, run what the list
deferred, enter an instance into the catalog).  Scopes are numbered as they are
created and a destroyed one is not `live`; `caller_scope` of a deferred instance
may point at one.  A class and a define have one parameter and a resource one
attribute, of which values, variables and `undef` are told apart.  Statements are
`include`, `class { }`, `inherits`, (virtual, exported) resources and instances,
overrides, realize, both collectors, functions and `create_resources`.
The array of deferred instances moves when it grows and the code goes on using
a pointer to the old one (`puppet_interpreter.c:5366`); `Capacity` is larger than
what the programs defer, so that read is not reached.

A function body and the body of a collected virtual instance run without a list of
their own, so an instance they declare waits for the list outside, and its
`caller_scope` is gone by then: `InstancesInLists` names the manifests without
such declarations, which those of the run are.  A class whose parent includes it is
entered twice, and the first of its scopes is then kept by nothing and never
destroyed; the class `heir` of `MCEvaluation` is one, and the manifests of the run do
without it.

### HieraLookup

A hierarchy is a sequence of paths with segments to interpolate; a file is a set
of keys and a version, and the value of a key is where it was found, so an answer
tells where it comes from.  `lookup()`, `hiera()`, automatic parameter lookup and a
variable that falls back to Hiera are four kinds of request with their own order
of stages.  The cache of a provider is skipped with `-P`; the caches of module
configurations and files are filled under `cache_mutex`, one step per critical
section.  The merge strategies (`puppet_hiera.c:648`, 734) have no caller.

### CatalogServer

`libmicrohttpd` runs one polling thread, so one request is handled at a time,
which `req` is; every SQL statement is a step and may fail by itself, and the
server may be killed between two.  The compilation is the sequence of its
statements that touch the store: export, collect, declare, and a `fail()` some
facts lead to, after which the statements go on.  An agent asks again and again,
stops waiting when it times out, and its request may still be served (`awaited`).
`missed` are the nodes for which a statement failed: the code only logs it, and
what it leaves is excluded from the two properties about the order of storing.

### TypeCheck, StdlibFunctions, Values

These are pure.  A type is checked, as in the code, on its text: a sequence of
tokens that is searched for brackets and commas again at every level, in buffers
of fixed size (`InnerSize`, `SegmentSize`).  Beside it stands the syntax tree the text was written
from, which says what the type means.  Versions are sequences of digits, letters and
other characters; `LongMax` is where `strtol` stops,
in the code and in what it is held against.  Hashes are functions whose
buckets may be walked in any order.  `Values` asks one question at a time.

## Runs

Passing runs:

| run | instance | what it shows |
|---|---|---|
| `apply` | 3 entries with every ordered pair of relationships, all 4096 dependency tables on 4 entries, and special catalogs (triangle of notifications, missing provider, duplicate, unparsed entry, too many entries, both early returns) | the order is a permutation, follows the dependencies and falls back exactly on a cycle; the queue stays in its array; every change reaches its targets, no refresh comes without a cause; the failures counted are the returned value; the module implements `OrderedApply`, by which a refresh happens at its target's one turn or not at all |
| `erb_files` | 2 workers, 2 renders each, one template in the native subset and one for Ruby | requests and trees are alive while used, no tree is leaked, the module implements `RenderService`, every call returns |
| `nodes` | 3 nodes, sequential or a thread each, with and without `-s`, up to one thread that cannot be created, policy read at top level or lazily | no destroyed program is used, manifests are linted once, the type registry is complete when read, sections come in the order of the facts file; totals equal a closed formula whatever the interleaving, each policy entry is reported once, the exit status reflects errors, a first node with a dangling reference fails, the compiler exits |
| `certificates` | server, one agent that is auto-signed and one that is not, two `puppetc-ca` commands while the server is down, two faults (crash, stop, timeout, failed save, wrong protocol) | serial numbers are unique and the number on disk is ahead of every certificate signed; an agent's certificate fits its key; an auto-signed agent gets its certificate unless a fault left something to repair by hand, also a server that no longer starts |
| `providers` | catalogs of every C provider on machines with entries, nodes, accounts and units in the way; 2 faults, 2 edits by others | what a provider says it did is so, and doing it again does nothing; noop changes nothing and says what would; lines of others survive; services run with their configuration; the runs converge |
| `agent_run` | every configuration; a fact, a type and a provider in subdirectories of `lib`, all, all but the provider or none of them copied by hand, and a file directly in `lib`; the fact and the last are published anew or taken away; 2 faults | what was synchronised is what the server had, a 404 leaves the copied plugins alone, a catalog is compiled from all facts among them, the files the server finds arrive, and after the last fault every run ends alike |
| `evaluation` | all manifests of up to 3 statements over classes that include and inherit each other and nested defines, with and without PuppetDB | scopes outlive their uses and are restored; each body runs as often as declared; parameters, overrides, realizations and the caller's values reach the catalog; no second declaration replaces the first; evaluation ends |
| `hiera` | 2 nodes with different facts, 2 lookups, 1 edited file, sites with and without `--hiera` and module data | a thread is answered by the first match for its node; a sequential answer is the node's own or an earlier one's; misses are not cached; a module's file is seen in one version |
| `catalog_server` | 2 nodes, 3 sites (each collects the other's export; shared names; a compilation that fails between exports), changing facts, 2 faults | a catalog has one version of a resource and only what others export; PuppetDB is never behind what an agent applied, nor its facts behind its catalogs; exports reach those who collect |
| `values` | 32 types, 16 values, all versions of up to 4 characters, all pairs of arrays of up to 2 elements, all pairs of two-level hashes in every bucket order | a value is rejected only if it does not match, and what the code looks into to the end it rejects rightly; versions are totally preordered; the array functions agree on plain elements; the last hash wins |

Invariants that belong together are checked as one; each part has its own
definition and comment in the module.

| invariant | its parts |
|---|---|
| `Accounted` | `RefreshDelivered`, `RefreshJustified`, `FailuresReturned` |
| `CertificatesSafe` | `TypeOK`, `UniqueSerials`, `PersistedAhead`, `KeyMatches` |
| `MemorySafe` | `TypeOK`, `RequestsAlive`, `TreesAlive`, `NoTreeLeaked` |
| `CachesSafe` | `TypeOK`, `ProgramsAlive`, `LintedOnce`, `RegistryComplete` |
| `ReportRight` | `SectionsInOrder`, `PolicyOnce`, `ExitReflectsErrors` |
| `RepairsRight` | `TypeOK`, `DeclaredStateHolds`, `Idempotent`, `ForeignLinesKept` |
| `NoopRight` | `NoopIsHarmless`, `NoopSaysSo` |
| `PluginsWhole` | `TypeOK`, `SyncedWasServed`, `OfflineLeavesPlugins`, `KeptAsInstalled`, `CatalogFromInstalledFacts` |
| `ScopesKept` | `TypeOK`, `ScopesLive`, `Restored` |
| `ValuesArrive` | `ParametersArrive`, `OverridesArrive`, `RealizedArrive`, `CallerValues` |
| `AnswersExplained` | `TypeOK`, `FirstMatch`, `SequentialExplained`, `MissesNotCached` |
| `CatalogsRight` | `TypeOK`, `EachResourceOnce`, `OnlyExportsOfOthers` |
| `StoreAhead` | `FactsBeforeCatalog`, `StoredBeforeApplied` |
| `TypesRight` | `RejectsOnlyMismatches`, `FindsMismatches` |
| `CollectionsRight` | `ArraysAgree`, `RightmostWins` |

Runs that end in a violation, each a disagreement between the code and a line
of the repository (`PROJECT.json`, findings, quotes the line):

| run | what happens |
|---|---|
| `agent_exit` | the agent ends with status 0 after a catalog that `catalog_apply` could not read |
| `hiera_sequential` | in a sequential run a node gets the value that another node, or another module, looked up under the same key; the shortest trace has two modules of one node, and the cause is the same |

Disagreements seen while modelling on which no run is spent.  Those of the first
group are steps of the models, and a property that says otherwise is violated
in a few states:

* After the fallback for a cycle a refresh can be requested when its target has had
  its turn and is never delivered (`agent/puppet_provider.c:1145`;
  `docs/AGENT_ARCHITECTURE.md:154` "After applying all resources, process
  refreshes").
* All inline templates share one name in the caches, so the second renders the
  first one's text (`compiler/puppet_stdlib.c:6798`).
* A Ruby template reads an instance variable left by another caller, also of
  another node (`compiler/puppet_erb.c:405`): the constant `Unset` of `ErbRender`.
* A thread of `-P` sees `policy_loaded` while the file is still being read
  (`compiler/puppet_interpreter.c:2795`) and reports nothing, or reads an entry
  half filled in: `PolicyOnce` without `PolicyReadEarly`.
* `env->catalog` is not emptied between the nodes of a sequential run, so an
  earlier node's resource satisfies a later node's reference, and with `-P`
  no reference is validated (`compiler/puppet_interpreter.c:6096`, 7902).
* A thread that cannot be created prints an error, its node is skipped, and the
  exit status stays 0 (`compiler/puppet_interpreter.c:8396`):
  `ExitReflectsErrors` without `lost = {}`.
* The server and `puppetc-ca` running together sign with one serial number
  (`server/puppet_ca.c:1044`): `Concurrent`.  An agent whose request was approved
  by hand never gets its certificate (`server/puppetc_server.c:940`).
* Pluginsync does not bring facts, types and providers: the paths that are listed
  are not those that are served (`server/puppetc_server.c:484`, 550; the comment at
  476 says "Build relative path for agent: module_name/lib_subpath", the one at 548
  "URL path is: <module>/lib/<subpath>", `README.md:577` "Pluginsync (server serves
  module plugins to agents)").  `PluginsArrive` with `Files` for `Direct` is violated.
* A server whose certificate or key was left empty ends at every start and never makes
  a new one (`server/puppetc_server.c:1349`, 1427), though the comment at 1423 says
  "HTTPS if TLS credentials available, HTTP otherwise".
* A class is looked up before its parent is included and not again after, so one
  that its own parent includes is entered twice, in two scopes
  (`compiler/puppet_interpreter.c:5620`; the comment at 5619 says "classes are
  idempotent"): `EnteredOnce` is violated when `Statements` of `Evaluation.cfg` is
  `{"heirs"}`.
* Attributes of a define's instance are evaluated in the define's own scope, where
  `$title` and the parameters hide the caller's
  (`compiler/puppet_interpreter.c:5305`; the comment at 5250 says the caller's).
* A cron entry with an environment has several lines under its marker, and the
  code takes the first for all (`agent/provider_cron.c:148`; the comment at 119
  says "after cron line").
* A second export of a name replaces the first node's (`common/puppetdb.c:46`, 284),
  exports are never deleted, and the catalog of a failed compilation is stored
  and sent with status 200 (`server/puppetc_server.c:788`).

The others:

* A resource without a provider is not counted as a failure
  (`agent/puppet_provider.c:434`), nor is a refresh that fails (line 1158).
* A relationship past the last slot of a table is dropped without a word
  (`agent/puppet_provider.c:533`); `DeclaredOrder` and `RefreshDelivered` are
  therefore stated for catalogs that fit.
* `fail()` prints one diagnostic and counts two errors
  (`compiler/puppet_stdlib.c:329`), and the node goes on after it (line 328);
  `TotalsAgree` counts as the code does.
* Without `-s` an error outside every node leaves exit status 0
  (`compiler/main.c:533`): `ExitReflectsErrors` without `QuietTop`.
* A crash while the serial file is empty makes the next start count from 1
  (`server/puppet_ca.c:1114`): setting `LoseSerial` to `TRUE` in
  `CertAuthority.cfg` shows it.
* A template file edited while a server runs is not read again
  (`compiler/puppet_erb_native.c:694`).  `puppetc-ca` deletes a request by name after
  it signed, also one saved meanwhile (`server/puppetc_ca_cli.c:192`).
* `sort` looks at the type of the first element and reads the others as if they
  had it, though the comment says mixed arrays are left alone
  (`compiler/puppet_stdlib.c:1929`).  `deep_merge` keeps both spellings of a key whose
  values are not hashes, and with two spellings in one hash its result depends
  on the order of the buckets (line 2503; the comment at 2516 says the rightmost
  value wins): `RightmostWins` is stated for hashes with one spelling.
* `unique`, `union`, `difference` and `intersection` never hold two arrays or hashes
  inside an array for equal: equal ones are all kept by the first two
  (`compiler/puppet_stdlib.c:1809` "duplicate elements removed", 3109 "Return unique
  elements from both arrays").  `unique` keeps every `undef` too.  `ArraysAgree` says
  nothing of these.
* The default URL of an agent is `http://localhost:8140`
  (`agent/puppetc_agent.c:33`), while `README.md:412` says "connects to localhost:8140
  via HTTPS".
* The comment above the type checker says that Pattern, Enum and Variant are accepted
  unchecked (`compiler/puppet_interpreter.c:2500`); the code checks them (2590-2676), and
  `FindsMismatches` holds it to that.
* Literals past the buffers of the type checker are not seen (line 2581), a Variant
  with an alternative of 256 characters or more accepts every value (2662-2668), and a
  regular expression of 512 characters or more is not looked at (2629): `Checked`
  leaves these out, and the run has a type for each of the first two.  A recursive alias accepts everything
  at depth 16 (line 2768).
* Hiera data of the working directory is registered first and wins
  (`compiler/puppet_interpreter.c:761`).
* The `.ssh` directory of a key is made in noop mode too
  (`agent/provider_ssh_authorized_key.c:99`); a plugin that the server no longer has stays.

### Bounds

(`apply`) Three entries are enough for a change, the target it notifies and a third party
that is between them in the order; four for two disjoint cycles and for a cycle
behind a chain.  `MaxResources` is exceeded by one catalog;
`MaxDeps` and `MaxNotify` are not, since what a full table does is to drop the
rest (the proofs hold for all sizes).  (`erb_files`) Two workers are enough for each race between a cache lookup and its insertion, since
the third to arrive finds what the second left; two renders each let a worker
meet its own leftovers.  (`nodes`) Three nodes let two threads race while a third is late,
not created or without a node block.  `MaxLost` bounds the threads that cannot be
created.  (`certificates`) Two faults let a crash meet the consequences of an
earlier one, or a retry meet a crash; two commands let a request be signed,
revoked and signed again.  A batch of two names is not reached with one agent
that is not auto-signed; a process that signs twice without reading the file
again is, in the server.  With three agents and one fault the run passes too,
in more time.  (`providers`) Two faults let a call fail on what another call
left torn, two edits let somebody undo a repair; `MaxLines` is larger than the
files of most scenarios and smaller than those of one.  (`agent_run`) One file of each kind
and two versions let metadata and contents differ; no plugin, all but the provider and all
of them are the sets that may have been copied; the second fault may meet
the first one's torn file.  (`evaluation`) Two levels of nesting, a class that is
entered again and three statements let each pair of operations on one resource
occur in both orders with something between them; longer manifests repeat them.
(`hiera`) Two lookups are what a cache needs, two nodes what a race needs.
(`catalog_server`) Two nodes are one that exports and one that collects; a second
change of facts only repeats the first.  (`values`) Four characters are two runs
of digits or letters, for which two comparisons meet; three arguments of a Variant
and two levels of nesting reach every branch of the splitting.

### Fairness and deadlock

`CatalogApply` is sequential: weak fairness of its next-state relation says the
program goes on.  `ErbRender` has weak fairness for each worker and for the Ruby
thread, `NodeCompile` for main and for each thread: the operating system
schedules every runnable thread.  `CertAuthority` has weak fairness for the
server (a service that systemd starts and restarts, `debian/puppetc-server.service`),
for a `puppetc-ca` that has been started (not for starting it), and for each
agent, which someone or a timer runs again; strong fairness for taking up the
request of an agent, since libmicrohttpd polls its connections in turn.  No lock is assumed fair: the critical sections
are finite and a waiting thread is enabled again and again only while others
make progress, of which there is a bounded amount.  `AgentRun` and `Providers` have
weak fairness for the steps of the agent, which a timer runs again (the kill,
the faults, the edits and the server's publishing are not fair); `Evaluation`
for its one sequence of steps; `HieraLookup` for each thread.  In `CatalogServer` the
agents ask again and the server handles the request it has (weak), and it takes
a connection that is offered again and again (strong), as `CertAuthority` does.
Deadlock checking is off for `CatalogApply`, `ErbRender`, `NodeCompile` and
`CertAuthority`, whose programs end, and on for the later modules, which state their
end as a step or never stop; that the former end in the intended place
is what `ReturnsHavingAppliedAll`, `EveryCallReturns`, `Terminates` and
`EventuallyCertified` say.

## Proofs

The theorems hold for every value of the constants that satisfies the
assumptions the modules name; TLC evaluates these assumptions on every run.

| module | theorem | statement |
|---|---|---|
| `CatalogApply_proofs` | `TypeCorrect` | `Spec => []TypeOK` |
| | `QueueSafe` | `Spec => []QueueFits` |
| | `VisitsOnce` | `Spec => []VisitsEveryEntryOnce` |
| | `DependenciesFirst` | `Spec => []DependencyOrder` |
| | `CyclesDetected` | `Spec => []CycleDetection` |
| | `AppliedInDeclaredOrder` | `Spec => []DeclaredOrder` |
| | `EverythingAccounted` | `Spec => []Accounted` |
| | `ApplyImplementsOrdered` | `Spec /\ Fits => Implements` |
| `ErbRender_proofs` | `MemoryIsSafe` | `Spec => []MemorySafe` |
| | `RendersTheCallersTemplate` | `TemplatesAreFiles => (Spec => Implements)` |
| `NodeCompile_proofs` | `CachesAreSafe` | `Spec => []CachesSafe` |
| | `SectionsAreOrdered` | `Spec => []SectionsInOrder` |
| | `ReferencesAreChecked` | `Spec => ReferencesChecked` |
| | `ReportIsRight` | `Spec => []ReportRight` |
| `CertAuthority_proofs` | `AgentsKeepTheirOwn` | `Spec => [](TypeOK /\ KeyMatches)` |
| | `AuthorityIsSafe` | `~Concurrent /\ ~LoseSerial => (Spec => []CertificatesSafe)` |
| `AgentRun_proofs` | `PluginsAreWhole` | `Spec => []PluginsWhole` |
| `Evaluation_proofs` | `ScopesAreKept` | `InstancesInLists => (Spec /\ []EnteredOnce => []ScopesKept)` |
| | `DeclarationsStand` | `Spec => FirstDeclarationStands` |
| | `RealizesAreAnswered` | `Spec => []RealizedArrive`, and at every moment |
| `HieraLookup_proofs` | `LookupsAreExplained` | `Spec => []AnswersExplained` |
| | `FilesHaveOneVersion` | `Spec => []OneVersion` |
| `CatalogServer_proofs` | `CatalogsAreRight` | `Spec => []CatalogsRight` |
| | `StoreIsAhead` | `Spec => []StoreAhead` |

Four of them have a hypothesis.  `Fits`: the relationships of the catalog fit in
the tables; what does not is dropped by the code.  `TemplatesAreFiles`: a
template name has one text and reads no variable its caller did not set; inline
templates break the one and a variable left by another caller the other (see
above).  `~Concurrent` and `~LoseSerial`: one process of the authority at a time,
and no save of the serial file lost; setting either constant to `TRUE` in
`CertAuthority.cfg` gives a counterexample.  `InstancesInLists`, and `EnteredOnce` at
every moment: functions and collected virtual instances declare no instances, and
no class is entered twice; the code breaks both for other manifests (see above).
The instances of the passing runs satisfy all of them: TLC checks `EnteredOnce` as
part of `EveryBodyRuns` and `InstancesInLists` as an assumption of `MCEvaluation`.

The assumptions on constants say that bounds are natural numbers, that marks
such as `None` are not taken for values, and that inputs have their type (a
manifest is a sequence of statements, a catalog is a catalog).  One says more:
`HierarchiesAssumption` of `HieraLookup`, that the hierarchies which `SelectSeq`
makes of a `hiera.yaml` are lists.  This holds for every site, but takes an
induction over the sequence, which is out of reach here.

### The invariants

None of the properties is inductive.  Each proof has an invariant that is, which
TLC checked on the run before it was proved, and the same three parts: it holds
initially, each action keeps it (a step of the proof for each action), and it
implies the property.

`CatalogApply_proofs`.  A state in the middle of the sort with an arbitrary
counter satisfies the properties, and the next step breaks them.  The invariant is
the conjunction of

* `TypeOK`;
* `in_degree` is nowhere negative;
* `QueueInv`: the queue has no duplicates, and whatever an entry of the queue
  depends on was taken off before it;
* `StartInv`: before the sort nothing is queued;
* `SeedInv`: while the queue is seeded, `in_degree` is the number of
  dependencies, and what is queued is what had none among the entries looked at;
* `ScanInv`: during the sort, `in_degree` of an entry is the number of its
  dependencies that have not been visited, an entry is in the queue exactly when
  that is zero, and inside a visit the entries before the scan position have
  been updated and the others not yet (`Missing`);
* `OrderInv`: once the sort is over, the order is either the queue, complete and
  (by `QueueInv`) consistent with the dependencies, or the catalog order, and then
  the table is `Cyclic`: the entries that were never queued form a set each
  member of which depends on a member.

The last part is why `CycleDetection` follows without an induction over paths: a
cycle is stated as a non-empty set of entries each of which depends on a member
of the set.  In one direction the leftover entries are such a set; in the other
no member of such a set can be the first of them in the order.

The second half of the module goes on from there.  `LinkInv`: the tables hold what the
relationships gone through declare, nothing else, and all of it when it fits.
`ApplyInv`: outcomes, flags and the counter say what happened to the entries the
loop has passed, and whoever listens to a change and is still to come is
flagged.  `DeliveryInv`: in a declared order whoever listens has its turn after the
change.  With these, applying an entry is a `Turn` of `OrderedApply`: it may be next
because its declared prerequisites had their turn (or there is a cycle), and the
flag is set exactly if something it listens to changed before.  All other steps
leave what `OrderedApply` sees unchanged.

`ErbRender_proofs` has three arguments.  `ControlInv` and `DaemonInv`: a request is in
the queue or with the Ruby thread only while its worker waits.  `OwnerInv`: a
tree is owned by the cache or by one worker, so the loser of a race to insert
frees what nobody else has.  `TextInv`, used by the refinement only: what is cached
or answered under a name was made from the text of that name.

`NodeCompile_proofs`.  `UseInv`: a thread holds a program that is cached, or one it has
just parsed itself; `DestroyedInv`: a destroyed program lost to another that stays
cached for ever.  Together: nobody holds a destroyed one.  `RegistryInv`: the flag that
is read outside the lock is set only when the registry is complete.  For the
report, `ParallelInv`: threads are created in the order of the facts file and
joined in the order of creation; `SequentialInv`: a section is written when its
node's turn begins.  `ReferenceInv` relates the table of resources of
environment 0 with the catalog: they agree but for the resource being declared, so that the
validation, which reads the catalog, sees what the table has.  `ReportIsRight` needs six
more.  `WorkersInv`: the report lists threads that were joined, and those are done.
`ErrorsInv`: in every environment an error is counted exactly when one is printed
(a thread that cannot be created is the exception), a failure is a counted
error, and the errors of each thread in the report are among main's.
`FailuresInv`: without `-s` the error must also have failed its node, which is why
`QuietInv` follows the top level, where there is no node to fail, through the
declarations of a `QuietTop`.  `LookupInv` keeps built-in types out of the
registry.  `PolicyInv`: main's own thread reads the policy at the top level and no
thread starts before it has; an entry of the policy that an environment declared
is marked, or its thread is at the check.

`CertAuthority_proofs`.  `KeepInv` needs nothing of the environment: `Held` (what an
agent has on disk and in memory at each stage), `LiveInv` and `AskerInv` (a request
that is waited for carries the waiting agent's key, in the inbox or in the server),
`AnswerInv` (the certificate in the making is for that request).  `SerialInv` says
where each process is relative to the serial file: the number in memory exceeds
all that were issued, by two while the file is behind, and the file is
unreadable only while somebody is about to write it.

`AgentRun_proofs`: what is still listed was served, and the server's files are
those served last (`SyncInv`); the facts, once collected, are those of the files that were
copied (`FactsInv`), which `KeptAsInstalled` keeps whole.

`Evaluation_proofs`.  What `env.todo` will do to the scopes depends on how its tasks nest,
to any depth, so the invariant is about the whole list: `PathInv` says that there
is an itinerary, a context for each task (the stack, the current scope, the class,
the mode and the number of deferred instances when the task is reached, and
the scopes that are doomed, to be destroyed from there on) that begins with what
`env` has (`Here`) and ends with what the evaluation began with (`AtEnd`), each
task leading from its context to the next (`Ready`, `Follows`).  At every stop the current
scope and the scopes on the stack are kept for good or doomed but not yet destroyed
(`Sound`), and so is the `caller_scope` of every instance a list has still to run:
when it is destroyed the list is over.  A step takes one task off the list, or puts
a body with its own stops in front of it.  `KeptInv`: scopes of classes are looked up through scopes of classes, which is
what a class entered twice, with its scope replaced, would break.  `CatalogInv` relates the catalog with
what is marked.  For `DeclarationsStand` the environment's shape is enough: every
step but an override adds to the catalog (`Declaring`), or it belongs to a class that is
executed again.  `RealizeInv`: what is marked is in the catalog unless it has a body to run
first, and what was asked for is in the catalog or still remembered as pending;
neither `InstancesInLists` nor `EnteredOnce` is needed for these two.  That a path only ever
shortens the array of deferred instances is an induction along the list, made
with the least counterexample.

`HieraLookup_proofs`.  `LoaderInv`: the caches of configurations and files are filled by
the holder of the mutex with what was there, and what was handed out is in them.
`SearchInv`: a lookup under way has found nothing in what it has searched, and what
is left to search is all that it may find.  `CacheInv`: what is cached is what an earlier
lookup of the key found for its own node.

`CatalogServer_proofs`.  `OrderInv`: requests of a node are served in the order it sent
them and its facts only grow, so nothing stored or applied is newer than what is still
to come, which is what makes an abandoned request harmless.  `StoredInv`: what
the request in the making has stored by its phase.  `ExportsInv` and `EntriesInv`: an exported row, and an
entry of a catalog in the making, is what the manifest of its exporter has.

### Only model-checked

* Liveness everywhere (`ReturnsHavingAppliedAll`, `EveryCallReturns`, `Terminates`,
  `EventuallyCertified`, `PluginsArrive`, `RunsSettle`, `Converges`, `ExportsArrive`): the
  prover knows neither fairness nor `ENABLED`.
* `Values` and `TypeCheck`: recursive operators, and induction over data.
* `TotalsAgree` of `NodeCompile`: it says what the statements add up to, a sum over
  class bodies nested to any depth, which takes an induction over data.
* `Providers`: `RepairsRight` and `ServicesCurrent` rest on what scanning and filtering
  the lines of a file computes, for files of any length.  `NoopRight` is a case
  analysis over the outcomes of every provider, not made yet.
* `EveryBodyRuns` of `Evaluation`: it counts, in lists of any length.  `ValuesArrive` but
  for `RealizedArrive`: values are looked up through a chain of scopes by
  recursion, and `OverridesArrive` is about the manifests of the run only (an
  override inside a body that `create_resources` runs comes too early for its own
  resource, which is added with the value from before).

## Plan

What is left:

1. The edges of the catalog that chaining arrows, `require` and `contain` make,
   composed with `CatalogApply` through the catalog.
2. `NoopRight` of `Providers`, provider by provider.

## Not modelled

Grammar, parser adapter, AST, lint, dead code and JSON are traversals whose
state ends with the call.  Of the standard library's several hundred functions
those are modelled that keep state or whose comparisons can disagree; the rest
convert strings, numbers, paths and dates one by one.  Arithmetic, selectors,
case and interpolation of the evaluator are expressions without state.  Facter
reads the operating system and prints.  TLS, HTTP and libcurl are external.
Ruby providers run code of modules that are not in the repository.  Allocation
failure is left out: the code treats it as fatal or returns early on paths that
have no further state.

Of the 143,658 lines of implementation 91,427 are the parser tables that
tree-sitter generates.  The models stand for about 15,000 of the 52,000 others;
most of the rest are the traversals and conversions just named.
