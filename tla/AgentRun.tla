----------------------------- MODULE AgentRun ------------------------------
(***************************************************************************)
(* One agent and its runs: run_agent of puppetc-agent, from the plugins it *)
(* fetches to the exit status, with pluginsync_run file by file and the    *)
(* Ruby side of a run (custom facts, types and providers from the library  *)
(* directory), and the two endpoints of the server plugins come from.      *)
(* The server publishes new plugins at any time, requests may fail or time *)
(* out, files may be cut short and the agent may be killed.                *)
(* The certificate protocol and the loop over the catalog are modelled in  *)
(* CertAuthority and CatalogApply; here they are one step each.            *)
(***************************************************************************)
EXTENDS Integers, FiniteSets

CONSTANTS
    Facts,          \* plugin files with a custom fact
    Providers,      \* plugin files with a provider of the Ruby type
    typeFile,       \* the plugin file of the Ruby type
    Direct,         \* plugin files directly in the lib directory of a module
    Copies,         \* the sets of plugins that may have been copied by hand
    Deployed,       \* the files that change on the server
    MaxVersion,     \* how often the server publishes a file anew
    MaxFaults,      \* how many things go wrong
    none, torn      \* no file, a file that was cut short

\* Facts, types and providers are in subdirectories of lib.
Nested == Facts \cup Providers \cup {typeFile}
Files  == Nested \cup Direct

Versions == 1 .. MaxVersion

ASSUME VersionsAssumption == MaxVersion \in Nat \ {0} /\ MaxFaults \in Nat
ASSUME MarksAssumption == {none, torn} \cap Versions = {}
ASSUME PluginsAssumption == Direct \cap Nested = {} /\ Copies \subseteq SUBSET Nested

VARIABLES
    config,         \* agent_config_t: what the command line and the file say;
                    \* and the plugins copied to the agent by hand
    published,      \* the plugins of the modules on the server
    libdir,         \* the plugins on the disk of the agent
    pc,             \* where run_agent is
    ruby,           \* ruby_ctx # NULL
    manifest,       \* the metadata entries still to process
    errors,         \* res.errors > 0, or no metadata
    facts,          \* the versions of the custom facts that were collected
    catalog,        \* none, or the facts it was compiled from
    present,        \* the thing the Ruby resource of the catalog manages exists
    failures,       \* what catalog_apply returned, -1 for a catalog it cannot read
    exit,           \* the exit status of the last run that ended
    faults,
    served          \* since the metadata was sent, the versions of each file there were

vars == <<config, published, libdir, pc, ruby, manifest, errors, facts, catalog, present,
          failures, exit, faults, served>>

memory == <<ruby, manifest, errors, facts, catalog, served>>

Modes == {"apply", "noop", "show"}

Configs == [source     : {"server", "file"},    \* --catalog-file or the server
            pluginsync : BOOLEAN,
            use_ruby   : BOOLEAN,
            show_facts : BOOLEAN,
            mode       : Modes,
            installed  : Copies]

\* The library directory as demo/Dockerfile.node leaves it: what was in the lib
\* directories of the modules when they were copied.
Installed == [f \in Files |-> IF f \in config.installed THEN 1 ELSE none]

Init ==
    /\ config \in Configs
    /\ published \in [Files -> {1}]
    /\ libdir = Installed
    /\ pc = "idle"
    /\ ruby = FALSE /\ manifest = {} /\ errors = FALSE
    /\ facts = {} /\ catalog = none
    /\ served = [f \in Files |-> {}]
    /\ failures = 0
    /\ present = FALSE
    /\ exit = none
    /\ faults = 0

\* Something goes wrong
Fault == faults < MaxFaults /\ faults' = faults + 1

\* The run goes on at to, or the process ends with a status
GoTo(to)     == pc' = to /\ exit' = exit
Exit(status) ==
    /\ pc' = "idle"
    /\ exit' = status
    /\ ruby' = FALSE /\ manifest' = {} /\ errors' = FALSE
    /\ facts' = {} /\ catalog' = none
    /\ served' = [f \in Files |-> {}]

\* Facts are collected after pluginsync, or without it
AfterRuby == IF config.pluginsync /\ config.source = "server" THEN "manifest" ELSE "facts"

\* A new process: a timer or an administrator starts the agent.  Ruby that
\* cannot be started is only a warning.
Start ==
    /\ pc = "idle"
    /\ pc' = AfterRuby
    /\ \/ ruby' = config.use_ruby /\ UNCHANGED faults
       \/ config.use_ruby /\ ruby' = FALSE /\ Fault
    /\ UNCHANGED <<config, published, libdir, manifest, errors, facts, catalog, served,
                   present, failures, exit>>

\* The server lists every plugin of the modules
handle_file_metadatas_plugins ==
    {[path |-> f, checksum |-> published[f]] : f \in {g \in Files : published[g] # none}}

\* scan_lib_directory lists a file in a subdirectory of lib without its module, a
\* file directly in lib with module and lib; what is opened is the path as listed,
\* below the modules.  So only the latter is found.
handle_plugin_content(f) == IF f \in Direct THEN published[f] ELSE none

\* The metadata of all plugins in one answer
FetchMetadata ==
    /\ pc = "manifest"
    /\ \/ /\ manifest' = handle_file_metadatas_plugins
          /\ errors' = FALSE
          /\ served' = [f \in Files |-> {published[f]}]
          /\ GoTo("sync")
          /\ UNCHANGED faults
       \/ /\ Fault
          /\ errors' = TRUE
          /\ GoTo("facts")
          /\ UNCHANGED <<manifest, served>>
    /\ UNCHANGED <<config, published, libdir, ruby, facts, catalog, present, failures>>

pluginsync_file_matches(e) == libdir[e.path] = e.checksum

\* What download_file may leave when something goes wrong: nothing new, or a file
\* cut short, which is noticed unless it shows only when the file is closed
download_file_fails(e) ==
    \/ errors' = TRUE /\ libdir' \in {libdir, [libdir EXCEPT ![e.path] = torn]}
    \/ errors' = errors /\ libdir' = [libdir EXCEPT ![e.path] = torn]

\* Mutant: whatever the status, the body of the answer is the file.
download_file_AnyStatus(e) ==
    /\ libdir' = [libdir EXCEPT ![e.path] = IF handle_plugin_content(e.path) = none THEN torn
                                            ELSE handle_plugin_content(e.path)]
    /\ UNCHANGED <<errors, faults>>

\* The contents are fetched apart from the metadata, so they may be newer; a
\* file the server does not find is an error before the old one is opened.
download_file(e) ==
    LET content == handle_plugin_content(e.path)
    IN  \/ /\ content # none
           /\ libdir' = [libdir EXCEPT ![e.path] = content]
           /\ UNCHANGED <<errors, faults>>
        \/ /\ content = none
           /\ errors' = TRUE
           /\ UNCHANGED <<libdir, faults>>
        \/ content # none /\ Fault /\ download_file_fails(e)

\* Mutant: a file that is there is not fetched again.
SyncFile_Existing ==
    /\ pc = "sync"
    /\ \E e \in manifest :
         /\ manifest' = manifest \ {e}
         /\ IF libdir[e.path] # none THEN UNCHANGED <<libdir, errors, faults>> ELSE download_file(e)
    /\ GoTo("sync")
    /\ UNCHANGED <<config, published, ruby, facts, catalog, present, failures, served>>

\* One entry of the metadata, in the order the server lists them
SyncFile ==
    /\ pc = "sync"
    /\ \E e \in manifest :
         /\ manifest' = manifest \ {e}
         /\ IF pluginsync_file_matches(e) THEN UNCHANGED <<libdir, errors, faults>>
                                          ELSE download_file(e)
    /\ GoTo("sync")
    /\ UNCHANGED <<config, published, ruby, facts, catalog, present, failures, served>>

\* Files the server does not list any more stay where they are.  An error is
\* only a warning.
EndSync ==
    /\ pc = "sync" /\ manifest = {}
    /\ GoTo("facts")
    /\ UNCHANGED <<config, published, libdir, memory, present, failures, faults>>

Readable(f) == libdir[f] \notin {none, torn}

\* facter_collect, then every custom fact that Ruby can load; a file it cannot
\* load is a warning
CollectFacts ==
    /\ pc = "facts"
    /\ \/ /\ facts' = IF ruby THEN {<<f, libdir[f]>> : f \in {g \in Facts : Readable(g)}} ELSE {}
          /\ GoTo(IF config.source = "server" THEN "certificate"
                  ELSE IF config.show_facts THEN "show" ELSE "catalog")
          /\ UNCHANGED <<ruby, manifest, errors, catalog, served, faults>>
       \/ Fault /\ Exit(1)
    /\ UNCHANGED <<config, published, libdir, present, failures>>

\* ensure_certificate
EnsureCertificate ==
    /\ pc = "certificate"
    /\ \/ GoTo(IF config.show_facts THEN "show" ELSE "status") /\ UNCHANGED <<memory, faults>>
       \/ Fault /\ Exit(1)
    /\ UNCHANGED <<config, published, libdir, present, failures>>

ShowFacts ==
    /\ pc = "show"
    /\ Exit(0)
    /\ failures' = 0
    /\ UNCHANGED <<config, published, libdir, present, faults>>

check_server_status ==
    /\ pc = "status"
    /\ \/ GoTo("catalog") /\ UNCHANGED <<memory, faults>>
       \/ Fault /\ Exit(1)
    /\ UNCHANGED <<config, published, libdir, present, failures>>

\* The catalog comes from the server, compiled from the facts sent, or from a file
RequestCatalog ==
    /\ pc = "catalog"
    /\ \/ /\ catalog' = facts
          /\ GoTo("apply")
          /\ UNCHANGED <<ruby, manifest, errors, facts, served, faults>>
       \/ Fault /\ Exit(1)
    /\ UNCHANGED <<config, published, libdir, present, failures>>

\* agent_ruby_has_type looks for the file only
agent_ruby_has_type == ruby /\ libdir[typeFile] # none

agent_ruby_call_provider_Create ==
    {IF config.mode = "noop" THEN <<"NOOP", present>>
     ELSE IF present THEN <<"FAILED", TRUE>> ELSE <<"CHANGED", TRUE>>}

\* agent_ruby_call_provider takes the first file the directory lists, loads it
\* and the type, and creates what is not there; the answer and what is there after
agent_ruby_call_provider ==
    LET files == {p \in Providers : libdir[p] # none}
        loads == {p \in files : Readable(p) /\ Readable(typeFile)}
    IN  (IF files = {} THEN {<<"FAILED", present>>} ELSE {})
          \cup {IF p \notin loads THEN <<"FAILED", present>>
                ELSE IF config.mode = "noop" THEN <<"NOOP", present>>
                ELSE IF present THEN <<"SUCCESS", TRUE>> ELSE <<"CHANGED", TRUE>> : p \in files}

\* The Ruby resource of the catalog, by resource_apply
RubyResource ==
    IF agent_ruby_has_type THEN agent_ruby_call_provider ELSE {<<"FAILED", present>>}

\* Only failures that were counted make the status 1
Status == IF failures' > 0 THEN 1 ELSE 0

\* catalog_apply on a catalog with one resource of a Ruby type
ApplyCatalog ==
    /\ pc = "apply"
    /\ config.mode # "show"
    /\ \/ /\ \E o \in RubyResource :
               /\ failures' = IF o[1] = "FAILED" THEN 1 ELSE 0
               /\ present' = o[2]
          /\ UNCHANGED faults
       \/ Fault /\ failures' \in {-1, 1} /\ UNCHANGED present
    /\ Exit(Status)
    /\ UNCHANGED <<config, published, libdir>>

\* Neither --apply nor --noop
ShowCatalog ==
    /\ pc = "apply"
    /\ config.mode = "show"
    /\ Exit(0)
    /\ failures' = 0
    /\ UNCHANGED <<config, published, libdir, present, faults>>

\* A signal, a reboot; a file that was being written is cut short
Kill ==
    /\ pc # "idle"
    /\ Fault
    /\ Exit(none)
    /\ libdir' \in {libdir} \cup {[libdir EXCEPT ![e.path] = torn] :
                                    e \in {x \in manifest : ~pluginsync_file_matches(x)
                                              /\ handle_plugin_content(x.path) # none}}
    /\ UNCHANGED <<config, published, present, failures>>

\* A newer version of a plugin is deployed on the server, or a plugin taken away
Publish ==
    \E f \in Deployed, v \in Versions \cup {none} :
      /\ published[f] # none
      /\ v = published[f] + 1 \/ v = none
      /\ published' = [published EXCEPT ![f] = v]
      /\ served' = [served EXCEPT ![f] = IF pc = "sync" THEN @ \cup {v} ELSE @]
      /\ UNCHANGED <<config, libdir, pc, ruby, manifest, errors, facts, catalog, present,
                     failures, exit, faults>>

AgentStep ==
    \/ Start \/ FetchMetadata \/ SyncFile \/ EndSync \/ CollectFacts \/ EnsureCertificate
    \/ ShowFacts \/ check_server_status \/ RequestCatalog \/ ApplyCatalog \/ ShowCatalog

Next == AgentStep \/ Kill \/ Publish

\* Every request has a timeout and every other step ends by itself; the agent is
\* started again after each run.
Spec == Init /\ [][Next]_vars /\ WF_vars(AgentStep)
-----------------------------------------------------------------------------
TypeOK ==
    /\ libdir \in [Files -> Versions \cup {none, torn}]
    /\ published \in [Files -> Versions \cup {none}]
    /\ pc \in {"idle", "manifest", "sync", "facts", "certificate", "show", "status", "catalog", "apply"}
    /\ exit \in {none, 0, 1}
    /\ faults \in 0 .. MaxFaults
    /\ failures \in {-1, 0, 1}
    /\ \A f \in Files : served[f] \subseteq Versions \cup {none}

\* Metadata and contents are fetched one after the other while the server may
\* change both: for every listed file it went through, a synchronisation left contents
\* that the server had at some time during it (or, on a full disk, a file cut short
\* that only fclose could have told), or it counted an error, for a file the server
\* did not find or a request that failed.
SyncedWasServed ==
    pc = "sync" =>
      \A f \in Files :
        \/ \E e \in manifest : e.path = f
        \/ served[f] \cap Versions = {}
        \/ libdir[f] \in served[f]
        \/ errors /\ (f \in Nested \/ none \in served[f] \/ faults > 0)
        \/ libdir[f] = torn /\ faults > 0

\* With --catalog-file the agent works without a server and leaves the plugins
\* of earlier runs alone.
OfflineLeavesPlugins ==
    config.source = "file" =>
      libdir = Installed /\ pc \notin {"manifest", "sync", "certificate", "status"}

\* A fact, type or provider copied to the library directory stays as it was copied,
\* though every synchronisation finds that it differs and asks for it: no error
\* answer takes its place and no kill cuts it short.
KeptAsInstalled == \A f \in Nested : libdir[f] = Installed[f]

\* A catalog is compiled from all the custom facts there are, when Ruby could be
\* started, whatever became of the synchronisation before.
CatalogFromInstalledFacts ==
    pc = "apply" =>
      catalog = IF ruby THEN {<<f, Installed[f]>> : f \in Facts \cap config.installed} ELSE {}

\* A file that is cut short is fetched again, and what the server publishes
\* arrives: in the end the agent has the server's version of every file the server
\* finds, those directly in the lib directory of a module.
PluginsArrive ==
    config.source = "server" /\ config.pluginsync =>
      <>[](\A f \in Direct : published[f] # none => libdir[f] = published[f])

\* The Ruby resource of the catalog can be applied when its plugins were copied.
RubyWorks ==
    config.use_ruby /\ typeFile \in config.installed /\ Providers \cap config.installed # {}

\* After the last fault every run ends in the same way, whether it synchronises
\* plugins or not: with success if the Ruby resource can be applied or nothing is.
RunsSettle ==
    <>[](exit = IF config.show_facts \/ config.mode = "show" \/ RubyWorks THEN 0 ELSE 1)

\* man/man1/puppetc-agent.1, EXIT STATUS: 0 for a catalog applied or no changes
\* needed, 1 for a catalog error or resource failures.
ExitTellsFailure == exit = 0 /\ pc = "idle" => failures = 0

\* What a run synchronises is what the server had meanwhile, what was copied by
\* hand is not lost, and catalogs are compiled from it (pluginsync_run, run_agent).
PluginsWhole ==
    /\ TypeOK /\ SyncedWasServed /\ OfflineLeavesPlugins
    /\ KeptAsInstalled /\ CatalogFromInstalledFacts
=============================================================================
