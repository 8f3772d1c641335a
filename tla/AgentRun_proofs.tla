-------------------------- MODULE AgentRun_proofs --------------------------
(***************************************************************************)
(* Proofs about AgentRun, for any plugins, versions and number of faults:  *)
(* what pluginsync leaves on the disk of the agent was on the server while *)
(* it ran, the facts, types and providers copied by hand stay, and a       *)
(* catalog is compiled from all the facts among them.                      *)
(***************************************************************************)
EXTENDS AgentRun, TLAPS

\* What is listed was served, and the server's files are those served last.
SyncInv ==
    /\ pc # "sync" => manifest = {}
    /\ \A e \in manifest : e.path \in Files /\ e.checksum \in served[e.path]
    /\ pc = "sync" => \A f \in Files : published[f] \in served[f]

\* The facts of a run are those that were copied, from their collection on.
Copied == IF ruby THEN {<<f, Installed[f]>> : f \in Facts \cap config.installed} ELSE {}
FactsInv == pc \in {"certificate", "show", "status", "catalog"} => facts = Copied

IndInv ==
    /\ PluginsWhole /\ SyncInv /\ FactsInv
    /\ config \in Configs /\ errors \in BOOLEAN
    /\ served \in [Files -> SUBSET (Versions \cup {none})]
-----------------------------------------------------------------------------
Stages == {"idle", "manifest", "sync", "facts", "certificate", "show", "status", "catalog", "apply"}

\* The steps away from pluginsync keep the plugins, and list none.
LEMMA KeepsPlugins ==
    ASSUME IndInv, config' = config, published' = published, libdir' = libdir, manifest' = {},
           errors' \in BOOLEAN, faults' \in 0..MaxFaults, failures' \in {-1, 0, 1},
           exit' \in {none, 0, 1}, pc' \in Stages \ {"sync"},
           config.source = "file" => pc' \notin {"manifest", "certificate", "status"},
           FactsInv', CatalogFromInstalledFacts',
           \/ served' = served
           \/ served' = [f \in Files |-> {}]
    PROVE  IndInv'
<1>1. \A f \in Files : served'[f] \subseteq Versions \cup {none}
  BY DEF IndInv, PluginsWhole, TypeOK
<1>2. TypeOK'
  BY <1>1 DEF IndInv, PluginsWhole, TypeOK, Stages
<1>3. SyncedWasServed' /\ SyncInv'
  BY DEF SyncedWasServed, SyncInv, Stages
<1>4. OfflineLeavesPlugins' /\ KeptAsInstalled'
  BY DEF IndInv, PluginsWhole, OfflineLeavesPlugins, KeptAsInstalled, Installed, Stages
<1> QED
  BY <1>2, <1>3, <1>4 DEF IndInv, PluginsWhole

\* A run that ends keeps nothing in memory; it may leave a file cut short when it
\* is killed.
LEMMA RunEnds ==
    ASSUME IndInv, config' = config, published' = published, NEW status \in {none, 0, 1},
           Exit(status), libdir' \in [Files -> Versions \cup {none, torn}],
           config.source = "file" => libdir' = libdir,
           \A f \in Nested : libdir'[f] = libdir[f],
           faults' \in 0..MaxFaults, failures' \in {-1, 0, 1}
    PROVE  IndInv'
<1>1. TypeOK'
  BY DEF IndInv, PluginsWhole, TypeOK, Exit
<1>2. SyncedWasServed' /\ SyncInv' /\ FactsInv' /\ CatalogFromInstalledFacts' /\ errors' \in BOOLEAN
  BY DEF SyncedWasServed, SyncInv, FactsInv, CatalogFromInstalledFacts, Exit
<1>3. OfflineLeavesPlugins' /\ KeptAsInstalled'
  BY DEF IndInv, PluginsWhole, OfflineLeavesPlugins, KeptAsInstalled, Installed, Exit
<1>4. served' \in [Files -> SUBSET (Versions \cup {none})]
  BY DEF Exit
<1> QED
  BY <1>1, <1>2, <1>3, <1>4 DEF IndInv, PluginsWhole

LEMMA FaultCounted ==
    ASSUME IndInv, Fault
    PROVE  faults' \in 0..MaxFaults /\ faults' > 0
  BY VersionsAssumption DEF IndInv, PluginsWhole, TypeOK, Fault

\* The metadata lists every file that is on the server.
LEMMA FetchMetadataStep ==
    ASSUME IndInv, FetchMetadata
    PROVE  IndInv'
<1>1. /\ pc = "manifest" /\ manifest = {} /\ config.source # "file"
      /\ config' = config /\ published' = published /\ libdir' = libdir
      /\ failures' = failures /\ exit' = exit /\ pc' \in {"sync", "facts"}
  BY DEF FetchMetadata, GoTo, IndInv, SyncInv, PluginsWhole, OfflineLeavesPlugins
<1>2. FactsInv' /\ CatalogFromInstalledFacts'
  BY <1>1 DEF FactsInv, CatalogFromInstalledFacts
<1>3. CASE Fault /\ errors' = TRUE /\ GoTo("facts") /\ UNCHANGED <<manifest, served>>
  BY <1>1, <1>2, <1>3, FaultCounted, KeepsPlugins
     DEF GoTo, Stages, IndInv, PluginsWhole, TypeOK
<1>4. CASE /\ manifest' = {[path |-> f, checksum |-> published[f]] :
                             f \in {g \in Files : published[g] # none}}
           /\ errors' = FALSE
           /\ served' = [f \in Files |-> {published[f]}]
           /\ GoTo("sync")
           /\ UNCHANGED faults
  <2>1. \A f \in Files : /\ served'[f] = {published[f]} /\ published[f] \in Versions \cup {none}
                         /\ published[f] # none => \E e \in manifest' : e.path = f
    <3>1. \A f \in Files : published[f] # none =>
             [path |-> f, checksum |-> published[f]] \in manifest'
      BY <1>4
    <3> QED
      BY <1>4, <3>1 DEF IndInv, PluginsWhole, TypeOK
  <2>2. TypeOK'
    BY <1>1, <1>4, <2>1 DEF IndInv, PluginsWhole, TypeOK, GoTo
  <2>3. SyncedWasServed'
    BY <2>1, MarksAssumption DEF SyncedWasServed
  <2>4. SyncInv'
    <3>1. \A e \in manifest' : e.path \in Files /\ e.checksum = published[e.path]
      BY <1>4
    <3> QED
      BY <1>1, <1>4, <2>1, <3>1 DEF SyncInv, GoTo
  <2>5. OfflineLeavesPlugins' /\ KeptAsInstalled'
    BY <1>1 DEF IndInv, PluginsWhole, OfflineLeavesPlugins, KeptAsInstalled, Installed
  <2>6. served' \in [Files -> SUBSET (Versions \cup {none})]
    BY <1>4, <2>1
  <2> QED
    BY <1>1, <1>2, <1>4, <2>2, <2>3, <2>4, <2>5, <2>6 DEF IndInv, PluginsWhole
<1> QED
  BY <1>3, <1>4 DEF FetchMetadata, handle_file_metadatas_plugins

\* A file is left alone, fetched whole, or fetched badly, which is an error or
\* leaves it cut short.
LEMMA SyncFileStep ==
    ASSUME IndInv, SyncFile
    PROVE  IndInv'
<1>1. PICK e \in manifest :
         /\ manifest' = manifest \ {e}
         /\ IF pluginsync_file_matches(e) THEN UNCHANGED <<libdir, errors, faults>>
                                          ELSE download_file(e)
  BY DEF SyncFile
<1>2. /\ pc = "sync" /\ pc' = "sync" /\ exit' = exit /\ config' = config /\ published' = published
      /\ failures' = failures /\ served' = served
      /\ config.source # "file"
  BY DEF SyncFile, GoTo, IndInv, PluginsWhole, OfflineLeavesPlugins
<1>3. /\ e.path \in Files /\ e.checksum \in served[e.path] /\ published[e.path] \in served[e.path]
      /\ published[e.path] \in Versions \cup {none}
      /\ libdir \in [Files -> Versions \cup {none, torn}] /\ faults \in 0..MaxFaults
  BY <1>1, <1>2 DEF IndInv, SyncInv, PluginsWhole, TypeOK
<1>4. /\ libdir' \in [Files -> Versions \cup {none, torn}]
      /\ errors' \in BOOLEAN /\ faults' \in 0..MaxFaults /\ faults' >= faults
      /\ \A f \in Files : f # e.path => libdir'[f] = libdir[f]
      /\ e.path \in Nested => libdir'[e.path] = libdir[e.path]
      /\ errors => errors'
      /\ \/ libdir'[e.path] \in served[e.path]
         \/ errors' /\ (e.path \in Nested \/ none \in served[e.path] \/ faults' > 0)
         \/ libdir'[e.path] = torn /\ faults' > 0
  <2>1. CASE pluginsync_file_matches(e)
    BY <1>1, <1>3, <2>1 DEF pluginsync_file_matches, IndInv
  <2>0. e.path \notin Direct => handle_plugin_content(e.path) = none
    BY DEF handle_plugin_content
  <2>2. CASE ~pluginsync_file_matches(e) /\ e.path \in Direct /\ published[e.path] # none
               /\ libdir' = [libdir EXCEPT ![e.path] = published[e.path]]
               /\ UNCHANGED <<errors, faults>>
    BY <1>3, <2>2, PluginsAssumption DEF IndInv
  <2>3. CASE errors' = TRUE /\ UNCHANGED <<libdir, faults>> /\ handle_plugin_content(e.path) = none
    <3>1. e.path \in Nested \/ published[e.path] = none
      BY <1>3, <2>3 DEF handle_plugin_content, Files
    <3> QED
      BY <1>3, <2>3, <3>1
  <2>4. CASE e.path \in Direct /\ Fault /\ download_file_fails(e)
    <3>1. faults' \in 0..MaxFaults /\ faults' > 0 /\ faults' >= faults
      BY <1>3, <2>4, FaultCounted DEF Fault
    <3>2. \/ errors' = TRUE /\ libdir' = libdir
          \/ errors' \in {TRUE, errors} /\ libdir' = [libdir EXCEPT ![e.path] = torn]
      BY <2>4 DEF download_file_fails
    <3> QED
      BY <1>3, <2>4, <3>1, <3>2, PluginsAssumption DEF IndInv
  <2> QED
    BY <1>1, <2>0, <2>1, <2>2, <2>3, <2>4 DEF download_file, handle_plugin_content
<1>5. TypeOK'
  BY <1>2, <1>4 DEF IndInv, PluginsWhole, TypeOK
<1>6. SyncedWasServed'
  <2> SUFFICES ASSUME NEW f \in Files
               PROVE  \/ \E x \in manifest' : x.path = f
                      \/ served'[f] \cap Versions = {}
                      \/ libdir'[f] \in served'[f]
                      \/ errors' /\ (f \in Nested \/ none \in served'[f] \/ faults' > 0)
                      \/ libdir'[f] = torn /\ faults' > 0
    BY DEF SyncedWasServed
  <2>1. CASE f = e.path
    BY <1>2, <1>4, <2>1
  <2>2. CASE f # e.path
    <3>1. \/ \E x \in manifest : x.path = f
          \/ served[f] \cap Versions = {}
          \/ libdir[f] \in served[f]
          \/ errors /\ (f \in Nested \/ none \in served[f] \/ faults > 0)
          \/ libdir[f] = torn /\ faults > 0
      BY <1>2, <1>4 DEF IndInv, PluginsWhole, SyncedWasServed
    <3>2. \A x \in manifest : x.path = f => x \in manifest'
      BY <1>1, <2>2
    <3> QED
      BY <1>2, <1>3, <1>4, <2>2, <3>1, <3>2
  <2> QED
    BY <2>1, <2>2
<1>7. OfflineLeavesPlugins' /\ SyncInv' /\ FactsInv' /\ CatalogFromInstalledFacts'
  BY <1>1, <1>2 DEF IndInv, PluginsWhole, OfflineLeavesPlugins, SyncInv, FactsInv,
                    CatalogFromInstalledFacts
<1>8. KeptAsInstalled'
  BY <1>2, <1>4 DEF IndInv, PluginsWhole, KeptAsInstalled, Installed, Files
<1> QED
  BY <1>2, <1>4, <1>5, <1>6, <1>7, <1>8 DEF IndInv, PluginsWhole

\* The steps between pluginsync and the end of the run.
LEMMA OtherSteps ==
    ASSUME IndInv,
           \/ Start \/ EndSync \/ CollectFacts \/ EnsureCertificate \/ ShowFacts
           \/ check_server_status \/ RequestCatalog \/ ApplyCatalog \/ ShowCatalog
    PROVE  IndInv'
<1>1. /\ config' = config /\ published' = published /\ libdir' = libdir
      /\ libdir' \in [Files -> Versions \cup {none, torn}] /\ failures \in {-1, 0, 1}
      /\ exit \in {none, 0, 1} /\ errors \in BOOLEAN /\ (pc # "sync" => manifest = {})
      /\ FactsInv /\ CatalogFromInstalledFacts /\ pc \in Stages /\ faults \in 0..MaxFaults
      /\ config.source = "file" => pc \notin {"manifest", "sync", "certificate", "status"}
      /\ config.source \in {"file", "server"}
  BY DEF Start, EndSync, CollectFacts, EnsureCertificate, ShowFacts, check_server_status,
         RequestCatalog, ApplyCatalog, ShowCatalog, IndInv, PluginsWhole, TypeOK, SyncInv, Stages,
         OfflineLeavesPlugins, Configs
<1>2. ASSUME Fault /\ Exit(1) /\ UNCHANGED failures
      PROVE  IndInv'
  BY <1>1, <1>2, FaultCounted, RunEnds
<1>3. CASE Start
  <2>1. /\ pc' \in {"manifest", "facts"} /\ (config.source = "file" => pc' # "manifest")
        /\ UNCHANGED <<manifest, errors, facts, catalog, served, failures, exit>>
        /\ pc = "idle"
    BY <1>3 DEF Start, AfterRuby
  <2>2. faults' \in 0..MaxFaults
    BY <1>1, <1>3, FaultCounted DEF Start
  <2>3. FactsInv' /\ CatalogFromInstalledFacts'
    BY <2>1 DEF FactsInv, CatalogFromInstalledFacts
  <2> QED
    BY <1>1, <2>1, <2>2, <2>3, KeepsPlugins DEF Stages
<1>4. CASE EndSync
  <2>1. /\ pc' = "facts" /\ exit' = exit /\ failures' = failures /\ faults' = faults
        /\ manifest' = {} /\ UNCHANGED <<errors, facts, catalog, served>>
    BY <1>4 DEF EndSync, GoTo, memory
  <2>2. FactsInv' /\ CatalogFromInstalledFacts'
    BY <2>1 DEF FactsInv, CatalogFromInstalledFacts
  <2> QED
    BY <1>1, <2>1, <2>2, KeepsPlugins DEF Stages
<1>5. CASE CollectFacts
  <2>1. CASE Fault /\ Exit(1)
    BY <1>2, <1>5, <2>1 DEF CollectFacts
  <2>2. CASE /\ facts' = IF ruby THEN {<<f, libdir[f]>> : f \in {g \in Facts : Readable(g)}} ELSE {}
             /\ GoTo(IF config.source = "server" THEN "certificate"
                     ELSE IF config.show_facts THEN "show" ELSE "catalog")
             /\ UNCHANGED <<ruby, manifest, errors, catalog, served, faults>>
    <3>1. /\ pc' \in {"certificate", "show", "catalog"} /\ exit' = exit /\ failures' = failures
          /\ config.source = "file" => pc' # "certificate"
          /\ pc = "facts"
      BY <1>5, <2>2 DEF CollectFacts, GoTo
    <3>2. /\ \A g \in Facts : libdir[g] = Installed[g] /\ g \in Files
          /\ 1 \in Versions /\ 1 \notin {none, torn}
      BY VersionsAssumption, MarksAssumption
         DEF IndInv, PluginsWhole, KeptAsInstalled, Nested, Files, Versions
    <3>3. {g \in Facts : Readable(g)} = Facts \cap config.installed
      BY <3>2 DEF Readable, Installed
    <3>4. facts' = Copied /\ Copied' = Copied
      <4>1. facts' = Copied
        <5>1. {<<g, libdir[g]>> : g \in Facts \cap config.installed}
                = {<<g, Installed[g]>> : g \in Facts \cap config.installed}
          BY <3>2
        <5> QED
          BY <2>2, <3>3, <5>1 DEF Copied
      <4>2. Installed' = Installed
        BY <1>1 DEF Installed
      <4> QED
        BY <1>1, <2>2, <4>1, <4>2 DEF Copied
    <3>5. FactsInv' /\ CatalogFromInstalledFacts'
      BY <3>1, <3>4 DEF FactsInv, CatalogFromInstalledFacts
    <3> QED
      BY <1>1, <2>2, <3>1, <3>5, KeepsPlugins DEF Stages
  <2> QED
    BY <1>5, <2>1, <2>2 DEF CollectFacts
<1>6. CASE EnsureCertificate \/ check_server_status
  <2>1. CASE Fault /\ Exit(1)
    BY <1>2, <1>6, <2>1 DEF EnsureCertificate, check_server_status
  <2>2. CASE ~(Fault /\ Exit(1))
    <3>1. /\ pc' \in {"show", "status", "catalog"} /\ exit' = exit /\ failures' = failures
          /\ faults' = faults /\ UNCHANGED <<ruby, manifest, errors, facts, catalog, served>>
          /\ pc \in {"certificate", "status"}
      BY <1>6, <2>2 DEF EnsureCertificate, check_server_status, GoTo, memory
    <3>2. FactsInv' /\ CatalogFromInstalledFacts'
      BY <1>1, <3>1 DEF FactsInv, CatalogFromInstalledFacts, Copied, Installed
    <3> QED
      BY <1>1, <3>1, <3>2, KeepsPlugins DEF Stages
  <2> QED
    BY <2>1, <2>2
<1>7. CASE RequestCatalog
  <2>1. CASE Fault /\ Exit(1)
    BY <1>2, <1>7, <2>1 DEF RequestCatalog
  <2>2. CASE /\ catalog' = facts
             /\ GoTo("apply")
             /\ UNCHANGED <<ruby, manifest, errors, facts, served, faults>>
    <3>1. /\ pc' = "apply" /\ exit' = exit /\ failures' = failures /\ pc = "catalog"
      BY <1>7, <2>2 DEF RequestCatalog, GoTo
    <3>2. FactsInv' /\ CatalogFromInstalledFacts'
      BY <1>1, <2>2, <3>1 DEF FactsInv, CatalogFromInstalledFacts, Copied, Installed
    <3> QED
      BY <1>1, <2>2, <3>1, <3>2, KeepsPlugins DEF Stages
  <2> QED
    BY <1>7, <2>1, <2>2 DEF RequestCatalog
<1>8. CASE ShowFacts \/ ShowCatalog
  <2>1. Exit(0) /\ failures' = 0 /\ faults' = faults
    BY <1>8 DEF ShowFacts, ShowCatalog
  <2> QED
    BY <1>1, <2>1, RunEnds
<1>9. CASE ApplyCatalog
  <2>1. failures' \in {-1, 0, 1} /\ faults' \in 0..MaxFaults
    BY <1>1, <1>9, FaultCounted DEF ApplyCatalog
  <2>2. PICK s \in {0, 1} : Exit(s)
    BY <1>9 DEF ApplyCatalog, Status
  <2> QED
    BY <1>1, <2>1, <2>2, RunEnds
<1> QED
  BY <1>3, <1>4, <1>5, <1>6, <1>7, <1>8, <1>9

LEMMA KillStep ==
    ASSUME IndInv, Kill
    PROVE  IndInv'
<1>1. /\ config' = config /\ published' = published /\ failures' = failures
      /\ Exit(none) /\ faults' \in 0..MaxFaults
  BY FaultCounted DEF Kill
<1>2. config.source = "file" => manifest = {}
  BY DEF IndInv, PluginsWhole, OfflineLeavesPlugins, SyncInv
<1>3. \/ libdir' = libdir
      \/ \E e \in manifest : e.path \in Direct /\ libdir' = [libdir EXCEPT ![e.path] = torn]
  BY DEF Kill, handle_plugin_content
<1>4. /\ libdir' \in [Files -> Versions \cup {none, torn}] /\ failures' \in {-1, 0, 1}
      /\ \A f \in Nested : libdir'[f] = libdir[f]
  BY <1>1, <1>3, PluginsAssumption DEF IndInv, PluginsWhole, TypeOK, Files
<1> QED
  BY <1>1, <1>2, <1>3, <1>4, RunEnds

\* What is published during pluginsync is noted as served.
LEMMA PublishStep ==
    ASSUME IndInv, Publish
    PROVE  IndInv'
<1>1. PICK f \in Deployed : \E v \in Versions \cup {none} :
         /\ published[f] # none
         /\ published' = [published EXCEPT ![f] = v]
         /\ served' = [served EXCEPT ![f] = IF pc = "sync" THEN @ \cup {v} ELSE @]
         /\ UNCHANGED <<config, libdir, pc, ruby, manifest, errors, facts, catalog, present,
                        failures, exit, faults>>
  BY DEF Publish
<1>2. PICK v \in Versions \cup {none} :
         /\ published[f] # none
         /\ published' = [published EXCEPT ![f] = v]
         /\ served' = [served EXCEPT ![f] = IF pc = "sync" THEN @ \cup {v} ELSE @]
         /\ UNCHANGED <<config, libdir, pc, ruby, manifest, errors, facts, catalog, present,
                        failures, exit, faults>>
  BY <1>1
<1>3. /\ published' \in [Files -> Versions \cup {none}]
      /\ \A g \in Files : g # f => published'[g] = published[g]
      /\ f \in Files => published'[f] = v
  BY <1>2 DEF IndInv, PluginsWhole, TypeOK
<1>4. /\ served' \in [Files -> SUBSET (Versions \cup {none})]
      /\ \A g \in Files : served[g] \subseteq served'[g]
      /\ \A g \in Files : g # f => served'[g] = served[g]
      /\ f \in Files /\ pc = "sync" => v \in served'[f]
  BY <1>2 DEF IndInv
<1>5. TypeOK'
  BY <1>2, <1>3, <1>4 DEF IndInv, PluginsWhole, TypeOK
<1>6. SyncedWasServed'
  <2> SUFFICES ASSUME pc = "sync", NEW g \in Files
               PROVE  \/ \E e \in manifest : e.path = g
                      \/ served'[g] \cap Versions = {}
                      \/ libdir[g] \in served'[g]
                      \/ errors /\ (g \in Nested \/ none \in served'[g] \/ faults > 0)
                      \/ libdir[g] = torn /\ faults > 0
    BY <1>2 DEF SyncedWasServed
  <2>1. \/ \E e \in manifest : e.path = g
        \/ served[g] \cap Versions = {}
        \/ libdir[g] \in served[g]
        \/ errors /\ (g \in Nested \/ none \in served[g] \/ faults > 0)
        \/ libdir[g] = torn /\ faults > 0
    BY DEF IndInv, PluginsWhole, SyncedWasServed
  <2>2. ASSUME served[g] \cap Versions = {}
        PROVE  served'[g] \cap Versions = {}
    <3>1. published[g] \in served[g] /\ published[g] \in Versions \cup {none}
      BY DEF IndInv, SyncInv, PluginsWhole, TypeOK
    <3>2. g # f
      BY <1>2, <2>2, <3>1
    <3> QED
      BY <1>4, <2>2, <3>2
  <2> QED
    BY <1>4, <2>1, <2>2
<1>7. SyncInv'
  BY <1>2, <1>3, <1>4 DEF IndInv, SyncInv
<1>8. OfflineLeavesPlugins' /\ KeptAsInstalled' /\ FactsInv' /\ CatalogFromInstalledFacts'
  <2>1. Installed' = Installed
    BY <1>2 DEF Installed
  <2>2. Copied' = Copied
    BY <1>2, <2>1 DEF Copied
  <2>3. CatalogFromInstalledFacts = (pc = "apply" => catalog = Copied)
    BY DEF CatalogFromInstalledFacts, Copied
  <2>4. CatalogFromInstalledFacts' = (pc' = "apply" => catalog' = Copied')
    BY DEF CatalogFromInstalledFacts, Copied
  <2> QED
    BY <1>2, <2>1, <2>2, <2>3, <2>4
       DEF IndInv, PluginsWhole, OfflineLeavesPlugins, KeptAsInstalled, FactsInv
<1> QED
  BY <1>2, <1>4, <1>5, <1>6, <1>7, <1>8 DEF IndInv, PluginsWhole
-----------------------------------------------------------------------------
LEMMA InitIndInv == Init => IndInv
<1> SUFFICES ASSUME Init PROVE IndInv
  OBVIOUS
<1>1. /\ 1 \in Versions /\ libdir = Installed /\ served = [f \in Files |-> {}]
      /\ pc = "idle" /\ published \in [Files -> {1}] /\ faults = 0 /\ failures = 0 /\ exit = none
  BY VersionsAssumption DEF Init, Versions
<1>2. published \in [Files -> Versions \cup {none}]
  BY <1>1
<1>3. libdir \in [Files -> Versions \cup {none, torn}]
  BY <1>1 DEF Installed
<1>4. served \in [Files -> SUBSET (Versions \cup {none})] /\ \A f \in Files : served[f] = {}
  BY <1>1
<1>5. TypeOK
  BY <1>1, <1>2, <1>3, <1>4, VersionsAssumption DEF TypeOK
<1>6. /\ SyncedWasServed /\ OfflineLeavesPlugins /\ KeptAsInstalled /\ CatalogFromInstalledFacts
      /\ SyncInv /\ FactsInv
  BY <1>1 DEF Init, SyncedWasServed, OfflineLeavesPlugins, KeptAsInstalled,
              CatalogFromInstalledFacts, SyncInv, FactsInv
<1> QED
  BY <1>4, <1>5, <1>6 DEF Init, IndInv, PluginsWhole

LEMMA StepIndInv == IndInv /\ [Next]_vars => IndInv'
<1> SUFFICES ASSUME IndInv, [Next]_vars PROVE IndInv'
  OBVIOUS
<1>1. CASE FetchMetadata
  BY <1>1, FetchMetadataStep
<1>2. CASE SyncFile
  BY <1>2, SyncFileStep
<1>3. CASE \/ Start \/ EndSync \/ CollectFacts \/ EnsureCertificate \/ ShowFacts
           \/ check_server_status \/ RequestCatalog \/ ApplyCatalog \/ ShowCatalog
  BY <1>3, OtherSteps
<1>4. CASE Kill
  BY <1>4, KillStep
<1>5. CASE Publish
  BY <1>5, PublishStep
<1>6. CASE UNCHANGED vars
  BY <1>6 DEF vars, IndInv, PluginsWhole, TypeOK, SyncedWasServed, OfflineLeavesPlugins,
              KeptAsInstalled, CatalogFromInstalledFacts, SyncInv, FactsInv, Copied, Installed
<1> QED
  BY <1>1, <1>2, <1>3, <1>4, <1>5, <1>6 DEF Next, AgentStep

\* Whatever pluginsync_run has gone through of its metadata is on the disk as the
\* server had it while it ran (or was cut short by a fault), or was counted as an
\* error, for a file the server did not find or a fault; with --catalog-file run_agent touches no plugin; what was copied by hand
\* stays, though the server answers requests for it with an error; and a catalog is
\* requested with all the facts among it.  For any set of plugins, any number of
\* new versions and of faults.
THEOREM PluginsAreWhole == Spec => []PluginsWhole
<1>1. IndInv => PluginsWhole
  BY DEF IndInv
<1> QED
  BY <1>1, InitIndInv, StepIndInv, PTL DEF Spec
=============================================================================
