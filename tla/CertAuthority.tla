--------------------------- MODULE CertAuthority ---------------------------
(***************************************************************************)
(* The certificate authority of puppetc-server (server/puppet_ca.c), the   *)
(* endpoint agents send their requests to (server/puppetc_server.c), the   *)
(* tool that signs pending requests (server/puppetc_ca_cli.c) and the part *)
(* of an agent's run that obtains a certificate (agent/puppetc_agent.c).   *)
(*                                                                         *)
(* The processes share files and nothing else.  Every file is saved in two *)
(* steps, fopen (or open with O_TRUNC) and the write, between which any    *)
(* process may run or the saving one may die.  A stage is the file a       *)
(* process is about to save, or the point it has reached between saves.    *)
(* The serial number is kept in the memory of each process that has opened *)
(* the authority.                                                          *)
(***************************************************************************)
EXTENDS Naturals, Sequences

CONSTANTS
    Agents,       \* certnames, each with its machine
    Autosigned,   \* certnames puppet_autosign_should_sign accepts
    Server, Cli,  \* puppetc-server, and puppetc-ca, run by the operator
    Missing,      \* contents of a file that does not exist
    Torn,         \* contents of a file that was opened and not written
    None,         \* no request, no certificate
    Concurrent,   \* the operator runs puppetc-ca sign while the server runs
    LoseSerial,   \* a save of the serial file may fail or be cut short
    MaxFaults,    \* bound: crashes, stops, timeouts and failed saves
    MaxCommands   \* bound: puppetc-ca commands

Authorities == {Server, Cli}
Processes   == Agents \cup Authorities

ASSUME ProcessAssumption ==
    /\ Server # Cli /\ Agents \cap Authorities = {}
    /\ Autosigned \subseteq Agents
    /\ Concurrent \in BOOLEAN /\ LoseSerial \in BOOLEAN
    /\ MaxFaults \in Nat /\ MaxCommands \in Nat

\* Files of the authority, files of a certname there, files of an agent.
CAKinds    == {"ca_cert", "ca_key", "serial", "tls_cert", "tls_key"}
NameKinds  == {"requests", "signed"}
AgentKinds == {"key", "cert"}
Files == (CAKinds \X {Server}) \cup ((NameKinds \cup AgentKinds) \X Agents)

\* A key pair is known by the number of its generation.  The certificate of the
\* server has no agent.
Requests     == [agent : Agents, key : Nat]
Certificates == [agent : Agents \cup {None}, key : Nat, serial : Nat]
Contents == {Missing, Torn} \cup Requests \cup Certificates \cup [serial : Nat] \cup [key : Nat]

ASSUME ContentsAssumption ==
    /\ Missing # Torn
    /\ {Missing, Torn, None} \cap (Requests \cup Certificates \cup [serial : Nat] \cup [key : Nat]) = {}
    /\ None \notin Processes

VARIABLES
    disk,           \* contents of every file
    stage, opened,  \* what a process does; it has opened the file of its stage
    ca_ctx,         \* the server has a certificate authority
    serial_number,  \* ctx->serial_number of the server and of puppetc-ca
    csr, cert,      \* the request and the certificate a process works with
    asker,          \* the agent waiting for the server's answer
    inbox,          \* requests sent to the server; live: the agent still waits
    batch,          \* certnames puppetc-ca still has to sign
    keys,           \* key pairs generated
    issued,         \* certificates signed, in order
    faults, commands

localVars == <<stage, opened, csr, cert>>
netVars   == <<asker, inbox>>
countVars == <<faults, commands>>
vars == <<disk, localVars, ca_ctx, serial_number, netVars, batch, keys, issued, countVars>>

Init ==
    /\ disk = [f \in Files |-> Missing]
    /\ stage = [p \in Processes |-> "off"]
    /\ opened = [p \in Processes |-> FALSE]
    /\ ca_ctx = FALSE
    /\ serial_number = [p \in Authorities |-> 1]
    /\ csr = [p \in Processes |-> None]
    /\ cert = [p \in Processes |-> None]
    /\ asker = None
    /\ inbox = {}
    /\ batch = {}
    /\ keys = 0
    /\ issued = <<>>
    /\ faults = 0
    /\ commands = 0
-----------------------------------------------------------------------------
(* Saving a file.                                                          *)

\* The file each saving stage writes.  puppet_ca_generate saves the authority,
\* and main saves it once more.
SaveKind ==
    [ca_cert |-> "ca_cert", ca_key |-> "ca_key", ca_serial |-> "serial",
     ca_cert_again |-> "ca_cert", ca_key_again |-> "ca_key",
     tls_serial |-> "serial", tls_cert |-> "tls_cert", tls_key |-> "tls_key",
     serial |-> "serial", signed |-> "signed", request |-> "requests",
     key |-> "key", cert |-> "cert"]
Saves == DOMAIN SaveKind

Owner(p) ==
    LET kind == SaveKind[stage[p]]
    IN  IF kind \in CAKinds THEN Server ELSE IF kind \in NameKinds THEN csr[p].agent ELSE p
Target(p) == <<SaveKind[stage[p]], Owner(p)>>

\* The key pair of the authority never changes once it can be used, and that of
\* the server's own certificate is not told apart.
Value(p) ==
    CASE SaveKind[stage[p]] = "serial"                        -> [serial |-> serial_number[p]]
      [] SaveKind[stage[p]] \in {"tls_cert", "signed", "cert"} -> cert[p]
      [] SaveKind[stage[p]] \in {"requests", "key"}            -> csr[p]
      [] OTHER                                                 -> [key |-> 0]

\* Where a process goes on after a save, and after an fopen that failed: the
\* results of saving the serial number and the signed certificate are ignored.
Follows ==
    [ca_cert |-> "ca_key", ca_key |-> "ca_serial", ca_serial |-> "ca_cert_again",
     ca_cert_again |-> "ca_key_again", ca_key_again |-> "tls",
     tls_serial |-> "tls_cert", tls_cert |-> "tls_key", tls_key |-> "start",
     serial |-> "signed", signed |-> "finish", request |-> "finish",
     key |-> "submit", cert |-> "off"]
Otherwise ==
    [s \in Saves |->
        CASE s \in {"ca_serial", "tls_serial", "serial", "signed"} -> Follows[s]
          [] s = "request"                                         -> "finish"
          [] s \in {"key", "cert"}                                 -> "off"
          [] OTHER                                                 -> "start"]

\* Signing comes after the serial number has been taken and saved.
NewCertificate(p) ==
    [agent |-> IF stage[p] = "serial" THEN csr[p].agent ELSE None,
     key |-> IF stage[p] = "serial" THEN csr[p].key ELSE 0,
     serial |-> serial_number[p] - 1]
GoOn(p, next) ==
    /\ stage' = [stage EXCEPT ![p] = next]
    /\ opened' = [opened EXCEPT ![p] = FALSE]
    /\ IF stage[p] \in {"serial", "tls_serial"}
       THEN /\ cert' = [cert EXCEPT ![p] = NewCertificate(p)]
            /\ issued' = Append(issued, NewCertificate(p))
       ELSE UNCHANGED <<cert, issued>>

OpenFile(p) ==
    /\ stage[p] \in Saves
    /\ ~opened[p]
    /\ disk' = [disk EXCEPT ![Target(p)] = Torn]
    /\ opened' = [opened EXCEPT ![p] = TRUE]
    /\ UNCHANGED <<stage, csr, cert, ca_ctx, serial_number, netVars, batch, keys, issued, countVars>>

\* Without a saved authority the server goes on without one.
CannotOpen(p) ==
    /\ stage[p] \in Saves
    /\ ~opened[p]
    /\ faults < MaxFaults
    /\ SaveKind[stage[p]] = "serial" => LoseSerial
    /\ faults' = faults + 1
    /\ GoOn(p, Otherwise[stage[p]])
    /\ ca_ctx' = (ca_ctx /\ SaveKind[stage[p]] \notin {"ca_cert", "ca_key"})
    /\ UNCHANGED <<disk, csr, serial_number, netVars, batch, keys, commands>>

WriteFile(p) ==
    /\ stage[p] \in Saves
    /\ opened[p]
    /\ disk' = [disk EXCEPT ![Target(p)] = Value(p)]
    /\ GoOn(p, Follows[stage[p]])
    /\ UNCHANGED <<csr, ca_ctx, serial_number, netVars, batch, keys, countVars>>
-----------------------------------------------------------------------------
(* The server.                                                             *)

CAExists == \A k \in {"ca_cert", "ca_key"} : disk[<<k, Server>>] # Missing
CALoads  == \A k \in {"ca_cert", "ca_key"} : disk[<<k, Server>>] \notin {Missing, Torn}

\* A serial file that is missing or holds no number counts as 1.
puppet_ca_load_serial ==
    LET f == disk[<<"serial", Server>>]
    IN  IF f \in {Missing, Torn} THEN 1 ELSE f.serial

MayRun(p) == Concurrent \/ \A q \in Authorities \ {p} : stage[q] = "off"

\* Mutant: puppet_ca_init does not look for a serial file.
StartServer_ForgetsSerial ==
    /\ stage[Server] = "off"
    /\ MayRun(Server)
    /\ serial_number' = [serial_number EXCEPT ![Server] = 2]
    /\ ca_ctx' = (CAExists => CALoads)
    /\ stage' = [stage EXCEPT ![Server] = IF ~CAExists THEN "ca_cert"
                                          ELSE IF CALoads THEN "tls" ELSE "start"]
    /\ UNCHANGED <<disk, opened, csr, cert, netVars, batch, keys, issued, countVars>>

\* main: load the authority, or generate it, for which serial 1 is used.
StartServer ==
    /\ stage[Server] = "off"
    /\ MayRun(Server)
    /\ serial_number' = [serial_number EXCEPT
                            ![Server] = IF CAExists THEN puppet_ca_load_serial ELSE 2]
    /\ ca_ctx' = (CAExists => CALoads)
    /\ stage' = [stage EXCEPT ![Server] = IF ~CAExists THEN "ca_cert"
                                          ELSE IF CALoads THEN "tls" ELSE "start"]
    /\ UNCHANGED <<disk, opened, csr, cert, netVars, batch, keys, issued, countVars>>

\* puppet_ca_get_next_serial hands out the number in memory and saves the next.
puppet_ca_get_next_serial(p) == serial_number' = [serial_number EXCEPT ![p] = @ + 1]

\* puppet_ca_server_cert_exists: an empty file is there.
ServerCertExists == \A k \in {"tls_cert", "tls_key"} : disk[<<k, Server>>] # Missing

\* The server's own certificate, unless both of its files are there.
CheckServerCertificate ==
    /\ stage[Server] = "tls"
    /\ IF ServerCertExists
       THEN stage' = [stage EXCEPT ![Server] = "start"] /\ UNCHANGED serial_number
       ELSE /\ stage' = [stage EXCEPT ![Server] = "tls_serial"]
            /\ puppet_ca_get_next_serial(Server)
    /\ UNCHANGED <<disk, opened, csr, cert, ca_ctx, netVars, batch, keys, issued, countVars>>

\* load_server_tls_credentials: a file that is missing leaves the server to listen
\* with plain HTTP; one that is empty reads as an empty string.
UsesTLS == ca_ctx /\ ServerCertExists
TLSLoads == \A k \in {"tls_cert", "tls_key"} : disk[<<k, Server>>] # Torn

\* MHD_start_daemon refuses an empty certificate or key, and main returns 1.
StartDaemon ==
    /\ stage[Server] = "start"
    /\ stage' = [stage EXCEPT ![Server] = IF UsesTLS => TLSLoads THEN "idle" ELSE "off"]
    /\ UNCHANGED <<disk, opened, csr, cert, ca_ctx, serial_number, netVars, batch, keys, issued,
                   countVars>>

\* Whatever the mode (none, naive, whitelist or a policy program), the answer
\* depends on the certname.
puppet_autosign_should_sign(a) == a \in Autosigned

\* The one polling thread takes up a request: without an authority the answer
\* is an error; otherwise the certname decides between signing and saving.
handle_certificate_request(a) ==
    /\ stage[Server] = "idle"
    /\ \E r \in inbox :
          /\ r.agent = a
          /\ inbox' = inbox \ {r}
          /\ asker' = IF r.live THEN a ELSE None
          /\ csr' = [csr EXCEPT ![Server] = [agent |-> r.agent, key |-> r.key]]
    /\ cert' = [cert EXCEPT ![Server] = None]
    /\ IF ~ca_ctx
       THEN stage' = [stage EXCEPT ![Server] = "finish"] /\ UNCHANGED serial_number
       ELSE IF puppet_autosign_should_sign(a)
       THEN stage' = [stage EXCEPT ![Server] = "serial"] /\ puppet_ca_get_next_serial(Server)
       ELSE stage' = [stage EXCEPT ![Server] = "request"] /\ UNCHANGED serial_number
    /\ UNCHANGED <<disk, opened, ca_ctx, batch, keys, issued, countVars>>

\* The answer carries the certificate, or a status the agent takes for failure
\* (202 for a saved request).  An agent that gave up does not see it.
Answer ==
    /\ stage[Server] = "finish"
    /\ asker' = None
    /\ IF asker = None
       THEN stage' = [stage EXCEPT ![Server] = "idle"] /\ UNCHANGED cert
       ELSE /\ stage' = [stage EXCEPT ![Server] = "idle",
                                      ![asker] = IF cert[Server] = None THEN "off" ELSE "cert"]
            /\ cert' = [cert EXCEPT ![asker] = cert[Server]]
    /\ UNCHANGED <<disk, opened, csr, ca_ctx, serial_number, inbox, batch, keys, issued, countVars>>
-----------------------------------------------------------------------------
(* puppetc-ca.                                                             *)

Pending == {a \in Agents : disk[<<"requests", a>>] # Missing}

Command ==
    /\ stage[Cli] = "off"
    /\ MayRun(Cli)
    /\ CALoads
    /\ commands < MaxCommands
    /\ commands' = commands + 1

\* cmd_sign, of one certname or of all pending ones.
cmd_sign ==
    /\ Command
    /\ batch' \in {{a} : a \in Pending} \cup {Pending}
    /\ batch' # {}
    /\ stage' = [stage EXCEPT ![Cli] = "next"]
    /\ serial_number' = [serial_number EXCEPT ![Cli] = puppet_ca_load_serial]
    /\ UNCHANGED <<disk, opened, csr, cert, ca_ctx, netVars, keys, issued, faults>>

\* Load the next request and sign it; one that cannot be loaded or parsed is an
\* error of its own.
SignNext ==
    /\ stage[Cli] = "next"
    /\ \/ /\ batch = {}
          /\ stage' = [stage EXCEPT ![Cli] = "off"]
          /\ UNCHANGED <<csr, batch, serial_number>>
       \/ \E a \in batch :
             /\ batch' = batch \ {a}
             /\ IF disk[<<"requests", a>>] \in {Missing, Torn}
                THEN UNCHANGED <<stage, csr, serial_number>>
                ELSE /\ csr' = [csr EXCEPT ![Cli] = disk[<<"requests", a>>]]
                     /\ stage' = [stage EXCEPT ![Cli] = "serial"]
                     /\ puppet_ca_get_next_serial(Cli)
    /\ UNCHANGED <<disk, opened, cert, ca_ctx, netVars, keys, issued, countVars>>

\* A signed request is no longer pending.
DeleteSigned ==
    /\ stage[Cli] = "finish"
    /\ disk' = [disk EXCEPT ![<<"requests", csr[Cli].agent>>] = Missing]
    /\ stage' = [stage EXCEPT ![Cli] = "next"]
    /\ UNCHANGED <<opened, csr, cert, ca_ctx, serial_number, netVars, batch, keys, issued, countVars>>

\* cmd_revoke and cmd_clean delete a file.
Delete(kind) ==
    /\ Command
    /\ \E a \in Agents :
          /\ disk[<<kind, a>>] # Missing
          /\ disk' = [disk EXCEPT ![<<kind, a>>] = Missing]
    /\ UNCHANGED <<localVars, ca_ctx, serial_number, netVars, batch, keys, issued, faults>>
cmd_revoke == Delete("signed")
cmd_clean  == Delete("requests")
-----------------------------------------------------------------------------
(* The agent: ensure_certificate.                                          *)

\* A file that is there counts as a certificate.  A key is generated when there
\* is no key file; one that cannot be read ends the run.
ensure_certificate(a) ==
    LET key == disk[<<"key", a>>]
    IN  /\ stage[a] = "off"
        /\ disk[<<"cert", a>>] = Missing
        /\ key # Torn
        /\ IF key = Missing
           THEN /\ keys' = keys + 1
                /\ csr' = [csr EXCEPT ![a] = [key |-> keys + 1]]
                /\ stage' = [stage EXCEPT ![a] = "key"]
           ELSE /\ csr' = [csr EXCEPT ![a] = key]
                /\ stage' = [stage EXCEPT ![a] = "submit"]
                /\ UNCHANGED keys
        /\ UNCHANGED <<disk, opened, cert, ca_ctx, serial_number, netVars, batch, issued, countVars>>

Listening == stage[Server] \in {"idle", "serial", "signed", "request", "finish"}

\* The URL of an agent is https://; a run given an http:// one counts as a fault.
\* A request over the protocol the server does not speak fails.
submit_certificate_request(a) ==
    /\ stage[a] = "submit"
    /\ \E https \in BOOLEAN :
          /\ https \/ faults < MaxFaults
          /\ faults' = IF https THEN faults ELSE faults + 1
          /\ IF Listening /\ https = UsesTLS
             THEN /\ inbox' = inbox \cup {[agent |-> a, key |-> csr[a].key, live |-> TRUE]}
                  /\ stage' = [stage EXCEPT ![a] = "wait"]
             ELSE stage' = [stage EXCEPT ![a] = "off"] /\ UNCHANGED inbox
    /\ UNCHANGED <<disk, opened, csr, cert, ca_ctx, serial_number, asker, batch, keys, issued,
                   commands>>

\* CURLOPT_TIMEOUT: the agent gives up while its request may still be served.
Timeout(a) ==
    /\ stage[a] = "wait"
    /\ faults < MaxFaults
    /\ faults' = faults + 1
    /\ stage' = [stage EXCEPT ![a] = "off"]
    /\ inbox' = {[r EXCEPT !.live = @ /\ r.agent # a] : r \in inbox}
    /\ asker' = IF asker = a THEN None ELSE asker
    /\ UNCHANGED <<disk, opened, csr, cert, ca_ctx, serial_number, batch, keys, issued, commands>>

\* Mutant: without CURLOPT_TIMEOUT nobody notices a silent server.
Disconnected_Never(a) ==
    /\ FALSE
    /\ UNCHANGED vars

\* The connection was lost with the server.
Disconnected(a) ==
    /\ stage[a] = "wait"
    /\ asker # a
    /\ ~\E r \in inbox : r.agent = a /\ r.live
    /\ stage' = [stage EXCEPT ![a] = "off"]
    /\ UNCHANGED <<disk, opened, csr, cert, ca_ctx, serial_number, netVars, batch, keys, issued,
                   countVars>>
-----------------------------------------------------------------------------
(* Processes end: killed anywhere, or stopped.                             *)

\* What must not happen for serial numbers to survive: the authority can be
\* used and the serial file cannot be read.
SerialAtRisk == CALoads /\ disk[<<"serial", Server>>] \in {Missing, Torn}

Crash(p) ==
    /\ stage[p] # "off"
    /\ faults < MaxFaults
    /\ p \in Authorities /\ SerialAtRisk => LoseSerial
    /\ faults' = faults + 1
    /\ stage' = [stage EXCEPT ![p] = "off"]
    /\ opened' = [opened EXCEPT ![p] = FALSE]
    /\ csr' = [csr EXCEPT ![p] = None]
    /\ cert' = [cert EXCEPT ![p] = None]
    /\ batch' = IF p = Cli THEN {} ELSE batch
    /\ inbox' = IF p = Server THEN {} ELSE {[r EXCEPT !.live = @ /\ r.agent # p] : r \in inbox}
    /\ asker' = IF p \in {Server, asker} THEN None ELSE asker
    /\ UNCHANGED <<disk, ca_ctx, serial_number, keys, issued, commands>>
-----------------------------------------------------------------------------
ServerStep ==
    \/ StartServer \/ CheckServerCertificate \/ StartDaemon \/ Answer
    \/ OpenFile(Server) \/ WriteFile(Server)
CliStep == SignNext \/ DeleteSigned \/ OpenFile(Cli) \/ WriteFile(Cli)
AgentStep(a) ==
    \/ ensure_certificate(a) \/ submit_certificate_request(a) \/ Disconnected(a)
    \/ OpenFile(a) \/ WriteFile(a)

Next ==
    \/ ServerStep \/ \E a \in Agents : handle_certificate_request(a)
    \/ cmd_sign \/ cmd_revoke \/ cmd_clean \/ CliStep
    \/ \E a \in Agents : AgentStep(a) \/ Timeout(a)
    \/ \E p \in Processes : CannotOpen(p) \/ Crash(p)

\* The server is started again and runs, an agent is run again and again, and a
\* command, once given, goes on.  libmicrohttpd polls every connection in turn,
\* so none is passed over for ever.
Fairness ==
    /\ WF_vars(ServerStep)
    /\ WF_vars(CliStep)
    /\ \A a \in Agents : WF_vars(AgentStep(a)) /\ SF_vars(handle_certificate_request(a))

Spec == Init /\ [][Next]_vars /\ Fairness
-----------------------------------------------------------------------------
(* Properties.                                                             *)

Stages == Saves \cup {"off", "tls", "start", "idle", "finish", "next", "submit", "wait"}

\* Types of the variables.  A process that saves has what it saves, and the
\* server signs and saves requests only with an authority.
TypeOK ==
    /\ disk \in [Files -> Contents]
    /\ stage \in [Processes -> Stages]
    /\ opened \in [Processes -> BOOLEAN]
    /\ ca_ctx \in BOOLEAN
    /\ serial_number \in [Authorities -> Nat \ {0}]
    /\ csr \in [Processes -> Requests \cup [key : Nat] \cup {None}]
    /\ cert \in [Processes -> Certificates \cup {None}]
    /\ asker \in Agents \cup {None}
    /\ inbox \subseteq [agent : Agents, key : Nat, live : BOOLEAN]
    /\ batch \subseteq Agents
    /\ keys \in Nat
    /\ issued \in Seq(Certificates)
    /\ faults \in 0..MaxFaults /\ commands \in 0..MaxCommands
    /\ \A p \in Authorities : stage[p] \in {"serial", "signed", "request"} => csr[p] \in Requests
    /\ \A p \in Processes : stage[p] \in {"tls_cert", "signed", "cert"} => cert[p] \in Certificates
    /\ stage[Server] \in {"tls", "serial", "signed", "request"} => ca_ctx

\* No two certificates of the authority have the same serial number, and none
\* has serial 1, which is the authority's own: through restarts, crashes and
\* commands of puppetc-ca while the server is down.
UniqueSerials ==
    \A i \in DOMAIN issued :
        /\ issued[i].serial > 1
        /\ \A j \in DOMAIN issued : issued[i].serial = issued[j].serial => i = j

\* Whenever the serial file can be read, the number in it is larger than that of
\* every certificate signed: a process that starts now repeats none of them.
PersistedAhead ==
    disk[<<"serial", Server>>] \notin {Missing, Torn} =>
        \A i \in DOMAIN issued : issued[i].serial < puppet_ca_load_serial

\* The certificate an agent keeps is for its certname and for the key it keeps:
\* no timeout, retry or crash pairs a key with the certificate of another.
KeyMatches ==
    \A a \in Agents :
        disk[<<"cert", a>>] \notin {Missing, Torn} =>
            /\ disk[<<"cert", a>>].agent = a
            /\ disk[<<"key", a>>] = [key |-> disk[<<"cert", a>>].key]

HasCertificate(a) == disk[<<"cert", a>>] \notin {Missing, Torn}

\* Files a crash left half written are only put right by hand: those of the agent
\* and of the authority, and those of the server's certificate, with which the
\* server ends at every start.  A server that could not save one of its files
\* listens without TLS until it is started again.
NeedsRepair(a) ==
    \/ Torn \in {disk[<<"key", a>>], disk[<<"cert", a>>]}
    \/ CAExists /\ ~CALoads
    \/ ServerCertExists /\ ~TLSLoads
    \/ Listening /\ ~UsesTLS

\* An agent the policy accepts gets its certificate after finitely many lost
\* answers and crashes, unless one of them left something to repair.
EventuallyCertified ==
    \A a \in Autosigned : <>[](HasCertificate(a) \/ NeedsRepair(a))

\* The safety of the authority: serial numbers are unique and on disk before they
\* are used (puppet_ca_sign_csr, puppet_ca_get_next_serial), and an agent keeps a
\* certificate of its own key only.
CertificatesSafe == TypeOK /\ UniqueSerials /\ PersistedAhead /\ KeyMatches
=============================================================================
