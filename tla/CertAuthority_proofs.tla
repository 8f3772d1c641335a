------------------------- MODULE CertAuthority_proofs -------------------------
(***************************************************************************)
(* Proofs about CertAuthority, for any number of agents, commands and      *)
(* faults.  An agent's certificate is for the key it keeps whatever the    *)
(* processes do.  The serial numbers need more: that puppetc-ca runs only  *)
(* while the server is down, and that no save of the serial file is lost.  *)
(***************************************************************************)
EXTENDS CertAuthority, TLAPS, SequenceTheorems

\* Stages of each kind of process.
Generating == {"ca_cert", "ca_key", "ca_serial", "ca_cert_again", "ca_key_again"}
Certifying == {"tls", "tls_serial", "tls_cert", "tls_key"}
Serving    == {"serial", "signed", "request", "finish"}

\* Every process is where its program can be, and has what it needs there.
StageInv ==
    /\ stage[Server] \in {"off", "start", "idle"} \cup Generating \cup Certifying \cup Serving
    /\ stage[Cli] \in {"off", "next", "serial", "signed", "finish"}
    /\ \A a \in Agents : stage[a] \in {"off", "key", "submit", "wait", "cert"}
    /\ \A a \in Agents : stage[a] # "off" => csr[a] \in [key : Nat]
    /\ stage[Server] \in Serving => csr[Server] \in Requests
    /\ stage[Cli] \in Serving => csr[Cli] \in Requests
    /\ stage[Server] \in Generating \cup Certifying => ca_ctx

\* What the files that are read back may hold.
FilesTyped ==
    /\ \A a \in Agents : /\ disk[<<"key", a>>] \in [key : Nat] \cup {Missing, Torn}
                         /\ disk[<<"cert", a>>] \in Certificates \cup {Missing, Torn}
                         /\ disk[<<"requests", a>>] \in Requests \cup {Missing, Torn}
    /\ disk[<<"serial", Server>>] \in [serial : Nat \ {0}] \cup {Missing, Torn}

\* An agent keeps the key of the request it waits for until it has saved the
\* certificate, and the answer it gets is to that request.
Held(a) ==
    /\ disk[<<"cert", a>>] \notin {Missing, Torn} =>
          /\ disk[<<"cert", a>>].agent = a
          /\ disk[<<"key", a>>] = [key |-> disk[<<"cert", a>>].key]
    /\ stage[a] \in {"submit", "wait", "cert"} => disk[<<"key", a>>] = csr[a]
    /\ stage[a] \in {"key", "submit", "wait"} => disk[<<"cert", a>>] = Missing
    /\ stage[a] = "cert" => /\ disk[<<"cert", a>>] \in {Missing, Torn}
                            /\ cert[a].agent = a /\ cert[a].key = csr[a].key

LiveInv == \A r \in inbox : r.live => stage[r.agent] = "wait" /\ csr[r.agent].key = r.key

AskerInv ==
    asker # None =>
        /\ stage[asker] = "wait" /\ stage[Server] \in Serving
        /\ csr[Server] = [agent |-> asker, key |-> csr[asker].key]
        /\ \A r \in inbox : r.live => r.agent # asker

AnswerInv ==
    /\ stage[Server] \in {"serial", "request"} => cert[Server] = None
    /\ stage[Server] \in Serving /\ cert[Server] # None =>
          /\ cert[Server].agent = csr[Server].agent
          /\ cert[Server].key = csr[Server].key

KeyInv == (\A a \in Agents : Held(a)) /\ LiveInv /\ AskerInv /\ AnswerInv

\* The authority in use, the number it goes on with and the number on disk.
SerialFile == disk[<<"serial", Server>>]
Readable(f) == f \notin {Missing, Torn}
Below(n) == \A i \in DOMAIN issued : issued[i].serial < n
InUse(p) == stage[p] # "off" /\ (p = Server => ca_ctx)

SerialInv ==
    /\ stage[Server] = "off" \/ stage[Cli] = "off"
    /\ Readable(SerialFile) => SerialFile.serial > 1
    /\ CALoads /\ ~Readable(SerialFile) =>
          \/ stage[Server] \in {"ca_serial", "serial", "tls_serial"}
          \/ stage[Cli] = "serial"
    /\ issued # <<>> => CALoads /\ stage[Server] \notin Generating
    /\ stage[Server] \in {"ca_key", "ca_serial", "ca_key_again"} =>
          Readable(disk[<<"ca_cert", Server>>])
    /\ stage[Server] \in {"ca_serial", "ca_cert_again"} => Readable(disk[<<"ca_key", Server>>])
    /\ stage[Server] = "ca_cert" => disk[<<"ca_key", Server>>] = Missing
    /\ stage[Server] \in {"ca_cert_again", "ca_key_again"} => Readable(SerialFile)
    /\ disk[<<"ca_cert", Server>>] = Missing => disk[<<"ca_key", Server>>] = Missing
    /\ InUse(Server) /\ stage[Server] \notin Generating => CALoads
    /\ InUse(Cli) => CALoads
    /\ \A p \in Authorities : InUse(p) =>
          /\ serial_number[p] > 1 /\ Below(serial_number[p])
          /\ stage[p] \in {"serial", "tls_serial"} =>
                serial_number[p] > 2 /\ Below(serial_number[p] - 1)

KeepInv == TypeOK /\ StageInv /\ FilesTyped /\ KeyInv
SafeInv == UniqueSerials /\ PersistedAhead /\ SerialInv
-----------------------------------------------------------------------------
(* Saving a file.                                                          *)

\* The tables of the saving stages, entry by entry.
LEMMA SaveTable ==
    /\ Saves = Generating \cup {"tls_serial", "tls_cert", "tls_key", "serial", "signed", "request",
                               "key", "cert"}
    /\ SaveKind["ca_cert"] = "ca_cert" /\ SaveKind["ca_key"] = "ca_key"
    /\ SaveKind["ca_serial"] = "serial" /\ SaveKind["ca_cert_again"] = "ca_cert"
    /\ SaveKind["ca_key_again"] = "ca_key" /\ SaveKind["tls_serial"] = "serial"
    /\ SaveKind["tls_cert"] = "tls_cert" /\ SaveKind["tls_key"] = "tls_key"
    /\ SaveKind["serial"] = "serial" /\ SaveKind["signed"] = "signed"
    /\ SaveKind["request"] = "requests" /\ SaveKind["key"] = "key" /\ SaveKind["cert"] = "cert"
  BY DEF Saves, SaveKind, Generating

LEMMA FollowsTable ==
    /\ Follows["ca_cert"] = "ca_key" /\ Follows["ca_key"] = "ca_serial"
    /\ Follows["ca_serial"] = "ca_cert_again" /\ Follows["ca_cert_again"] = "ca_key_again"
    /\ Follows["ca_key_again"] = "tls" /\ Follows["tls_serial"] = "tls_cert"
    /\ Follows["tls_cert"] = "tls_key" /\ Follows["tls_key"] = "start"
    /\ Follows["serial"] = "signed" /\ Follows["signed"] = "finish"
    /\ Follows["request"] = "finish" /\ Follows["key"] = "submit" /\ Follows["cert"] = "off"
  BY DEF Follows

LEMMA OtherwiseTable ==
    /\ Otherwise["ca_cert"] = "start" /\ Otherwise["ca_key"] = "start"
    /\ Otherwise["ca_serial"] = "ca_cert_again" /\ Otherwise["ca_cert_again"] = "start"
    /\ Otherwise["ca_key_again"] = "start" /\ Otherwise["tls_serial"] = "tls_cert"
    /\ Otherwise["tls_cert"] = "start" /\ Otherwise["tls_key"] = "start"
    /\ Otherwise["serial"] = "signed" /\ Otherwise["signed"] = "finish"
    /\ Otherwise["request"] = "finish" /\ Otherwise["key"] = "off" /\ Otherwise["cert"] = "off"
  BY SaveTable, FollowsTable DEF Otherwise, Generating

\* The file a process saves, and what it writes into it.
Saving(p, file, value) == Target(p) = file /\ Value(p) = value

LEMMA WhatIsSaved ==
    ASSUME TypeOK, StageInv, NEW p \in Processes, stage[p] \in Saves
    PROVE  /\ \/ stage[p] \in {"ca_cert", "ca_cert_again"}
                  /\ Saving(p, <<"ca_cert", Server>>, [key |-> 0])
              \/ stage[p] \in {"ca_key", "ca_key_again"}
                  /\ Saving(p, <<"ca_key", Server>>, [key |-> 0])
              \/ stage[p] \in {"ca_serial", "tls_serial", "serial"}
                  /\ Saving(p, <<"serial", Server>>, [serial |-> serial_number[p]])
              \/ stage[p] = "tls_cert" /\ Saving(p, <<"tls_cert", Server>>, cert[p])
              \/ stage[p] = "tls_key"  /\ Saving(p, <<"tls_key", Server>>, [key |-> 0])
              \/ stage[p] = "signed"   /\ Saving(p, <<"signed", csr[p].agent>>, cert[p])
              \/ stage[p] = "request"  /\ Saving(p, <<"requests", csr[p].agent>>, csr[p])
              \/ stage[p] = "key"      /\ Saving(p, <<"key", p>>, csr[p])
              \/ stage[p] = "cert"     /\ Saving(p, <<"cert", p>>, cert[p])
           /\ stage[p] \in Generating \cup Certifying \cup {"request"} => p = Server
           /\ stage[p] \in Serving => p \in Authorities /\ csr[p] \in Requests
           /\ stage[p] \in {"key", "cert"} => p \in Agents /\ csr[p] \in [key : Nat]
           /\ stage[p] \in {"cert", "signed", "tls_cert"} => cert[p] \in Certificates
<1>1. /\ stage[p] \in Generating \cup Certifying \cup {"request"} => p = Server
      /\ stage[p] \in Serving => p \in Authorities /\ csr[p] \in Requests
      /\ stage[p] \in {"key", "cert"} => p \in Agents /\ csr[p] \in [key : Nat]
  BY ProcessAssumption
     DEF StageInv, Processes, Authorities, Generating, Certifying, Serving
<1>2. stage[p] \in {"cert", "signed", "tls_cert"} => cert[p] \in Certificates
  BY DEF TypeOK
<1>3. stage[p] \in Generating \cup {"tls_serial", "tls_cert", "tls_key", "serial", "signed", "request",
                                   "key", "cert"}
  BY SaveTable
<1> QED
  BY <1>1, <1>2, <1>3, SaveTable
     DEF Saving, Target, Value, Owner, CAKinds, NameKinds, Generating, Certifying, Serving

\* A file that is saved exists in the model and gets contents of its kind.
TypedAs(file, contents) ==
    /\ file \in Files /\ contents \in Contents
    /\ \A a \in Agents :
          /\ file = <<"key", a>> => contents \in [key : Nat] \cup {Missing, Torn}
          /\ file = <<"cert", a>> => contents \in Certificates \cup {Missing, Torn}
          /\ file = <<"requests", a>> => contents \in Requests \cup {Missing, Torn}
    /\ file = <<"serial", Server>> => contents \in [serial : Nat \ {0}] \cup {Missing, Torn}

LEMMA SavedTyped ==
    ASSUME TypeOK, StageInv, NEW p \in Processes, stage[p] \in Saves
    PROVE  TypedAs(Target(p), Value(p)) /\ TypedAs(Target(p), Torn)
<1>1. Server \notin Agents
  BY ProcessAssumption DEF Authorities
<1>2. CASE stage[p] \in {"ca_cert", "ca_cert_again", "ca_key", "ca_key_again", "tls_key"}
  BY <1>1, <1>2, WhatIsSaved DEF Saving, TypedAs, Files, Contents, CAKinds
<1>3. CASE stage[p] \in {"ca_serial", "tls_serial", "serial"}
  <2>1. p \in Authorities
    BY <1>3, WhatIsSaved DEF Generating, Certifying, Serving, Authorities
  <2>2. serial_number[p] \in Nat \ {0}
    BY <2>1 DEF TypeOK
  <2>3. Target(p) = <<"serial", Server>> /\ Value(p) = [serial |-> serial_number[p]]
    BY <1>3, WhatIsSaved DEF Saving
  <2> QED
    BY <1>1, <2>2, <2>3 DEF TypedAs, Files, Contents, CAKinds
<1>4. CASE stage[p] = "tls_cert"
  BY <1>1, <1>4, WhatIsSaved DEF Saving, TypedAs, Files, Contents, CAKinds
<1>5. CASE stage[p] \in {"signed", "request"}
  <2>1. csr[p] \in Requests /\ csr[p].agent \in Agents
    BY <1>5, WhatIsSaved DEF Serving, Requests
  <2> QED
    BY <1>1, <1>5, <2>1, WhatIsSaved DEF Saving, TypedAs, Files, Contents, NameKinds
<1>6. CASE stage[p] \in {"key", "cert"}
  BY <1>1, <1>6, WhatIsSaved DEF Saving, TypedAs, Files, Contents, AgentKinds
<1> QED
  BY <1>2, <1>3, <1>4, <1>5, <1>6, WhatIsSaved

\* One file changes, to contents of its kind.
LEMMA FileChange ==
    ASSUME TypeOK, FilesTyped, NEW f, NEW c, TypedAs(f, c), disk' = [disk EXCEPT ![f] = c]
    PROVE  /\ disk' \in [Files -> Contents] /\ FilesTyped'
           /\ disk'[f] = c /\ \A g \in Files : g # f => disk'[g] = disk[g]
<1>1. f \in Files /\ c \in Contents /\ disk \in [Files -> Contents]
  BY DEF TypedAs, TypeOK
<1>2. disk'[f] = c /\ \A g \in Files : g # f => disk'[g] = disk[g]
  BY <1>1
<1>3. disk' \in [Files -> Contents]
  BY <1>1
<1>4. <<"serial", Server>> \in Files
  BY DEF Files, CAKinds
<1>5. \A a \in Agents : <<"key", a>> \in Files /\ <<"cert", a>> \in Files /\ <<"requests", a>> \in Files
  BY DEF Files, NameKinds, AgentKinds
<1>6. FilesTyped'
  BY <1>2, <1>4, <1>5 DEF FilesTyped, TypedAs
<1> QED
  BY <1>2, <1>3, <1>6
-----------------------------------------------------------------------------
(* Types.                                                                  *)

TypeInv == TypeOK /\ StageInv /\ FilesTyped

\* The last part of TypeOK: who saves has what it saves.
HasWhatItSaves ==
    /\ \A p \in Authorities : stage[p] \in {"serial", "signed", "request"} => csr[p] \in Requests
    /\ \A p \in Processes : stage[p] \in {"tls_cert", "signed", "cert"} => cert[p] \in Certificates
    /\ stage[Server] \in {"tls", "serial", "signed", "request"} => ca_ctx

\* The certificate that is signed after the serial number was saved.
LEMMA NewCertificateType ==
    ASSUME TypeInv, NEW p \in Processes, stage[p] \in {"serial", "tls_serial"}
    PROVE  /\ p \in Authorities /\ NewCertificate(p) \in Certificates
           /\ NewCertificate(p).serial = serial_number[p] - 1
           /\ stage[p] = "serial" => /\ NewCertificate(p).agent = csr[p].agent
                                     /\ NewCertificate(p).key = csr[p].key
<1>1. p \in Authorities /\ (stage[p] = "serial" => csr[p] \in Requests)
  BY SaveTable, WhatIsSaved DEF TypeInv, Generating, Certifying, Serving, Authorities
<1>2. serial_number[p] - 1 \in Nat
  BY <1>1 DEF TypeInv, TypeOK
<1>3. CASE stage[p] = "serial"
  BY <1>1, <1>2, <1>3 DEF NewCertificate, Certificates, Requests
<1>4. CASE stage[p] = "tls_serial"
  BY <1>1, <1>2, <1>4 DEF NewCertificate, Certificates
<1> QED
  BY <1>3, <1>4, <1>1

\* Where a process goes on after a save.
LEMMA GoOnStep ==
    ASSUME TypeInv, NEW p \in Processes, stage[p] \in Saves,
           NEW next \in {Follows[stage[p]], Otherwise[stage[p]]}, GoOn(p, next)
    PROVE  /\ stage' \in [Processes -> Stages] /\ opened' \in [Processes -> BOOLEAN]
           /\ cert' \in [Processes -> Certificates \cup {None}]
           /\ issued' \in Seq(Certificates)
           /\ stage'[p] = next
           /\ \A q \in Processes : q # p => stage'[q] = stage[q] /\ cert'[q] = cert[q]
           /\ next \in {"tls_cert", "signed", "cert"} => cert'[p] \in Certificates
           /\ stage[p] \in {"serial", "tls_serial"} =>
                 cert'[p] = NewCertificate(p) /\ issued' = Append(issued, NewCertificate(p))
           /\ stage[p] \notin {"serial", "tls_serial"} => cert' = cert /\ issued' = issued
<1>1. next \in Stages
  BY SaveTable, FollowsTable, OtherwiseTable DEF Stages, Generating
<1>2. stage' \in [Processes -> Stages] /\ opened' \in [Processes -> BOOLEAN] /\ stage'[p] = next
      /\ \A q \in Processes : q # p => stage'[q] = stage[q]
  BY <1>1 DEF GoOn, TypeInv, TypeOK
<1>3. CASE stage[p] \in {"serial", "tls_serial"}
  <2>1. NewCertificate(p) \in Certificates
    BY <1>3, NewCertificateType
  <2>2. cert' = [cert EXCEPT ![p] = NewCertificate(p)] /\ issued' = Append(issued, NewCertificate(p))
    BY <1>3 DEF GoOn
  <2>3. cert \in [Processes -> Certificates \cup {None}] /\ issued \in Seq(Certificates)
    BY DEF TypeInv, TypeOK
  <2>4. issued' \in Seq(Certificates)
    BY <2>1, <2>2, <2>3
  <2>5. cert' \in [Processes -> Certificates \cup {None}] /\ cert'[p] = NewCertificate(p)
        /\ \A q \in Processes : q # p => cert'[q] = cert[q]
    BY <2>1, <2>2, <2>3
  <2> QED
    BY <1>2, <1>3, <2>1, <2>2, <2>4, <2>5
<1>4. CASE stage[p] \notin {"serial", "tls_serial"}
  <2>1. cert' = cert /\ issued' = issued
    BY <1>4 DEF GoOn
  <2>2. next \notin {"tls_cert", "signed", "cert"}
    BY <1>4, SaveTable, FollowsTable, OtherwiseTable DEF Generating
  <2> QED
    BY <1>2, <1>4, <2>1, <2>2 DEF TypeInv, TypeOK
<1> QED
  BY <1>3, <1>4

\* Opening a file, failing to, and writing it keep the types.
LEMMA OpenFileType ==
    ASSUME TypeInv, NEW p \in Processes, OpenFile(p)
    PROVE  TypeInv'
<1>1. TypedAs(Target(p), Torn) /\ disk' = [disk EXCEPT ![Target(p)] = Torn]
  BY SavedTyped DEF OpenFile, TypeInv
<1>2. disk' \in [Files -> Contents] /\ FilesTyped'
  BY <1>1, FileChange DEF TypeInv
<1>3. opened' \in [Processes -> BOOLEAN]
  BY DEF OpenFile, TypeInv, TypeOK
<1>4. TypeOK'
  BY <1>2, <1>3 DEF OpenFile, TypeInv, TypeOK, netVars, countVars
<1>5. StageInv'
  BY DEF OpenFile, TypeInv, StageInv
<1> QED
  BY <1>2, <1>4, <1>5 DEF TypeInv

LEMMA GoOnType ==
    ASSUME TypeInv, NEW p \in Processes, WriteFile(p) \/ CannotOpen(p)
    PROVE  TypeInv'
<1> DEFINE next == IF WriteFile(p) THEN Follows[stage[p]] ELSE Otherwise[stage[p]]
<1>1. stage[p] \in Saves /\ GoOn(p, next) /\ next \in {Follows[stage[p]], Otherwise[stage[p]]}
  BY DEF WriteFile, CannotOpen
<1>2. csr' = csr /\ serial_number' = serial_number /\ netVars' = netVars /\ batch' = batch
      /\ keys' = keys /\ commands' = commands
  BY DEF WriteFile, CannotOpen, countVars
<1>3. disk' \in [Files -> Contents] /\ FilesTyped'
  <2>1. CASE WriteFile(p)
    <3>1. TypedAs(Target(p), Value(p)) /\ disk' = [disk EXCEPT ![Target(p)] = Value(p)]
      BY <1>1, <2>1, SavedTyped DEF WriteFile, TypeInv
    <3> QED
      BY <3>1, FileChange DEF TypeInv
  <2>2. CASE CannotOpen(p)
    BY <2>2 DEF CannotOpen, TypeInv, TypeOK, FilesTyped
  <2> QED
    BY <2>1, <2>2
<1>4. faults' \in 0..MaxFaults
  BY ProcessAssumption DEF WriteFile, CannotOpen, countVars, TypeInv, TypeOK
<1>5. ca_ctx' \in BOOLEAN /\ (stage[p] \notin {"ca_cert", "ca_key", "ca_cert_again", "ca_key_again"}
                                 => ca_ctx' = ca_ctx)
      /\ (ca_ctx' = ca_ctx \/ (CannotOpen(p) /\ stage[p] \in Generating /\ ~WriteFile(p)))
  <2>1. CASE WriteFile(p)
    BY <2>1 DEF WriteFile, TypeInv, TypeOK
  <2>2. CASE CannotOpen(p) /\ ~WriteFile(p)
    BY <1>1, <2>2, SaveTable DEF CannotOpen, TypeInv, TypeOK, Generating
  <2> QED
    BY <2>1, <2>2
<1>6. /\ stage' \in [Processes -> Stages] /\ opened' \in [Processes -> BOOLEAN]
      /\ cert' \in [Processes -> Certificates \cup {None}] /\ issued' \in Seq(Certificates)
      /\ stage'[p] = next
      /\ \A q \in Processes : q # p => stage'[q] = stage[q] /\ cert'[q] = cert[q]
      /\ next \in {"tls_cert", "signed", "cert"} => cert'[p] \in Certificates
  <2> HIDE DEF next
  <2> QED
    BY <1>1, GoOnStep
<1>7. TypeOK'
  <2>1. \A q \in Authorities : stage'[q] \in {"serial", "signed", "request"} => csr[q] \in Requests
    <3>1. next \in {"serial", "signed", "request"} => csr[p] \in Requests
      <4>1. next \in {"serial", "signed", "request"} => stage[p] = "serial"
        BY <1>1, SaveTable, FollowsTable, OtherwiseTable DEF Generating
      <4>2. stage[p] \in Serving => csr[p] \in Requests
        BY <1>1, WhatIsSaved DEF TypeInv
      <4> QED
        BY <4>1, <4>2 DEF Serving
    <3> HIDE DEF next
    <3> QED
      BY <1>6, <3>1 DEF TypeInv, TypeOK, Processes
  <2>2. stage'[Server] \in {"tls", "serial", "signed", "request"} => ca_ctx'
    <3>1. CASE p = Server
      <4>1. next \in {"tls", "serial", "signed", "request"} =>
               stage[p] \in {"ca_key_again", "serial"} /\ ca_ctx' = ca_ctx
        BY <1>1, <1>5, SaveTable, FollowsTable, OtherwiseTable DEF Generating
      <4>2. stage[Server] \in {"ca_key_again", "serial"} => ca_ctx
        BY DEF TypeInv, TypeOK, StageInv, Generating
      <4> HIDE DEF next
      <4> QED
        BY <1>6, <3>1, <4>1, <4>2
    <3>2. CASE p # Server
      <4>1. stage[p] \notin Generating
        BY <3>2, SaveTable, WhatIsSaved DEF TypeInv
      <4>2. ca_ctx' = ca_ctx
        BY <1>5, <4>1
      <4> QED
        BY <1>6, <3>2, <4>2 DEF TypeInv, TypeOK, Processes, Authorities
    <3> QED
      BY <3>1, <3>2
  <2>3. \A q \in Processes : stage'[q] \in {"tls_cert", "signed", "cert"} => cert'[q] \in Certificates
    <3> HIDE DEF next
    <3> QED
      BY <1>6 DEF TypeInv, TypeOK
  <2> HIDE DEF next
  <2> QED
    BY <1>2, <1>3, <1>4, <1>5, <1>6, <2>1, <2>2, <2>3 DEF TypeInv, TypeOK, netVars
<1>8. StageInv'
  <2>1. CASE p \in Agents
    <3>1. stage[p] \in {"key", "cert"} /\ p \notin Authorities
      BY <1>1, <2>1, SaveTable, ProcessAssumption DEF TypeInv, StageInv, Generating
    <3>2. next \in {"off", "submit"} /\ ca_ctx' = ca_ctx
      BY <1>1, <1>5, <3>1, FollowsTable, OtherwiseTable DEF Generating
    <3> HIDE DEF next
    <3> QED
      BY <1>2, <1>6, <2>1, <3>1, <3>2 DEF TypeInv, StageInv, Processes, Authorities
  <2>2. CASE p = Cli
    <3>1. stage[p] \in {"serial", "signed"} /\ p \notin Agents /\ p # Server /\ csr[Cli] \in Requests
      BY <1>1, <2>2, SaveTable, ProcessAssumption
         DEF TypeInv, StageInv, Generating, Authorities, Serving
    <3>2. next \in {"signed", "finish"} /\ ca_ctx' = ca_ctx
      BY <1>1, <1>5, <3>1, FollowsTable, OtherwiseTable DEF Generating
    <3> HIDE DEF next
    <3> QED
      BY <1>2, <1>6, <2>2, <3>1, <3>2 DEF TypeInv, StageInv, Processes, Authorities
  <2>3. CASE p = Server
    <3>1. stage[p] \in Generating \cup Certifying \cup Serving /\ p \notin Agents /\ p # Cli
      BY <1>1, <2>3, SaveTable, ProcessAssumption
         DEF TypeInv, StageInv, Generating, Authorities, Serving, Certifying
    <3>2. /\ next \in {"start"} \cup Generating \cup Certifying \cup Serving
          /\ next \in Generating \cup Certifying =>
                stage[p] \in Generating \cup Certifying /\ ca_ctx' = ca_ctx
          /\ next \in Serving => stage[p] \in Serving
      <4>1. CASE WriteFile(p)
        BY <1>1, <1>5, <3>1, <4>1, SaveTable, FollowsTable DEF Generating, Certifying, Serving
      <4>2. CASE ~WriteFile(p)
        <5>1. /\ next \in {"start"} \cup Generating \cup Certifying \cup Serving
              /\ next \in Generating \cup Certifying => stage[p] \in {"ca_serial", "tls_serial"}
              /\ next \in Serving => stage[p] \in Serving
          BY <1>1, <3>1, <4>2, SaveTable, OtherwiseTable DEF Generating, Certifying, Serving
        <5> HIDE DEF next
        <5> QED
          BY <1>5, <5>1 DEF Generating, Certifying
      <4> QED
        BY <4>1, <4>2
    <3> HIDE DEF next
    <3> QED
      BY <1>2, <1>6, <2>3, <3>1, <3>2 DEF TypeInv, StageInv, Processes, Authorities
  <2> QED
    BY <2>1, <2>2, <2>3 DEF Processes, Authorities
<1> QED
  BY <1>3, <1>7, <1>8 DEF TypeInv

\* The numbers an authority starts with and takes.
LEMMA SerialLoads ==
    ASSUME TypeInv
    PROVE  puppet_ca_load_serial \in Nat \ {0}
  BY DEF puppet_ca_load_serial, TypeInv, FilesTyped

\* The other steps of the server keep the types.
LEMMA ServerType ==
    ASSUME TypeInv, KeyInv,
           \/ StartServer \/ CheckServerCertificate \/ StartDaemon \/ Answer
           \/ \E a \in Agents : handle_certificate_request(a)
    PROVE  TypeInv'
<1> USE DEF TypeInv
<1>0. /\ Server \in Processes /\ Server \in Authorities /\ Server \notin Agents /\ Server # Cli
      /\ Cli \in Processes /\ None \notin Agents /\ Agents \subseteq Processes /\ Cli \notin Agents
  BY ProcessAssumption, ContentsAssumption DEF Authorities, Processes
<1>1. CASE StartServer
  <2>1. /\ stage' \in [Processes -> Stages]
        /\ stage'[Server] \in {"ca_cert", "tls", "start"} /\ (stage'[Server] # "start" => ca_ctx')
        /\ \A q \in Processes : q # Server => stage'[q] = stage[q]
    BY <1>0, <1>1, SaveTable DEF StartServer, TypeOK, Stages, Generating, CAExists, CALoads
  <2>2. ca_ctx' \in BOOLEAN /\ serial_number' \in [Authorities -> Nat \ {0}]
    BY <1>0, <1>1, SerialLoads DEF StartServer, TypeOK
  <2>3. TypeOK'
    <3>1. HasWhatItSaves'
      BY <1>0, <1>1, <2>1 DEF StartServer, TypeOK, HasWhatItSaves, Authorities, Processes
    <3> QED
      BY <1>1, <2>1, <2>2, <3>1 DEF StartServer, TypeOK, netVars, countVars, HasWhatItSaves
  <2>4. StageInv' /\ FilesTyped'
    BY <1>0, <1>1, <2>1 DEF StartServer, StageInv, FilesTyped, Generating, Certifying, Serving
  <2> QED
    BY <2>3, <2>4
<1>2. CASE CheckServerCertificate
  <2>1. /\ stage' \in [Processes -> Stages] /\ stage[Server] = "tls"
        /\ stage'[Server] \in {"tls_serial", "start"}
        /\ \A q \in Processes : q # Server => stage'[q] = stage[q]
    BY <1>0, <1>2, SaveTable DEF CheckServerCertificate, TypeOK, Stages
  <2>2. serial_number' \in [Authorities -> Nat \ {0}]
    BY <1>0, <1>2 DEF CheckServerCertificate, puppet_ca_get_next_serial, TypeOK
  <2>3. TypeOK'
    <3>1. HasWhatItSaves'
      BY <1>0, <1>2, <2>1 DEF CheckServerCertificate, TypeOK, HasWhatItSaves, Processes
    <3> QED
      BY <1>2, <2>1, <2>2, <3>1
         DEF CheckServerCertificate, TypeOK, netVars, countVars, HasWhatItSaves
  <2>4. StageInv' /\ FilesTyped'
    BY <1>0, <1>2, <2>1
       DEF CheckServerCertificate, StageInv, FilesTyped, Generating, Certifying, Serving
  <2> QED
    BY <2>3, <2>4
<1>3. CASE Answer
  <2>1. /\ stage' \in [Processes -> Stages] /\ stage'[Server] = "idle"
        /\ cert' \in [Processes -> Certificates \cup {None}]
        /\ \/ asker = None /\ cert' = cert
              /\ \A q \in Processes : q # Server => stage'[q] = stage[q]
           \/ /\ asker \in Agents /\ stage'[asker] \in {"off", "cert"}
              /\ (stage'[asker] = "cert" => cert'[asker] \in Certificates)
              /\ \A q \in Processes : q \notin {Server, asker} => stage'[q] = stage[q]
              /\ \A q \in Processes : q # asker => cert'[q] = cert[q]
    <3>1. CASE asker = None
      BY <1>0, <1>3, <3>1 DEF Answer, TypeOK, Stages
    <3>2. CASE asker # None
      <4>1. asker \in Agents /\ asker \in Processes /\ asker # Server
        BY <1>0, <3>2 DEF TypeOK
      <4>2. {"off", "cert", "idle"} \subseteq Stages
        BY SaveTable DEF Stages
      <4>3. /\ stage' = [stage EXCEPT ![Server] = "idle",
                                      ![asker] = IF cert[Server] = None THEN "off" ELSE "cert"]
            /\ cert' = [cert EXCEPT ![asker] = cert[Server]]
        BY <1>3, <3>2 DEF Answer
      <4> QED
        BY <1>0, <4>1, <4>2, <4>3 DEF TypeOK
    <3> QED
      BY <3>1, <3>2
  <2>2. TypeOK'
    <3>1. csr' = csr /\ ca_ctx' = ca_ctx /\ asker' = None
      BY <1>3 DEF Answer
    <3>2. HasWhatItSaves'
      <4>1. \A q \in Processes : stage'[q] \in {"tls_cert", "signed", "cert"} => cert'[q] \in Certificates
        BY <1>0, <2>1 DEF TypeOK
      <4>2. \A q \in Authorities : stage'[q] \in {"serial", "signed", "request"} => stage'[q] = stage[q]
        BY <1>0, <2>1 DEF Processes
      <4> QED
        BY <2>1, <3>1, <4>1, <4>2 DEF HasWhatItSaves, TypeOK
    <3>3. opened' = opened /\ inbox' = inbox /\ disk' = disk /\ serial_number' = serial_number
          /\ batch' = batch /\ keys' = keys /\ issued' = issued /\ countVars' = countVars
      BY <1>3 DEF Answer
    <3> QED
      BY <2>1, <3>1, <3>2, <3>3 DEF TypeOK, countVars, HasWhatItSaves
  <2>3. StageInv'
    <3>1. stage[Server] = "finish" /\ csr' = csr /\ ca_ctx' = ca_ctx
      BY <1>3 DEF Answer
    <3>2. \A a \in Agents : stage'[a] \in {"off", "key", "submit", "wait", "cert"}
      BY <1>0, <2>1 DEF StageInv
    <3>3. \A a \in Agents : stage'[a] # "off" => csr[a] \in [key : Nat]
      <4>1. \A a \in Agents : stage'[a] # "off" => stage[a] # "off" \/ a = asker
        BY <1>0, <2>1
      <4>2. asker # None => stage[asker] # "off"
        BY DEF KeyInv, AskerInv
      <4> QED
        BY <1>0, <4>1, <4>2, <2>1 DEF StageInv
    <3>4. stage'[Cli] = stage[Cli]
      BY <1>0, <2>1
    <3> QED
      BY <2>1, <3>1, <3>2, <3>3, <3>4 DEF StageInv, Generating, Certifying, Serving
  <2>4. FilesTyped'
    BY <1>3 DEF Answer, FilesTyped
  <2> QED
    BY <2>2, <2>3, <2>4
<1>4. ASSUME NEW a \in Agents, handle_certificate_request(a)
      PROVE  TypeInv'
  <2>1. PICK r \in inbox : /\ r.agent = a /\ inbox' = inbox \ {r}
                           /\ asker' = IF r.live THEN a ELSE None
                           /\ csr' = [csr EXCEPT ![Server] = [agent |-> r.agent, key |-> r.key]]
    BY <1>4 DEF handle_certificate_request
  <2>2. [agent |-> r.agent, key |-> r.key] \in Requests
    BY <2>1 DEF TypeOK, Requests
  <2>3. /\ csr'[Server] \in Requests /\ \A q \in Processes : q # Server => csr'[q] = csr[q]
        /\ csr' \in [Processes -> Requests \cup [key : Nat] \cup {None}]
    BY <1>0, <2>1, <2>2 DEF TypeOK
  <2>4. /\ stage' \in [Processes -> Stages]
        /\ stage'[Server] \in {"finish", "serial", "request"} /\ (stage'[Server] # "finish" => ca_ctx)
        /\ \A q \in Processes : q # Server => stage'[q] = stage[q]
    <3>1. {"finish", "serial", "request"} \subseteq Stages
      BY SaveTable DEF Stages
    <3>2. PICK s \in {"finish", "serial", "request"} :
             stage' = [stage EXCEPT ![Server] = s] /\ (s # "finish" => ca_ctx)
      BY <1>4 DEF handle_certificate_request
    <3> QED
      BY <1>0, <3>1, <3>2 DEF TypeOK
  <2>5. serial_number' \in [Authorities -> Nat \ {0}]
    BY <1>0, <1>4 DEF handle_certificate_request, puppet_ca_get_next_serial, TypeOK
  <2>6. cert' \in [Processes -> Certificates \cup {None}]
        /\ \A q \in Processes : q # Server => cert'[q] = cert[q]
    BY <1>0, <1>4 DEF handle_certificate_request, TypeOK
  <2>7. TypeOK'
    <3>1. HasWhatItSaves'
      BY <1>0, <1>4, <2>3, <2>4, <2>6
         DEF handle_certificate_request, TypeOK, HasWhatItSaves, Processes
    <3>2. asker' \in Agents \cup {None} /\ inbox' \subseteq [agent : Agents, key : Nat, live : BOOLEAN]
      BY <2>1 DEF TypeOK
    <3> QED
      BY <1>4, <2>3, <2>4, <2>5, <2>6, <3>1, <3>2
         DEF handle_certificate_request, TypeOK, countVars, HasWhatItSaves
  <2>8. StageInv' /\ FilesTyped'
    BY <1>0, <1>4, <2>3, <2>4
       DEF handle_certificate_request, StageInv, FilesTyped, Generating, Certifying, Serving
  <2> QED
    BY <2>7, <2>8
<1>5. CASE StartDaemon
  <2>1. /\ stage' \in [Processes -> Stages] /\ stage'[Server] \in {"idle", "off"}
        /\ \A q \in Processes : q # Server => stage'[q] = stage[q]
    BY <1>0, <1>5, SaveTable DEF StartDaemon, TypeOK, Stages
  <2>2. TypeOK'
    <3>1. HasWhatItSaves'
      BY <1>0, <1>5, <2>1 DEF StartDaemon, TypeOK, HasWhatItSaves, Authorities, Processes
    <3> QED
      BY <1>5, <2>1, <3>1 DEF StartDaemon, TypeOK, netVars, countVars, HasWhatItSaves
  <2>3. StageInv' /\ FilesTyped'
    BY <1>0, <1>5, <2>1 DEF StartDaemon, StageInv, FilesTyped, Generating, Certifying, Serving
  <2> QED
    BY <2>2, <2>3
<1> QED
  BY <1>1, <1>2, <1>3, <1>4, <1>5

\* So do those of puppetc-ca.
LEMMA CliType ==
    ASSUME TypeInv, cmd_sign \/ cmd_revoke \/ cmd_clean \/ SignNext \/ DeleteSigned
    PROVE  TypeInv'
<1> USE DEF TypeInv
<1>0. /\ Cli \in Processes /\ Cli \in Authorities /\ Cli \notin Agents /\ Server # Cli
      /\ Server \in Processes
  BY ProcessAssumption DEF Authorities, Processes
<1>1. CASE cmd_sign
  <2>1. /\ stage' \in [Processes -> Stages] /\ stage'[Cli] = "next"
        /\ \A q \in Processes : q # Cli => stage'[q] = stage[q]
    BY <1>0, <1>1 DEF cmd_sign, TypeOK, Stages
  <2>2. serial_number' \in [Authorities -> Nat \ {0}] /\ batch' \subseteq Agents
    BY <1>0, <1>1, SerialLoads DEF cmd_sign, TypeOK, Pending
  <2>3. commands' \in 0..MaxCommands
    BY <1>1, ProcessAssumption DEF cmd_sign, Command, TypeOK
  <2>4. HasWhatItSaves'
    BY <1>0, <1>1, <2>1 DEF cmd_sign, TypeOK, HasWhatItSaves, Authorities, Processes
  <2>5. TypeOK'
    BY <1>1, <2>1, <2>2, <2>3, <2>4 DEF cmd_sign, TypeOK, netVars, HasWhatItSaves
  <2>6. StageInv' /\ FilesTyped'
    BY <1>0, <1>1, <2>1 DEF cmd_sign, StageInv, FilesTyped, Serving, Processes
  <2> QED
    BY <2>5, <2>6
<1>2. CASE cmd_revoke \/ cmd_clean
  <2>1. PICK kind \in {"signed", "requests"} : Delete(kind)
    BY <1>2 DEF cmd_revoke, cmd_clean
  <2>2. PICK a \in Agents : disk' = [disk EXCEPT ![<<kind, a>>] = Missing]
    BY <2>1 DEF Delete
  <2>3. TypedAs(<<kind, a>>, Missing)
    BY ProcessAssumption DEF TypedAs, Files, NameKinds, Contents
  <2>4. disk' \in [Files -> Contents] /\ FilesTyped'
    BY <2>2, <2>3, FileChange
  <2>5. commands' \in 0..MaxCommands
    BY <2>1, ProcessAssumption DEF Delete, Command, TypeOK
  <2>6. TypeOK' /\ StageInv'
    BY <2>1, <2>4, <2>5 DEF Delete, TypeOK, StageInv, localVars, netVars
  <2> QED
    BY <2>4, <2>6
<1>3. CASE SignNext
  <2>1. \/ stage' = [stage EXCEPT ![Cli] = "off"] /\ UNCHANGED <<csr, batch, serial_number>>
        \/ batch' \subseteq batch /\ UNCHANGED <<stage, csr, serial_number>>
        \/ \E a \in batch :
              /\ batch' \subseteq batch /\ disk[<<"requests", a>>] \notin {Missing, Torn}
              /\ csr' = [csr EXCEPT ![Cli] = disk[<<"requests", a>>]]
              /\ stage' = [stage EXCEPT ![Cli] = "serial"]
              /\ serial_number' = [serial_number EXCEPT ![Cli] = @ + 1]
    BY <1>3 DEF SignNext, puppet_ca_get_next_serial
  <2>2. /\ stage' \in [Processes -> Stages] /\ stage'[Cli] \in {"off", "next", "serial"}
        /\ \A q \in Processes : q # Cli => stage'[q] = stage[q] /\ csr'[q] = csr[q]
        /\ csr' \in [Processes -> Requests \cup [key : Nat] \cup {None}]
        /\ stage'[Cli] = "serial" => csr'[Cli] \in Requests
        /\ serial_number' \in [Authorities -> Nat \ {0}] /\ batch' \subseteq Agents
    <3>1. stage[Cli] = "next" /\ {"off", "serial"} \subseteq Stages
      BY <1>3, SaveTable DEF SignNext, Stages
    <3>2. CASE \E a \in batch :
              /\ batch' \subseteq batch /\ disk[<<"requests", a>>] \notin {Missing, Torn}
              /\ csr' = [csr EXCEPT ![Cli] = disk[<<"requests", a>>]]
              /\ stage' = [stage EXCEPT ![Cli] = "serial"]
              /\ serial_number' = [serial_number EXCEPT ![Cli] = @ + 1]
      <4>1. PICK a \in batch :
              /\ batch' \subseteq batch /\ disk[<<"requests", a>>] \notin {Missing, Torn}
              /\ csr' = [csr EXCEPT ![Cli] = disk[<<"requests", a>>]]
              /\ stage' = [stage EXCEPT ![Cli] = "serial"]
              /\ serial_number' = [serial_number EXCEPT ![Cli] = @ + 1]
        BY <3>2
      <4>2. disk[<<"requests", a>>] \in Requests
        BY <4>1 DEF FilesTyped, TypeOK
      <4> QED
        BY <1>0, <3>1, <4>1, <4>2 DEF TypeOK
    <3>3. CASE stage' = [stage EXCEPT ![Cli] = "off"] /\ UNCHANGED <<csr, batch, serial_number>>
      BY <1>0, <3>1, <3>3 DEF TypeOK
    <3>4. CASE batch' \subseteq batch /\ UNCHANGED <<stage, csr, serial_number>>
      BY <1>0, <3>1, <3>4 DEF TypeOK
    <3> QED
      BY <2>1, <3>2, <3>3, <3>4
  <2>3. HasWhatItSaves'
    BY <1>0, <1>3, <2>2 DEF SignNext, TypeOK, HasWhatItSaves, Authorities, Processes
  <2>4. TypeOK'
    BY <1>3, <2>2, <2>3 DEF SignNext, TypeOK, netVars, countVars, HasWhatItSaves
  <2>5. StageInv' /\ FilesTyped'
    BY <1>0, <1>3, <2>2 DEF SignNext, StageInv, FilesTyped, Serving, Processes
  <2> QED
    BY <2>4, <2>5
<1>4. CASE DeleteSigned
  <2>1. csr[Cli] \in Requests
    BY <1>4 DEF DeleteSigned, StageInv, Serving
  <2>2. TypedAs(<<"requests", csr[Cli].agent>>, Missing)
    BY <2>1, ProcessAssumption DEF TypedAs, Files, NameKinds, Contents, Requests
  <2>3. disk' \in [Files -> Contents] /\ FilesTyped'
    BY <1>4, <2>2, FileChange DEF DeleteSigned
  <2>4. /\ stage' \in [Processes -> Stages] /\ stage'[Cli] = "next"
        /\ \A q \in Processes : q # Cli => stage'[q] = stage[q]
    BY <1>0, <1>4 DEF DeleteSigned, TypeOK, Stages
  <2>5. HasWhatItSaves'
    BY <1>0, <1>4, <2>4 DEF DeleteSigned, TypeOK, HasWhatItSaves, Authorities, Processes
  <2>6. TypeOK'
    BY <1>4, <2>3, <2>4, <2>5 DEF DeleteSigned, TypeOK, netVars, countVars, HasWhatItSaves
  <2>7. StageInv'
    BY <1>0, <1>4, <2>4 DEF DeleteSigned, StageInv, Serving, Processes
  <2> QED
    BY <2>3, <2>6, <2>7
<1> QED
  BY <1>1, <1>2, <1>3, <1>4

\* And those of an agent.
LEMMA AgentType ==
    ASSUME TypeInv, NEW a \in Agents,
           ensure_certificate(a) \/ submit_certificate_request(a) \/ Disconnected(a) \/ Timeout(a)
    PROVE  /\ TypeInv'
           /\ disk' = disk /\ cert' = cert /\ issued' = issued /\ ca_ctx' = ca_ctx
           /\ serial_number' = serial_number
           /\ \A q \in Processes : q # a => stage'[q] = stage[q] /\ csr'[q] = csr[q]
<1> USE DEF TypeInv
<1>0. a \in Processes /\ a \notin Authorities
  BY ProcessAssumption DEF Processes
<1>1. /\ disk' = disk /\ cert' = cert /\ issued' = issued /\ ca_ctx' = ca_ctx /\ opened' = opened
      /\ serial_number' = serial_number /\ batch' = batch /\ commands' = commands
  BY DEF ensure_certificate, submit_certificate_request, Disconnected, Timeout, countVars
<1>2. /\ stage' \in [Processes -> Stages]
      /\ csr' \in [Processes -> Requests \cup [key : Nat] \cup {None}] /\ keys' \in Nat
      /\ stage'[a] \in {"off", "key", "submit", "wait"}
      /\ stage'[a] # "off" => csr'[a] \in [key : Nat]
      /\ \A q \in Processes : q # a => stage'[q] = stage[q] /\ csr'[q] = csr[q]
  <2>1. {"off", "key", "submit", "wait"} \subseteq Stages
    BY SaveTable DEF Stages
  <2>2. CASE ensure_certificate(a)
    <3>1. \/ keys' = keys + 1 /\ csr' = [csr EXCEPT ![a] = [key |-> keys + 1]]
             /\ stage' = [stage EXCEPT ![a] = "key"]
          \/ disk[<<"key", a>>] \notin {Missing, Torn} /\ keys' = keys
             /\ csr' = [csr EXCEPT ![a] = disk[<<"key", a>>]]
             /\ stage' = [stage EXCEPT ![a] = "submit"]
      BY <2>2 DEF ensure_certificate
    <3>2. keys + 1 \in Nat /\ [key |-> keys + 1] \in [key : Nat]
      BY DEF TypeOK
    <3>3. disk[<<"key", a>>] \notin {Missing, Torn} => disk[<<"key", a>>] \in [key : Nat]
      BY DEF FilesTyped
    <3>4. PICK k \in [key : Nat], s \in {"key", "submit"} :
             csr' = [csr EXCEPT ![a] = k] /\ stage' = [stage EXCEPT ![a] = s]
      BY <3>1, <3>2, <3>3
    <3>5. keys' \in Nat
      BY <3>1, <3>2 DEF TypeOK
    <3> QED
      BY <1>0, <2>1, <3>4, <3>5 DEF TypeOK
  <2>3. CASE submit_certificate_request(a)
    <3>1. PICK s \in {"wait", "off"} : stage' = [stage EXCEPT ![a] = s]
      BY <2>3 DEF submit_certificate_request
    <3>2. csr' = csr /\ keys' = keys /\ csr[a] \in [key : Nat]
      BY <2>3 DEF submit_certificate_request, StageInv
    <3> QED
      BY <1>0, <2>1, <3>1, <3>2 DEF TypeOK
  <2>4. CASE Disconnected(a) \/ Timeout(a)
    BY <1>0, <2>1, <2>4 DEF Disconnected, Timeout, TypeOK
  <2> QED
    BY <2>2, <2>3, <2>4
<1>3. /\ inbox' \subseteq [agent : Agents, key : Nat, live : BOOLEAN]
      /\ asker' \in Agents \cup {None} /\ faults' \in 0..MaxFaults
  <2>1. CASE submit_certificate_request(a)
    <3>1. csr[a] \in [key : Nat]
      BY <2>1 DEF submit_certificate_request, StageInv
    <3>2. [agent |-> a, key |-> csr[a].key, live |-> TRUE] \in [agent : Agents, key : Nat, live : BOOLEAN]
      BY <3>1
    <3>3. inbox' \in {inbox, inbox \cup {[agent |-> a, key |-> csr[a].key, live |-> TRUE]}}
      BY <2>1 DEF submit_certificate_request
    <3>4. faults' = faults \/ (faults < MaxFaults /\ faults' = faults + 1)
      BY <2>1 DEF submit_certificate_request
    <3>5. faults' \in 0..MaxFaults
      BY <3>4, ProcessAssumption DEF TypeOK
    <3>6. asker' = asker
      BY <2>1 DEF submit_certificate_request
    <3> QED
      BY <3>2, <3>3, <3>5, <3>6 DEF TypeOK
  <2>2. CASE Timeout(a)
    <3>1. \A r \in inbox : [r EXCEPT !.live = @ /\ r.agent # a] \in [agent : Agents, key : Nat, live : BOOLEAN]
      BY DEF TypeOK
    <3> QED
      BY <2>2, <3>1, ProcessAssumption DEF Timeout, TypeOK
  <2>3. CASE ensure_certificate(a) \/ Disconnected(a)
    BY <2>3 DEF ensure_certificate, Disconnected, TypeOK, netVars, countVars
  <2> QED
    BY <2>1, <2>2, <2>3
<1>4. HasWhatItSaves'
  BY <1>0, <1>1, <1>2 DEF HasWhatItSaves, TypeOK, Authorities, Processes
<1>5. TypeOK'
  BY <1>1, <1>2, <1>3, <1>4 DEF TypeOK, HasWhatItSaves
<1>6. StageInv' /\ FilesTyped'
  BY <1>0, <1>1, <1>2 DEF StageInv, FilesTyped, Processes, Authorities
<1> QED
  BY <1>1, <1>2, <1>5, <1>6

\* A process that dies is forgotten.
LEMMA CrashType ==
    ASSUME TypeInv, NEW p \in Processes, Crash(p)
    PROVE  /\ TypeInv'
           /\ disk' = disk /\ issued' = issued /\ ca_ctx' = ca_ctx /\ serial_number' = serial_number
           /\ stage'[p] = "off"
           /\ \A q \in Processes : q # p => /\ stage'[q] = stage[q] /\ csr'[q] = csr[q]
                                            /\ cert'[q] = cert[q]
<1> USE DEF TypeInv
<1>1. /\ disk' = disk /\ issued' = issued /\ ca_ctx' = ca_ctx /\ serial_number' = serial_number
      /\ keys' = keys /\ commands' = commands
  BY DEF Crash
<1>2. /\ stage' \in [Processes -> Stages] /\ opened' \in [Processes -> BOOLEAN]
      /\ csr' \in [Processes -> Requests \cup [key : Nat] \cup {None}]
      /\ cert' \in [Processes -> Certificates \cup {None}]
      /\ stage'[p] = "off"
      /\ \A q \in Processes : q # p => /\ stage'[q] = stage[q] /\ csr'[q] = csr[q]
                                       /\ cert'[q] = cert[q]
  BY SaveTable DEF Crash, TypeOK, Stages
<1>3. /\ inbox' \subseteq [agent : Agents, key : Nat, live : BOOLEAN]
      /\ asker' \in Agents \cup {None} /\ faults' \in 0..MaxFaults /\ batch' \subseteq Agents
  <2>1. \A r \in inbox : [r EXCEPT !.live = @ /\ r.agent # p] \in [agent : Agents, key : Nat, live : BOOLEAN]
    BY DEF TypeOK
  <2> QED
    BY <2>1, ProcessAssumption DEF Crash, TypeOK
<1>4. HasWhatItSaves'
  BY <1>1, <1>2 DEF HasWhatItSaves, TypeOK, Authorities, Processes
<1>5. TypeOK'
  BY <1>1, <1>2, <1>3, <1>4 DEF TypeOK, HasWhatItSaves
<1>6. StageInv' /\ FilesTyped'
  BY <1>1, <1>2 DEF StageInv, FilesTyped, Processes, Authorities, Generating, Certifying, Serving
<1> QED
  BY <1>1, <1>2, <1>5, <1>6
-----------------------------------------------------------------------------
(* Keys and certificates.                                                  *)

\* What an agent holds is its own business.
LEMMA HeldFrame ==
    ASSUME NEW a \in Agents, Held(a),
           disk'[<<"key", a>>] = disk[<<"key", a>>], disk'[<<"cert", a>>] = disk[<<"cert", a>>],
           \/ stage'[a] = "off"
           \/ stage'[a] = stage[a] /\ csr'[a] = csr[a] /\ cert'[a] = cert[a]
    PROVE  Held(a)'
  BY DEF Held

LEMMA AgentFiles ==
    \A a \in Agents : <<"key", a>> \in Files /\ <<"cert", a>> \in Files
  BY DEF Files, AgentKinds

\* Opening a file.
LEMMA OpenFileKeys ==
    ASSUME TypeInv, KeyInv, NEW p \in Processes, OpenFile(p)
    PROVE  KeyInv'
<1>1. /\ stage' = stage /\ csr' = csr /\ cert' = cert /\ inbox' = inbox /\ asker' = asker
      /\ stage[p] \in Saves
  BY DEF OpenFile, netVars
<1>2. disk'[Target(p)] = Torn /\ \A g \in Files : g # Target(p) => disk'[g] = disk[g]
  <2>1. TypedAs(Target(p), Torn) /\ disk' = [disk EXCEPT ![Target(p)] = Torn]
    BY SavedTyped DEF OpenFile, TypeInv
  <2> QED
    BY <2>1, FileChange DEF TypeInv
<1>3. ASSUME NEW a \in Agents
      PROVE  Held(a)'
  <2>0. Held(a) /\ <<"key", a>> \in Files /\ <<"cert", a>> \in Files
    BY AgentFiles DEF KeyInv
  <2>1. CASE a = p
    <3>1. \/ stage[a] = "key" /\ Target(a) = <<"key", a>>
          \/ stage[a] = "cert" /\ Target(a) = <<"cert", a>>
      BY <1>1, <2>1, WhatIsSaved, SaveTable, ProcessAssumption
         DEF TypeInv, StageInv, Saving, Generating
    <3> QED
      BY <1>1, <1>2, <2>0, <2>1, <3>1, ContentsAssumption DEF Held
  <2>2. CASE a # p
    <3>1. Target(p) # <<"key", a>> /\ Target(p) # <<"cert", a>>
      BY <1>1, <2>2, WhatIsSaved DEF TypeInv, Saving
    <3> QED
      BY <1>1, <1>2, <2>0, <3>1, HeldFrame
  <2> QED
    BY <2>1, <2>2
<1>4. LiveInv' /\ AskerInv' /\ AnswerInv'
  BY <1>1 DEF KeyInv, LiveInv, AskerInv, AnswerInv
<1> QED
  BY <1>3, <1>4 DEF KeyInv

\* Writing it, or going on without.
LEMMA GoOnKeys ==
    ASSUME TypeInv, KeyInv, NEW p \in Processes, WriteFile(p) \/ CannotOpen(p)
    PROVE  KeyInv'
<1> DEFINE next == IF WriteFile(p) THEN Follows[stage[p]] ELSE Otherwise[stage[p]]
<1>1. /\ stage[p] \in Saves /\ GoOn(p, next) /\ next \in {Follows[stage[p]], Otherwise[stage[p]]}
      /\ csr' = csr /\ inbox' = inbox /\ asker' = asker
  BY DEF WriteFile, CannotOpen, netVars
<1>2. /\ stage'[p] = next
      /\ \A q \in Processes : q # p => stage'[q] = stage[q] /\ cert'[q] = cert[q]
      /\ stage[p] \in {"serial", "tls_serial"} => cert'[p] = NewCertificate(p)
      /\ stage[p] \notin {"serial", "tls_serial"} => cert' = cert
  <2> HIDE DEF next
  <2> QED
    BY <1>1, GoOnStep
<1>3. \/ WriteFile(p) /\ disk'[Target(p)] = Value(p)
         /\ \A g \in Files : g # Target(p) => disk'[g] = disk[g]
      \/ ~WriteFile(p) /\ disk' = disk
  <2>1. CASE WriteFile(p)
    <3>1. TypedAs(Target(p), Value(p)) /\ disk' = [disk EXCEPT ![Target(p)] = Value(p)]
      BY <1>1, <2>1, SavedTyped DEF WriteFile, TypeInv
    <3> QED
      BY <2>1, <3>1, FileChange DEF TypeInv
  <2>2. CASE ~WriteFile(p)
    BY <2>2 DEF CannotOpen
  <2> QED
    BY <2>1, <2>2
<1>4. ASSUME NEW a \in Agents
      PROVE  Held(a)'
  <2>0. Held(a) /\ <<"key", a>> \in Files /\ <<"cert", a>> \in Files /\ a \in Processes
    BY AgentFiles DEF KeyInv, Processes
  <2>1. CASE a = p
    <3>1. \/ stage[a] = "key" /\ Target(a) = <<"key", a>> /\ Value(a) = csr[a]
          \/ stage[a] = "cert" /\ Target(a) = <<"cert", a>> /\ Value(a) = cert[a]
      BY <1>1, <2>1, WhatIsSaved, SaveTable, ProcessAssumption
         DEF TypeInv, StageInv, Saving, Generating
    <3>2. CASE ~WriteFile(p)
      <4>1. stage'[a] = "off" /\ disk' = disk
        BY <1>2, <1>3, <2>1, <3>1, <3>2, OtherwiseTable
      <4> QED
        BY <2>0, <4>1, HeldFrame
    <3>3. CASE WriteFile(p) /\ stage[a] = "key"
      <4>1. /\ stage'[a] = "submit" /\ disk'[<<"key", a>>] = csr[a]
            /\ disk'[<<"cert", a>>] = Missing
        BY <1>2, <1>3, <2>0, <2>1, <3>1, <3>3, FollowsTable DEF Held
      <4> QED
        BY <1>1, <4>1 DEF Held
    <3>4. CASE WriteFile(p) /\ stage[a] = "cert"
      <4>1. /\ stage'[a] = "off" /\ disk'[<<"key", a>>] = csr[a] /\ disk'[<<"cert", a>>] = cert[a]
            /\ cert[a].agent = a /\ cert[a].key = csr[a].key
        BY <1>2, <1>3, <2>0, <2>1, <3>1, <3>4, FollowsTable DEF Held
      <4>2. csr[a] \in [key : Nat]
        BY <3>4 DEF TypeInv, StageInv
      <4>3. csr[a] = [key |-> csr[a].key]
        BY <4>2
      <4> QED
        BY <4>1, <4>3 DEF Held
    <3> QED
      BY <3>1, <3>2, <3>3, <3>4
  <2>2. CASE a # p
    <3>1. Target(p) # <<"key", a>> /\ Target(p) # <<"cert", a>>
      BY <1>1, <2>2, WhatIsSaved DEF TypeInv, Saving
    <3> QED
      BY <1>1, <1>2, <1>3, <2>0, <2>2, <3>1, HeldFrame
  <2> QED
    BY <2>1, <2>2
<1>5. "wait" \notin Saves
  BY SaveTable DEF Generating
<1>6. LiveInv'
  <2>1. \A r \in inbox : r.agent \in Processes
    BY DEF TypeInv, TypeOK, Processes
  <2> QED
    BY <1>1, <1>2, <1>5, <2>1 DEF KeyInv, LiveInv
<1>7. Server \in Processes /\ Server \in Authorities
  BY DEF Processes, Authorities
<1>8. stage[Server] \in Serving /\ p = Server =>
         /\ next \in Serving
         /\ \/ stage[p] = "serial" /\ next = "signed"
            \/ stage[p] \in {"signed", "request"} /\ next = "finish"
  BY <1>1, SaveTable, FollowsTable, OtherwiseTable DEF Serving, Generating
<1>9. AskerInv'
  <2>1. asker # None => asker \in Processes /\ asker # p
    BY <1>1, <1>5 DEF TypeInv, TypeOK, Processes, KeyInv, AskerInv
  <2> HIDE DEF next
  <2> QED
    BY <1>1, <1>2, <1>7, <1>8, <2>1 DEF KeyInv, AskerInv
<1>10. AnswerInv'
  <2>1. CASE p = Server
    <3>1. next \in Serving => stage[Server] \in Serving
      BY <1>1, <2>1, SaveTable, FollowsTable, OtherwiseTable, ProcessAssumption
         DEF TypeInv, StageInv, Serving, Generating, Certifying, Authorities
    <3>2. stage[p] = "serial" => /\ cert'[Server].agent = csr[Server].agent
                                 /\ cert'[Server].key = csr[Server].key
      BY <1>2, <2>1, NewCertificateType
    <3>3. next \notin {"serial", "request"}
      BY <1>1, SaveTable, FollowsTable, OtherwiseTable DEF Generating
    <3> HIDE DEF next
    <3> QED
      BY <1>1, <1>2, <1>8, <2>1, <3>1, <3>2, <3>3 DEF KeyInv, AnswerInv
  <2>2. CASE p # Server
    BY <1>1, <1>2, <1>7, <2>2 DEF KeyInv, AnswerInv
  <2> QED
    BY <2>1, <2>2
<1> QED
  BY <1>4, <1>6, <1>9, <1>10 DEF KeyInv

\* The other steps of the server: it answers the agent it took the request from.
LEMMA ServerKeys ==
    ASSUME TypeInv, KeyInv,
           \/ StartServer \/ CheckServerCertificate \/ StartDaemon \/ Answer
           \/ \E a \in Agents : handle_certificate_request(a)
    PROVE  KeyInv'
<1>0. /\ Server \in Processes /\ Server \notin Agents /\ None \notin Agents
      /\ Agents \subseteq Processes /\ asker \in Agents \cup {None}
  BY ProcessAssumption, ContentsAssumption DEF Authorities, Processes, TypeInv, TypeOK
<1>1. CASE StartServer \/ CheckServerCertificate \/ StartDaemon
  <2>1. /\ disk' = disk /\ csr' = csr /\ cert' = cert /\ inbox' = inbox /\ asker' = asker
        /\ \A q \in Processes : q # Server => stage'[q] = stage[q]
        /\ stage[Server] \notin Serving /\ stage'[Server] \notin Serving
    BY <1>0, <1>1
       DEF StartServer, CheckServerCertificate, StartDaemon, TypeInv, TypeOK, netVars, Serving
  <2>2. asker = None
    BY <2>1 DEF KeyInv, AskerInv
  <2>3. \A a \in Agents : Held(a)'
    BY <1>0, <2>1, HeldFrame DEF KeyInv
  <2>4. LiveInv'
    BY <1>0, <2>1 DEF KeyInv, LiveInv, TypeInv, TypeOK
  <2>5. AskerInv' /\ AnswerInv'
    BY <2>1, <2>2 DEF KeyInv, AskerInv, AnswerInv, Serving
  <2> QED
    BY <2>3, <2>4, <2>5 DEF KeyInv
<1>2. CASE Answer
  <2>1. /\ disk' = disk /\ csr' = csr /\ inbox' = inbox /\ asker' = None
        /\ stage[Server] = "finish"
    BY <1>2 DEF Answer
  <2>2. /\ stage'[Server] = "idle"
        /\ \A q \in Processes : q \notin {Server, asker} => stage'[q] = stage[q] /\ cert'[q] = cert[q]
        /\ asker # None => /\ cert'[asker] = cert[Server]
                           /\ stage'[asker] = IF cert[Server] = None THEN "off" ELSE "cert"
    BY <1>0, <1>2 DEF Answer, TypeInv, TypeOK
  <2>3. ASSUME NEW a \in Agents
        PROVE  Held(a)'
    <3>0. Held(a) /\ a # Server
      BY <1>0 DEF KeyInv
    <3>1. CASE a # asker
      BY <1>0, <2>1, <2>2, <3>0, <3>1, HeldFrame
    <3>2. CASE a = asker /\ cert[Server] = None
      BY <1>0, <2>1, <2>2, <3>0, <3>2, HeldFrame
    <3>3. CASE a = asker /\ cert[Server] # None
      <4>1. /\ cert[Server].agent = csr[Server].agent /\ cert[Server].key = csr[Server].key
            /\ csr[Server] = [agent |-> a, key |-> csr[a].key] /\ stage[a] = "wait"
        BY <1>0, <2>1, <3>3 DEF KeyInv, AskerInv, AnswerInv, Serving
      <4>2. cert'[a].agent = a /\ cert'[a].key = csr[a].key /\ stage'[a] = "cert"
        BY <1>0, <2>2, <3>3, <4>1
      <4> QED
        BY <2>1, <3>0, <4>1, <4>2 DEF Held
    <3> QED
      BY <3>1, <3>2, <3>3
  <2>4. LiveInv'
    BY <1>0, <2>1, <2>2 DEF KeyInv, LiveInv, AskerInv, TypeInv, TypeOK
  <2>5. AskerInv' /\ AnswerInv'
    BY <2>1, <2>2 DEF AskerInv, AnswerInv, Serving
  <2> QED
    BY <2>3, <2>4, <2>5 DEF KeyInv
<1>3. ASSUME NEW a \in Agents, handle_certificate_request(a)
      PROVE  KeyInv'
  <2>1. PICK r \in inbox : /\ r.agent = a /\ inbox' = inbox \ {r}
                           /\ asker' = IF r.live THEN a ELSE None
                           /\ csr' = [csr EXCEPT ![Server] = [agent |-> r.agent, key |-> r.key]]
    BY <1>3 DEF handle_certificate_request
  <2>2. PICK s \in {"finish", "serial", "request"} : stage' = [stage EXCEPT ![Server] = s]
    BY <1>3 DEF handle_certificate_request
  <2>3. /\ disk' = disk /\ stage[Server] = "idle"
        /\ stage'[Server] = s /\ \A q \in Processes : q # Server => stage'[q] = stage[q]
        /\ csr'[Server] = [agent |-> a, key |-> r.key]
        /\ \A q \in Processes : q # Server => csr'[q] = csr[q]
        /\ cert'[Server] = None /\ \A q \in Processes : q # Server => cert'[q] = cert[q]
    BY <1>0, <1>3, <2>1, <2>2 DEF handle_certificate_request, TypeInv, TypeOK
  <2>4. \A b \in Agents : Held(b)'
    BY <1>0, <2>3, HeldFrame DEF KeyInv
  <2>5. LiveInv'
    BY <1>0, <2>1, <2>3 DEF KeyInv, LiveInv, TypeInv, TypeOK
  <2>6. AskerInv'
    <3> SUFFICES ASSUME r.live PROVE AskerInv'
      BY <2>1 DEF AskerInv
    <3>1. asker' = a /\ stage[a] = "wait" /\ csr[a].key = r.key
      BY <2>1 DEF KeyInv, LiveInv
    <3>2. stage'[a] = "wait" /\ csr'[Server] = [agent |-> a, key |-> csr'[a].key]
      BY <1>0, <2>3, <3>1
    <3>3. ASSUME NEW x \in inbox', x.live, x.agent = a PROVE FALSE
      <4>1. x \in inbox /\ x # r /\ x.key = r.key
        BY <2>1, <3>1, <3>3 DEF KeyInv, LiveInv
      <4>2. /\ x \in [agent : Agents, key : Nat, live : BOOLEAN]
            /\ r \in [agent : Agents, key : Nat, live : BOOLEAN]
        BY <2>1, <4>1 DEF TypeInv, TypeOK
      <4>3. x.live = TRUE /\ r.live = TRUE
        BY <3>3, <4>2
      <4>4. /\ x = [agent |-> x.agent, key |-> x.key, live |-> x.live]
            /\ r = [agent |-> r.agent, key |-> r.key, live |-> r.live]
        BY <4>2
      <4> QED
        BY <2>1, <3>3, <4>1, <4>3, <4>4
    <3> QED
      BY <2>3, <3>1, <3>2, <3>3 DEF AskerInv, Serving
  <2>7. AnswerInv'
    BY <2>3 DEF AnswerInv
  <2> QED
    BY <2>4, <2>5, <2>6, <2>7 DEF KeyInv
<1> QED
  BY <1>1, <1>2, <1>3

\* puppetc-ca touches neither the files of an agent nor a request on its way.
LEMMA CliKeys ==
    ASSUME TypeInv, KeyInv, cmd_sign \/ cmd_revoke \/ cmd_clean \/ SignNext \/ DeleteSigned
    PROVE  KeyInv'
<1>0. /\ Cli \in Processes /\ Cli \notin Agents /\ Server # Cli /\ Server \in Processes
      /\ Agents \subseteq Processes
  BY ProcessAssumption DEF Authorities, Processes
<1>1. /\ inbox' = inbox /\ asker' = asker
      /\ \A q \in Processes : q # Cli => /\ stage'[q] = stage[q] /\ csr'[q] = csr[q]
                                         /\ cert'[q] = cert[q]
  <2>1. CASE cmd_revoke \/ cmd_clean
    BY <2>1 DEF cmd_revoke, cmd_clean, Delete, localVars, netVars
  <2>2. CASE cmd_sign \/ DeleteSigned
    BY <1>0, <2>2 DEF cmd_sign, DeleteSigned, netVars, TypeInv, TypeOK
  <2>3. CASE SignNext
    BY <1>0, <2>3 DEF SignNext, netVars, TypeInv, TypeOK
  <2> QED
    BY <2>1, <2>2, <2>3
<1>2. \A a \in Agents : /\ disk'[<<"key", a>>] = disk[<<"key", a>>]
                        /\ disk'[<<"cert", a>>] = disk[<<"cert", a>>]
  <2>1. CASE cmd_revoke \/ cmd_clean
    <3>1. PICK kind \in {"signed", "requests"} : Delete(kind)
      BY <2>1 DEF cmd_revoke, cmd_clean
    <3>2. PICK b \in Agents : disk' = [disk EXCEPT ![<<kind, b>>] = Missing]
      BY <3>1 DEF Delete
    <3> QED
      BY <3>2, AgentFiles DEF TypeInv, TypeOK
  <2>2. CASE DeleteSigned
    BY <2>2, AgentFiles DEF DeleteSigned, TypeInv, TypeOK
  <2>3. CASE cmd_sign \/ SignNext
    BY <2>3 DEF cmd_sign, SignNext
  <2> QED
    BY <2>1, <2>2, <2>3
<1>3. \A a \in Agents : Held(a)'
  BY <1>0, <1>1, <1>2, HeldFrame DEF KeyInv
<1>4. LiveInv' /\ AskerInv' /\ AnswerInv'
  BY <1>0, <1>1 DEF KeyInv, LiveInv, AskerInv, AnswerInv, TypeInv, TypeOK
<1> QED
  BY <1>3, <1>4 DEF KeyInv

\* Nobody waits for the answer to a request whose agent has gone.
LEMMA Silenced ==
    ASSUME TypeInv, NEW p, inbox' = {[r EXCEPT !.live = @ /\ r.agent # p] : r \in inbox}
    PROVE  \A x \in inbox' : x.live =>
              x.agent # p /\ \E r \in inbox : r.live /\ r.agent = x.agent /\ r.key = x.key
<1> SUFFICES ASSUME NEW x \in inbox', x.live
             PROVE  x.agent # p /\ \E r \in inbox : r.live /\ r.agent = x.agent /\ r.key = x.key
  OBVIOUS
<1>1. PICK r \in inbox : x = [r EXCEPT !.live = @ /\ r.agent # p]
  OBVIOUS
<1>2. r \in [agent : Agents, key : Nat, live : BOOLEAN]
  BY DEF TypeInv, TypeOK
<1>3. x.agent = r.agent /\ x.key = r.key /\ x.live = (r.live /\ r.agent # p)
  BY <1>1, <1>2
<1> QED
  BY <1>3

\* An agent asks with the key it keeps.
LEMMA AgentKeys ==
    ASSUME TypeInv, KeyInv, NEW a \in Agents,
           ensure_certificate(a) \/ submit_certificate_request(a) \/ Disconnected(a) \/ Timeout(a)
    PROVE  KeyInv'
<1>0. /\ a \in Processes /\ a # Server /\ Server \in Processes /\ Agents \subseteq Processes
      /\ asker \in Agents \cup {None}
  BY ProcessAssumption DEF Processes, Authorities, TypeInv, TypeOK
<1>1. /\ disk' = disk /\ cert' = cert
      /\ \A q \in Processes : q # a => stage'[q] = stage[q] /\ csr'[q] = csr[q]
  BY AgentType
<1>2. \A b \in Agents : b # a => Held(b)'
  BY <1>0, <1>1, HeldFrame DEF KeyInv
<1>3. AnswerInv'
  BY <1>0, <1>1 DEF KeyInv, AnswerInv
<1>4. CASE ensure_certificate(a)
  <2>1. /\ stage[a] = "off" /\ disk[<<"cert", a>>] = Missing /\ inbox' = inbox /\ asker' = asker
        /\ \/ stage'[a] = "key"
           \/ stage'[a] = "submit" /\ csr'[a] = disk[<<"key", a>>]
    BY <1>0, <1>4 DEF ensure_certificate, netVars, TypeInv, TypeOK
  <2>2. Held(a)'
    BY <1>1, <2>1 DEF Held
  <2>3. LiveInv' /\ AskerInv'
    BY <1>0, <1>1, <2>1 DEF KeyInv, LiveInv, AskerInv, TypeInv, TypeOK
  <2> QED
    BY <1>2, <1>3, <2>2, <2>3 DEF KeyInv
<1>5. CASE submit_certificate_request(a)
  <2>1. /\ stage[a] = "submit" /\ csr' = csr /\ asker' = asker
        /\ \/ /\ inbox' = inbox \cup {[agent |-> a, key |-> csr[a].key, live |-> TRUE]}
              /\ stage'[a] = "wait"
           \/ stage'[a] = "off" /\ inbox' = inbox
    BY <1>0, <1>5 DEF submit_certificate_request, TypeInv, TypeOK
  <2>2. Held(a)'
    BY <1>1, <2>1 DEF KeyInv, Held
  <2>3. LiveInv'
    BY <1>0, <1>1, <2>1 DEF KeyInv, LiveInv, TypeInv, TypeOK
  <2>4. AskerInv'
    BY <1>0, <1>1, <2>1 DEF KeyInv, AskerInv, TypeInv, TypeOK
  <2> QED
    BY <1>2, <1>3, <2>2, <2>3, <2>4 DEF KeyInv
<1>6. CASE Disconnected(a)
  <2>1. /\ stage'[a] = "off" /\ asker # a /\ inbox' = inbox /\ asker' = asker
        /\ \A r \in inbox : r.live => r.agent # a
    BY <1>0, <1>6 DEF Disconnected, netVars, TypeInv, TypeOK
  <2>2. Held(a)'
    BY <1>1, <2>1, HeldFrame DEF KeyInv
  <2>3. LiveInv' /\ AskerInv'
    BY <1>0, <1>1, <2>1 DEF KeyInv, LiveInv, AskerInv, TypeInv, TypeOK
  <2> QED
    BY <1>2, <1>3, <2>2, <2>3 DEF KeyInv
<1>7. CASE Timeout(a)
  <2>1. /\ stage'[a] = "off" /\ asker' = (IF asker = a THEN None ELSE asker)
        /\ inbox' = {[r EXCEPT !.live = @ /\ r.agent # a] : r \in inbox}
    BY <1>0, <1>7 DEF Timeout, TypeInv, TypeOK
  <2>2. Held(a)'
    BY <1>1, <2>1, HeldFrame DEF KeyInv
  <2>3. \A x \in inbox' : x.live =>
           x.agent # a /\ \E r \in inbox : r.live /\ r.agent = x.agent /\ r.key = x.key
    BY <2>1, Silenced
  <2>4. LiveInv' /\ AskerInv'
    BY <1>0, <1>1, <2>1, <2>3 DEF KeyInv, LiveInv, AskerInv, TypeInv, TypeOK
  <2> QED
    BY <1>2, <1>3, <2>2, <2>4 DEF KeyInv
<1> QED
  BY <1>4, <1>5, <1>6, <1>7

LEMMA CrashKeys ==
    ASSUME TypeInv, KeyInv, NEW p \in Processes, Crash(p)
    PROVE  KeyInv'
<1>0. Server \in Processes /\ Agents \subseteq Processes /\ asker \in Agents \cup {None}
      /\ Server \notin Agents /\ None \notin Agents
  BY ProcessAssumption, ContentsAssumption DEF Processes, Authorities, TypeInv, TypeOK
<1>1. /\ disk' = disk /\ stage'[p] = "off"
      /\ \A q \in Processes : q # p => /\ stage'[q] = stage[q] /\ csr'[q] = csr[q]
                                       /\ cert'[q] = cert[q]
      /\ asker' = (IF p \in {Server, asker} THEN None ELSE asker)
  BY CrashType DEF Crash
<1>2. \A a \in Agents : Held(a)'
  BY <1>0, <1>1, HeldFrame DEF KeyInv
<1>3. \A x \in inbox' : x.live =>
         /\ x.agent # p /\ p # Server
         /\ \E r \in inbox : r.live /\ r.agent = x.agent /\ r.key = x.key
  <2>1. CASE p = Server
    BY <2>1 DEF Crash
  <2>2. CASE p # Server
    <3>1. inbox' = {[r EXCEPT !.live = @ /\ r.agent # p] : r \in inbox}
      BY <2>2 DEF Crash
    <3> QED
      BY <2>2, <3>1, Silenced
  <2> QED
    BY <2>1, <2>2
<1>4. LiveInv'
  <2>1. \A r \in inbox : r.agent \in Processes
    BY <1>0 DEF TypeInv, TypeOK
  <2> QED
    BY <1>1, <1>3, <2>1 DEF KeyInv, LiveInv
<1>5. AskerInv'
  BY <1>0, <1>1, <1>3 DEF KeyInv, AskerInv
<1>6. AnswerInv'
  BY <1>0, <1>1 DEF KeyInv, AnswerInv, Serving
<1> QED
  BY <1>2, <1>4, <1>5, <1>6 DEF KeyInv
-----------------------------------------------------------------------------
(* Types and keys, in every state.                                         *)

LEMMA InitKeepInv == Init => KeepInv
<1> SUFFICES ASSUME Init PROVE KeepInv
  OBVIOUS
<1>1. \A f \in Files : disk[f] = Missing
  BY DEF Init
<1>2. <<"serial", Server>> \in Files /\ \A a \in Agents : <<"requests", a>> \in Files
  BY DEF Files, CAKinds, NameKinds
<1>3. /\ Agents \subseteq Processes /\ Server \in Processes /\ Cli \in Processes
      /\ \A p \in Processes : stage[p] = "off"
  BY DEF Init, Processes, Authorities
<1>4. Missing \in Contents /\ "off" \in Stages
  BY DEF Contents, Stages
<1>5. HasWhatItSaves
  BY <1>3 DEF HasWhatItSaves, Processes
<1>6. disk \in [Files -> Contents] /\ stage \in [Processes -> Stages] /\ issued \in Seq(Certificates)
  BY <1>4 DEF Init
<1>7. TypeOK
  <2>1. /\ opened \in [Processes -> BOOLEAN] /\ ca_ctx \in BOOLEAN
        /\ serial_number \in [Authorities -> Nat \ {0}]
    <3>1. serial_number = [p \in Authorities |-> 1] /\ 1 \in Nat \ {0}
      BY DEF Init
    <3>2. serial_number \in [Authorities -> Nat \ {0}]
      BY <3>1, Zenon
    <3>3. opened = [p \in Processes |-> FALSE] /\ FALSE \in BOOLEAN /\ ca_ctx \in BOOLEAN
      BY DEF Init
    <3>4. opened \in [Processes -> BOOLEAN]
      BY <3>3, Zenon
    <3> QED
      BY <3>2, <3>3, <3>4
  <2>3. /\ csr \in [Processes -> Requests \cup [key : Nat] \cup {None}]
        /\ cert \in [Processes -> Certificates \cup {None}]
    <3>1. /\ None \in Requests \cup [key : Nat] \cup {None} /\ None \in Certificates \cup {None}
          /\ csr = [p \in Processes |-> None] /\ cert = [p \in Processes |-> None]
      BY DEF Init
    <3> QED
      BY <3>1, Zenon
  <2>2. /\ asker \in Agents \cup {None} /\ batch \subseteq Agents /\ keys \in Nat
        /\ inbox \subseteq [agent : Agents, key : Nat, live : BOOLEAN]
        /\ faults \in 0..MaxFaults /\ commands \in 0..MaxCommands
    BY ProcessAssumption DEF Init
  <2> QED
    BY <1>5, <1>6, <2>1, <2>2, <2>3 DEF TypeOK, HasWhatItSaves
<1>8. StageInv
  BY <1>3 DEF StageInv, Generating, Certifying, Serving
<1>9. FilesTyped
  BY <1>1, <1>2, AgentFiles DEF FilesTyped
<1>10. \A a \in Agents : Held(a)
  BY <1>1, <1>3, AgentFiles DEF Held
<1>11. LiveInv /\ AskerInv /\ AnswerInv
  BY <1>3 DEF Init, LiveInv, AskerInv, AnswerInv, Serving
<1> QED
  BY <1>7, <1>8, <1>9, <1>10, <1>11 DEF KeepInv, KeyInv

\* The steps of the system, told apart by who takes them.
LEMMA Steps ==
    ASSUME Next
    PROVE  \/ StartServer \/ CheckServerCertificate \/ StartDaemon \/ Answer
           \/ \E a \in Agents : handle_certificate_request(a)
           \/ cmd_sign \/ cmd_revoke \/ cmd_clean \/ SignNext \/ DeleteSigned
           \/ \E a \in Agents : \/ ensure_certificate(a) \/ submit_certificate_request(a)
                                \/ Disconnected(a) \/ Timeout(a)
           \/ \E p \in Processes : OpenFile(p)
           \/ \E p \in Processes : WriteFile(p) \/ CannotOpen(p)
           \/ \E p \in Processes : Crash(p)
  BY DEF Next, ServerStep, CliStep, AgentStep, Processes, Authorities

LEMMA StepKeepInv == KeepInv /\ [Next]_vars => KeepInv'
<1> SUFFICES ASSUME KeepInv, [Next]_vars PROVE KeepInv'
  OBVIOUS
<1>0. TypeInv /\ KeyInv
  BY DEF KeepInv, TypeInv
<1>1. CASE \/ StartServer \/ CheckServerCertificate \/ StartDaemon \/ Answer
           \/ \E a \in Agents : handle_certificate_request(a)
  <2>1. TypeInv'
    BY <1>0, <1>1, ServerType
  <2>2. KeyInv'
    BY <1>0, <1>1, ServerKeys
  <2> QED
    BY <2>1, <2>2 DEF KeepInv, TypeInv
<1>2. CASE cmd_sign \/ cmd_revoke \/ cmd_clean \/ SignNext \/ DeleteSigned
  <2>1. TypeInv'
    BY <1>0, <1>2, CliType
  <2>2. KeyInv'
    BY <1>0, <1>2, CliKeys
  <2> QED
    BY <2>1, <2>2 DEF KeepInv, TypeInv
<1>3. ASSUME NEW a \in Agents,
             \/ ensure_certificate(a) \/ submit_certificate_request(a)
             \/ Disconnected(a) \/ Timeout(a)
      PROVE  KeepInv'
  <2>1. TypeInv'
    BY <1>0, <1>3, AgentType
  <2>2. KeyInv'
    BY <1>0, <1>3, AgentKeys
  <2> QED
    BY <2>1, <2>2 DEF KeepInv, TypeInv
<1>4. ASSUME NEW p \in Processes, OpenFile(p) PROVE KeepInv'
  BY <1>0, <1>4, OpenFileType, OpenFileKeys DEF KeepInv, TypeInv
<1>5. ASSUME NEW p \in Processes, WriteFile(p) \/ CannotOpen(p) PROVE KeepInv'
  BY <1>0, <1>5, GoOnType, GoOnKeys DEF KeepInv, TypeInv
<1>6. ASSUME NEW p \in Processes, Crash(p) PROVE KeepInv'
  BY <1>0, <1>6, CrashType, CrashKeys DEF KeepInv, TypeInv
<1>7. CASE UNCHANGED vars
  <2>1. TypeInv'
    <3>1. TypeOK'
      BY <1>0, <1>7 DEF TypeInv, TypeOK, vars, localVars, netVars, countVars
    <3>2. StageInv' /\ FilesTyped'
      BY <1>0, <1>7 DEF TypeInv, StageInv, FilesTyped, vars, localVars
    <3> QED
      BY <3>1, <3>2 DEF TypeInv
  <2>2. KeyInv'
    BY <1>0, <1>7 DEF KeyInv, Held, LiveInv, AskerInv, AnswerInv, vars, localVars, netVars
  <2> QED
    BY <2>1, <2>2 DEF KeepInv, TypeInv
<1> QED
  BY <1>1, <1>2, <1>3, <1>4, <1>5, <1>6, <1>7, Steps

\* Whatever the processes do, and however often they time out, crash and try
\* again, every variable keeps its type, who saves has what it saves, and the
\* certificate an agent keeps (ensure_certificate, handle_certificate_request) is
\* for its certname and for the key it keeps.
THEOREM AgentsKeepTheirOwn == Spec => [](TypeOK /\ KeyMatches)
<1>1. KeepInv => TypeOK /\ KeyMatches
  BY DEF KeepInv, KeyInv, Held, KeyMatches
<1> QED
  BY <1>1, InitKeepInv, StepKeepInv, PTL DEF Spec
-----------------------------------------------------------------------------
(* Serial numbers.                                                         *)

\* The three files the serial numbers depend on, unless one of them is named.
CAFilesKept(except) ==
    \A k \in {"ca_cert", "ca_key", "serial"} \ except :
        disk'[<<k, Server>>] = disk[<<k, Server>>]

\* What an authority in use is sure of, whatever p does.
MayUse(p) ==
    /\ CALoads /\ serial_number[p] > 1 /\ Below(serial_number[p])
    /\ stage[p] \in {"serial", "tls_serial"} =>
          serial_number[p] > 2 /\ Below(serial_number[p] - 1)

LEMMA SerialTypes ==
    ASSUME TypeInv
    PROVE  /\ SerialFile \in [serial : Nat \ {0}] \cup {Missing, Torn}
           /\ \A p \in Authorities : serial_number[p] \in Nat \ {0}
           /\ \A i \in DOMAIN issued : issued[i].serial \in Nat
           /\ Server \in Authorities /\ Cli \in Authorities /\ Server # Cli
           /\ Authorities \subseteq Processes /\ Agents \subseteq Processes
           /\ \A a \in Agents : a # Server /\ a # Cli
<1>1. \A i \in DOMAIN issued : issued[i] \in Certificates
  BY DEF TypeInv, TypeOK
<1> QED
  BY <1>1, ProcessAssumption
     DEF TypeInv, TypeOK, FilesTyped, SerialFile, Authorities, Processes, Certificates

\* Readable files are Missing or Torn no more.
LEMMA ReadableValues ==
    /\ Missing # Torn /\ ~Readable(Missing) /\ ~Readable(Torn)
    /\ Readable([key |-> 0]) /\ \A n \in Nat : Readable([serial |-> n])
<1>1. \A c \in [key : Nat] \cup [serial : Nat] : c # Missing /\ c # Torn
  BY ContentsAssumption
<1>2. [key |-> 0] \in [key : Nat] /\ \A n \in Nat : [serial |-> n] \in [serial : Nat]
  OBVIOUS
<1> QED
  BY <1>1, <1>2, ContentsAssumption DEF Readable

\* A step that is nothing to the authorities.
LEMMA SerialFrame ==
    ASSUME SafeInv, CAFilesKept({}), issued' = issued, ca_ctx' = ca_ctx,
           \A q \in Authorities : stage'[q] = stage[q] /\ serial_number'[q] = serial_number[q]
    PROVE  SafeInv'
<1>1. /\ SerialFile' = SerialFile /\ disk'[<<"ca_cert", Server>>] = disk[<<"ca_cert", Server>>]
      /\ disk'[<<"ca_key", Server>>] = disk[<<"ca_key", Server>>] /\ CALoads' = CALoads
  BY DEF CAFilesKept, SerialFile, CALoads
<1>2. /\ Server \in Authorities /\ Cli \in Authorities
      /\ stage'[Server] = stage[Server] /\ stage'[Cli] = stage[Cli]
  BY DEF Authorities
<1>3. UniqueSerials' /\ PersistedAhead'
  BY <1>1 DEF SafeInv, UniqueSerials, PersistedAhead, puppet_ca_load_serial, SerialFile
<1>4. \A p \in Authorities : InUse(p)' = InUse(p) /\ (Below(serial_number[p]))' = Below(serial_number[p])
                             /\ (Below(serial_number[p] - 1))' = Below(serial_number[p] - 1)
  BY DEF InUse, Below
<1>5. SerialInv'
  BY <1>1, <1>2, <1>4 DEF SafeInv, SerialInv, Readable
<1> QED
  BY <1>3, <1>5 DEF SafeInv

\* An authority goes on to a stage where it generates nothing, while the serial
\* file can be read and the other authority, q, does not run.
LEMMA AuthorityMoves ==
    ASSUME TypeInv, SafeInv, CAFilesKept({}), issued' = issued,
           NEW p \in Authorities, NEW q \in Authorities, p # q,
           stage[q] = "off", stage'[q] = "off",
           CALoads => Readable(SerialFile), stage'[p] \notin Generating, InUse(p)' => MayUse(p)'
    PROVE  SafeInv'
<1>1. /\ SerialFile' = SerialFile /\ disk'[<<"ca_cert", Server>>] = disk[<<"ca_cert", Server>>]
      /\ disk'[<<"ca_key", Server>>] = disk[<<"ca_key", Server>>] /\ CALoads' = CALoads
  BY DEF CAFilesKept, SerialFile, CALoads
<1>2. /\ Server \in Authorities /\ Cli \in Authorities /\ Server # Cli
      /\ {p, q} = {Server, Cli} /\ Authorities = {p, q}
  BY SerialTypes DEF Authorities
<1>3. UniqueSerials' /\ PersistedAhead'
  BY <1>1 DEF SafeInv, UniqueSerials, PersistedAhead, puppet_ca_load_serial, SerialFile
<1>4. stage'[Server] \notin Generating /\ ~InUse(q)'
  BY <1>2 DEF InUse, Generating
<1>5. \A a \in Authorities : InUse(a)' => MayUse(a)'
  BY <1>2, <1>4
<1>6. stage'[Server] = "off" \/ stage'[Cli] = "off"
  BY <1>2
<1>7. SerialInv'
  <2>1. /\ Readable(SerialFile)' => SerialFile'.serial > 1
        /\ CALoads' => Readable(SerialFile)'
        /\ issued' # <<>> => CALoads'
        /\ disk'[<<"ca_cert", Server>>] = Missing => disk'[<<"ca_key", Server>>] = Missing
    BY <1>1 DEF SafeInv, SerialInv, Readable
  <2> QED
    BY <1>2, <1>4, <1>5, <1>6, <2>1 DEF SerialInv, MayUse, Generating
<1> QED
  BY <1>3, <1>7 DEF SafeInv

\* Whoever runs an authority runs it alone.
LEMMA RunsAlone ==
    ASSUME ~Concurrent, TypeInv, SafeInv, NEW p \in Authorities, stage[p] # "off" \/ MayRun(p)
    PROVE  \E q \in Authorities : /\ p # q /\ Authorities = {p, q} /\ stage[q] = "off"
  BY SerialTypes DEF SafeInv, SerialInv, MayRun, Authorities

\* The steps an authority takes without saving: it starts, takes a serial
\* number, goes on without one, or ends.
LEMMA StartServerSafe ==
    ASSUME ~Concurrent, TypeInv, SafeInv, StartServer
    PROVE  SafeInv'
<1>1. /\ Server \in Authorities /\ Cli \in Authorities /\ Server # Cli /\ stage[Cli] = "off"
      /\ Server \in Processes /\ Cli \in Processes /\ Authorities = {Server, Cli}
  BY SerialTypes, RunsAlone DEF StartServer, MayRun, Authorities
<1>2. /\ CAFilesKept({}) /\ issued' = issued /\ stage[Server] = "off" /\ stage'[Cli] = "off"
  BY <1>1 DEF StartServer, CAFilesKept, TypeInv, TypeOK
<1>3. CALoads => Readable(SerialFile)
  BY <1>1, <1>2 DEF SafeInv, SerialInv
<1>4. CASE CAExists
  <2>1. /\ ca_ctx' = CALoads /\ serial_number'[Server] = puppet_ca_load_serial
        /\ stage'[Server] \in {"tls", "start"}
    BY <1>1, <1>4 DEF StartServer, TypeInv, TypeOK, CALoads
  <2>2. CALoads => MayUse(Server)'
    <3> SUFFICES ASSUME CALoads PROVE MayUse(Server)'
      OBVIOUS
    <3>1. serial_number'[Server] = SerialFile.serial
      BY <1>3, <2>1 DEF puppet_ca_load_serial, SerialFile, Readable
    <3>2. SerialFile.serial > 1 /\ Below(SerialFile.serial)
      BY <1>3 DEF SafeInv, SerialInv, PersistedAhead, Below, puppet_ca_load_serial, SerialFile,
                  Readable
    <3>3. CALoads'
      BY <1>2 DEF CALoads, CAFilesKept
    <3>4. (Below(serial_number[Server]))'
      BY <1>2, <3>1, <3>2 DEF Below
    <3> QED
      BY <2>1, <3>1, <3>2, <3>3, <3>4 DEF MayUse
  <2> QED
    BY <1>1, <1>2, <1>3, <2>1, <2>2, AuthorityMoves DEF InUse, Generating
<1>5. CASE ~CAExists
  <2>1. /\ serial_number'[Server] = 2 /\ stage'[Server] = "ca_cert" /\ ca_ctx' = TRUE
    BY <1>1, <1>5 DEF StartServer, TypeInv, TypeOK
  <2>2. ~CALoads /\ issued = <<>> /\ disk[<<"ca_key", Server>>] = Missing
    BY <1>5 DEF CAExists, CALoads, SafeInv, SerialInv
  <2>3. /\ SerialFile' = SerialFile /\ disk'[<<"ca_cert", Server>>] = disk[<<"ca_cert", Server>>]
        /\ disk'[<<"ca_key", Server>>] = disk[<<"ca_key", Server>>] /\ CALoads' = CALoads
    BY <1>2 DEF CAFilesKept, SerialFile, CALoads
  <2>4. UniqueSerials' /\ PersistedAhead'
    BY <1>2, <2>2 DEF UniqueSerials, PersistedAhead
  <2>5. (Below(serial_number[Server]))' /\ ~InUse(Cli)'
    BY <1>1, <1>2, <2>2 DEF Below, InUse
  <2>6. SerialInv'
    BY <1>1, <1>2, <2>1, <2>2, <2>3, <2>5 DEF SafeInv, SerialInv, Readable, InUse, Generating
  <2> QED
    BY <2>4, <2>6 DEF SafeInv
<1> QED
  BY <1>4, <1>5

\* From its stage an authority in use goes on to another one, having taken a
\* serial number or not.
LEMMA GoesOn ==
    ASSUME ~Concurrent, TypeInv, SafeInv, NEW p \in Authorities, CAFilesKept({}), issued' = issued,
           stage[p] \notin Generating \cup {"off", "serial", "tls_serial"},
           \A r \in Authorities : r # p => stage'[r] = stage[r],
           ca_ctx' = ca_ctx, stage'[p] \notin Generating,
           \/ serial_number'[p] = serial_number[p] + 1
           \/ serial_number'[p] = serial_number[p] /\ stage'[p] \notin {"serial", "tls_serial"},
           InUse(p)' => InUse(p)
    PROVE  SafeInv'
<1>1. PICK q \in Authorities : p # q /\ Authorities = {p, q} /\ stage[q] = "off"
  BY RunsAlone
<1>2. stage'[q] = "off"
  BY <1>1
<1>3. CALoads => Readable(SerialFile)
  BY <1>1, SerialTypes DEF SafeInv, SerialInv, Generating
<1>4. CALoads' = CALoads
  BY DEF CALoads, CAFilesKept
<1>5. InUse(p) => CALoads /\ serial_number[p] > 1 /\ Below(serial_number[p])
  BY <1>1, SerialTypes DEF SafeInv, SerialInv
<1>6. InUse(p) => MayUse(p)'
  <2>1. /\ serial_number[p] \in Nat /\ \A i \in DOMAIN issued : issued[i].serial \in Nat
    BY SerialTypes
  <2>2. CASE serial_number'[p] = serial_number[p] + 1
    <3>1. serial_number'[p] - 1 = serial_number[p]
      BY <2>1, <2>2
    <3>2. InUse(p) => serial_number'[p] > 2 /\ (Below(serial_number[p]))' /\ (Below(serial_number[p] - 1))'
      BY <1>5, <2>1, <2>2, <3>1 DEF Below
    <3> QED
      BY <1>4, <1>5, <2>1, <2>2, <3>2 DEF MayUse
  <2>3. CASE serial_number'[p] = serial_number[p] /\ stage'[p] \notin {"serial", "tls_serial"}
    <3>1. InUse(p) => (Below(serial_number[p]))'
      BY <1>5, <2>3 DEF Below
    <3> QED
      BY <1>4, <1>5, <2>3, <3>1 DEF MayUse
  <2> QED
    BY <2>2, <2>3
<1> QED
  BY <1>1, <1>2, <1>3, <1>6, AuthorityMoves

LEMMA ServerSafe ==
    ASSUME ~Concurrent, TypeInv, SafeInv,
           \/ CheckServerCertificate \/ StartDaemon \/ Answer
           \/ \E a \in Agents : handle_certificate_request(a)
    PROVE  SafeInv'
<1>0. /\ Server \in Authorities /\ Server \in Processes /\ Cli \in Processes /\ Server # Cli
      /\ \A a \in Agents : a # Cli /\ a # Server /\ a \in Processes
      /\ \A r \in Authorities : r # Server => r = Cli
  BY SerialTypes DEF Authorities
<1>1. CAFilesKept({}) /\ issued' = issued /\ ca_ctx' = ca_ctx
  BY DEF CheckServerCertificate, StartDaemon, Answer, handle_certificate_request, CAFilesKept
<1>2. CASE CheckServerCertificate
  <2>1. /\ stage[Server] = "tls" /\ stage'[Cli] = stage[Cli]
        /\ \/ stage'[Server] = "start" /\ serial_number'[Server] = serial_number[Server]
           \/ stage'[Server] = "tls_serial" /\ serial_number'[Server] = serial_number[Server] + 1
    BY <1>0, <1>2 DEF CheckServerCertificate, puppet_ca_get_next_serial, TypeInv, TypeOK
  <2> QED
    BY <1>0, <1>1, <2>1, GoesOn DEF InUse, Generating
<1>3. CASE Answer
  <2>1. /\ stage[Server] = "finish" /\ stage'[Cli] = stage[Cli] /\ stage'[Server] = "idle"
        /\ serial_number' = serial_number
    <3>1. asker \in Agents \cup {None}
      BY DEF TypeInv, TypeOK
    <3>2. CASE asker = None
      BY <1>0, <1>3, <3>2 DEF Answer, TypeInv, TypeOK
    <3>3. CASE asker # None
      BY <1>0, <1>3, <3>1, <3>3 DEF Answer, TypeInv, TypeOK
    <3> QED
      BY <3>2, <3>3
  <2> QED
    BY <1>0, <1>1, <2>1, GoesOn DEF InUse, Generating
<1>4. ASSUME NEW a \in Agents, handle_certificate_request(a)
      PROVE  SafeInv'
  <2>1. /\ stage[Server] = "idle" /\ stage'[Cli] = stage[Cli]
        /\ \/ /\ stage'[Server] \in {"finish", "request"}
              /\ serial_number'[Server] = serial_number[Server]
           \/ stage'[Server] = "serial" /\ serial_number'[Server] = serial_number[Server] + 1
    BY <1>0, <1>4 DEF handle_certificate_request, puppet_ca_get_next_serial, TypeInv, TypeOK
  <2> QED
    BY <1>0, <1>1, <2>1, GoesOn DEF InUse, Generating
<1>5. CASE StartDaemon
  <2>1. /\ stage[Server] = "start" /\ stage'[Cli] = stage[Cli] /\ stage'[Server] \in {"idle", "off"}
        /\ serial_number' = serial_number
    BY <1>0, <1>5 DEF StartDaemon, TypeInv, TypeOK
  <2> QED
    BY <1>0, <1>1, <2>1, GoesOn DEF InUse, Generating
<1> QED
  BY <1>2, <1>3, <1>4, <1>5

LEMMA CliSafe ==
    ASSUME ~Concurrent, TypeInv, SafeInv, cmd_sign \/ cmd_revoke \/ cmd_clean \/ SignNext \/ DeleteSigned
    PROVE  SafeInv'
<1>0. /\ Cli \in Authorities /\ Server \in Processes /\ Cli \in Processes /\ Server # Cli
      /\ \A r \in Authorities : r # Cli => r = Server
      /\ Server \in Authorities /\ Authorities = {Cli, Server}
  BY SerialTypes DEF Authorities
<1>1. issued' = issued /\ ca_ctx' = ca_ctx
  BY DEF cmd_sign, cmd_revoke, cmd_clean, Delete, SignNext, DeleteSigned
<1>2. CAFilesKept({})
  <2>1. \A f, k : \A a \in Agents : k \in {"signed", "requests"} /\ disk' = [disk EXCEPT ![<<k, a>>] = Missing]
           => CAFilesKept({})
    BY DEF CAFilesKept, TypeInv, TypeOK, Files, CAKinds
  <2>2. CASE cmd_revoke \/ cmd_clean
    BY <2>1, <2>2 DEF cmd_revoke, cmd_clean, Delete
  <2>3. CASE DeleteSigned
    <3>1. csr[Cli].agent \in Agents
      BY <2>3 DEF DeleteSigned, TypeInv, StageInv, Serving, Requests
    <3> QED
      BY <2>1, <2>3, <3>1 DEF DeleteSigned
  <2>4. CASE cmd_sign \/ SignNext
    BY <2>4 DEF cmd_sign, SignNext, CAFilesKept
  <2> QED
    BY <2>2, <2>3, <2>4
<1>3. CASE cmd_revoke \/ cmd_clean
  BY <1>1, <1>2, <1>3, SerialFrame DEF cmd_revoke, cmd_clean, Delete, localVars
<1>4. CASE SignNext
  <2>1. /\ stage[Cli] = "next" /\ stage'[Server] = stage[Server]
        /\ \/ stage'[Cli] \in {"next", "off"} /\ serial_number'[Cli] = serial_number[Cli]
           \/ stage'[Cli] = "serial" /\ serial_number'[Cli] = serial_number[Cli] + 1
    BY <1>0, <1>4 DEF SignNext, puppet_ca_get_next_serial, TypeInv, TypeOK
  <2> QED
    BY <1>0, <1>1, <1>2, <2>1, GoesOn DEF InUse, Generating
<1>5. CASE DeleteSigned
  <2>1. /\ stage[Cli] = "finish" /\ stage'[Server] = stage[Server] /\ stage'[Cli] = "next"
        /\ serial_number'[Cli] = serial_number[Cli]
    BY <1>0, <1>5 DEF DeleteSigned, TypeInv, TypeOK
  <2> QED
    BY <1>0, <1>1, <1>2, <2>1, GoesOn DEF InUse, Generating
<1>6. CASE cmd_sign
  <2>1. /\ stage[Cli] = "off" /\ stage[Server] = "off" /\ stage'[Server] = "off" /\ stage'[Cli] = "next"
        /\ serial_number'[Cli] = puppet_ca_load_serial /\ CALoads
    BY <1>0, <1>6 DEF cmd_sign, Command, MayRun, TypeInv, TypeOK
  <2>2. Readable(SerialFile)
    BY <2>1 DEF SafeInv, SerialInv
  <2>3. /\ serial_number'[Cli] = SerialFile.serial /\ SerialFile.serial > 1 /\ Below(SerialFile.serial)
    BY <2>1, <2>2 DEF SafeInv, SerialInv, PersistedAhead, Below, puppet_ca_load_serial, SerialFile,
                      Readable
  <2>4. CALoads' /\ (Below(serial_number[Cli]))'
    BY <1>1, <1>2, <2>1, <2>3 DEF CALoads, CAFilesKept, Below
  <2>5. MayUse(Cli)'
    BY <2>1, <2>3, <2>4 DEF MayUse
  <2> QED
    BY <1>0, <1>1, <1>2, <2>1, <2>2, <2>5, AuthorityMoves DEF Generating
<1> QED
  BY <1>3, <1>4, <1>5, <1>6

\* A process that dies is not saving the serial file.
LEMMA CrashSafe ==
    ASSUME ~Concurrent, ~LoseSerial, TypeInv, SafeInv, NEW p \in Processes, Crash(p)
    PROVE  SafeInv'
<1>1. /\ CAFilesKept({}) /\ issued' = issued /\ ca_ctx' = ca_ctx /\ serial_number' = serial_number
      /\ stage'[p] = "off" /\ stage[p] # "off"
      /\ \A r \in Processes : r # p => stage'[r] = stage[r]
  BY CrashType DEF Crash, CAFilesKept
<1>2. CASE p \in Authorities
  <2>1. CALoads => Readable(SerialFile)
    BY <1>2 DEF Crash, SerialAtRisk, Readable, SerialFile
  <2>2. PICK q \in Authorities : p # q /\ Authorities = {p, q} /\ stage[q] = "off"
    BY <1>1, <1>2, RunsAlone
  <2>3. stage'[q] = "off"
    BY <1>1, <2>2, SerialTypes
  <2> QED
    BY <1>1, <1>2, <2>1, <2>2, <2>3, AuthorityMoves DEF InUse, Generating
<1>3. CASE p \notin Authorities
  BY <1>1, <1>3, SerialTypes, SerialFrame
<1> QED
  BY <1>2, <1>3

\* An agent has nothing to do with it.
LEMMA AgentSafe ==
    ASSUME TypeInv, SafeInv, NEW a \in Agents,
           ensure_certificate(a) \/ submit_certificate_request(a) \/ Disconnected(a) \/ Timeout(a)
    PROVE  SafeInv'
<1>1. /\ disk' = disk /\ issued' = issued /\ ca_ctx' = ca_ctx /\ serial_number' = serial_number
      /\ \A q \in Processes : q # a => stage'[q] = stage[q]
  BY AgentType
<1>2. CAFilesKept({})
  BY <1>1 DEF CAFilesKept
<1>3. \A q \in Authorities : q \in Processes /\ q # a
  BY SerialTypes, ProcessAssumption
<1> QED
  BY <1>1, <1>2, <1>3, SerialFrame

\* Saving another file than those three, and going on after it.
LEMMA OtherFiles ==
    ASSUME TypeInv, NEW p \in Processes, stage[p] \in Saves,
           stage[p] \notin Generating \cup {"tls_serial", "serial"}
    PROVE  \A k \in {"ca_cert", "ca_key", "serial"} : <<k, Server>> # Target(p)
  BY WhatIsSaved DEF TypeInv, Saving, Generating

LEMMA CAFiles ==
    /\ <<"ca_cert", Server>> \in Files /\ <<"ca_key", Server>> \in Files
    /\ <<"serial", Server>> \in Files
  BY DEF Files, CAKinds

LEMMA OpenFileSafe ==
    ASSUME ~Concurrent, TypeInv, SafeInv, NEW p \in Processes, OpenFile(p)
    PROVE  SafeInv'
<1>1. /\ stage' = stage /\ ca_ctx' = ca_ctx /\ serial_number' = serial_number /\ issued' = issued
      /\ stage[p] \in Saves
  BY DEF OpenFile
<1>2. disk'[Target(p)] = Torn /\ \A g \in Files : g # Target(p) => disk'[g] = disk[g]
  <2>1. TypedAs(Target(p), Torn) /\ disk' = [disk EXCEPT ![Target(p)] = Torn]
    BY SavedTyped DEF OpenFile, TypeInv
  <2> QED
    BY <2>1, FileChange DEF TypeInv
<1>3. UniqueSerials' /\ (issued = <<>> => PersistedAhead')
      /\ \A q \in Authorities : InUse(q)' = InUse(q)
            /\ (Below(serial_number[q]))' = Below(serial_number[q])
            /\ (Below(serial_number[q] - 1))' = Below(serial_number[q] - 1)
  BY <1>1 DEF SafeInv, UniqueSerials, PersistedAhead, InUse, Below
<1>4. CASE stage[p] \in Generating \ {"ca_serial"}
  <2>1. /\ p = Server /\ p \in Authorities /\ stage[Cli] = "off" /\ issued = <<>>
        /\ \/ stage[Server] \in {"ca_cert", "ca_cert_again"} /\ Target(p) = <<"ca_cert", Server>>
           \/ stage[Server] \in {"ca_key", "ca_key_again"} /\ Target(p) = <<"ca_key", Server>>
    BY <1>1, <1>4, WhatIsSaved, SerialTypes
       DEF TypeInv, Saving, Generating, SafeInv, SerialInv
  <2>2. /\ SerialFile' = SerialFile /\ ~CALoads'
        /\ stage[Server] \in {"ca_cert", "ca_cert_again"} =>
              /\ disk'[<<"ca_cert", Server>>] = Torn
              /\ disk'[<<"ca_key", Server>>] = disk[<<"ca_key", Server>>]
        /\ stage[Server] \in {"ca_key", "ca_key_again"} =>
              /\ disk'[<<"ca_key", Server>>] = Torn
              /\ disk'[<<"ca_cert", Server>>] = disk[<<"ca_cert", Server>>]
    BY <1>2, <2>1, CAFiles DEF SerialFile, CALoads
  <2>3. /\ stage[Server] \in {"ca_key", "ca_serial", "ca_key_again"} =>
              Readable(disk'[<<"ca_cert", Server>>])
        /\ stage[Server] \in {"ca_serial", "ca_cert_again"} => Readable(disk'[<<"ca_key", Server>>])
        /\ stage[Server] = "ca_cert" => disk'[<<"ca_key", Server>>] = Missing
        /\ disk'[<<"ca_cert", Server>>] = Missing => disk'[<<"ca_key", Server>>] = Missing
    BY <1>4, <2>1, <2>2, ReadableValues DEF SafeInv, SerialInv, Readable
  <2>4. /\ Readable(SerialFile') => SerialFile'.serial > 1
        /\ stage[Server] \in {"ca_cert_again", "ca_key_again"} => Readable(SerialFile')
        /\ stage[Server] \in Generating /\ ~InUse(Cli)'
    BY <1>1, <1>4, <2>1, <2>2 DEF SafeInv, SerialInv, Readable, InUse
  <2>5. \A q \in Authorities : InUse(q)' =>
           /\ serial_number'[q] > 1 /\ (Below(serial_number[q]))'
           /\ stage'[q] \in {"serial", "tls_serial"} =>
                 serial_number'[q] > 2 /\ (Below(serial_number[q] - 1))'
    BY <1>1, <1>3 DEF SafeInv, SerialInv
  <2>6. SerialInv'
    BY <1>1, <2>1, <2>2, <2>3, <2>4, <2>5 DEF SerialInv, Readable, Generating
  <2> QED
    BY <1>3, <2>1, <2>6 DEF SafeInv
<1>5. CASE stage[p] \in {"ca_serial", "tls_serial", "serial"}
  <2>1. Target(p) = <<"serial", Server>> /\ p \in Authorities /\ (stage[p] # "serial" => p = Server)
    BY <1>1, <1>5, WhatIsSaved, SerialTypes DEF TypeInv, Saving, Generating, Certifying, Serving
  <2>2. /\ SerialFile' = Torn /\ CALoads' = CALoads
        /\ disk'[<<"ca_cert", Server>>] = disk[<<"ca_cert", Server>>]
        /\ disk'[<<"ca_key", Server>>] = disk[<<"ca_key", Server>>]
    BY <1>2, <2>1, CAFiles DEF SerialFile, CALoads
  <2>3. /\ stage[Server] \in {"ca_serial", "tls_serial", "serial"} \/ stage[Cli] = "serial"
        /\ stage[Server] \notin {"ca_cert_again", "ca_key_again"}
    BY <1>5, <2>1, SerialTypes DEF SafeInv, SerialInv, Authorities
  <2>4. SerialInv'
    <3>1. \A q \in Authorities : InUse(q)' =>
             /\ serial_number'[q] > 1 /\ (Below(serial_number[q]))'
             /\ stage'[q] \in {"serial", "tls_serial"} =>
                   serial_number'[q] > 2 /\ (Below(serial_number[q] - 1))'
      BY <1>1, <1>3 DEF SafeInv, SerialInv
    <3>2. /\ InUse(Server)' = InUse(Server) /\ InUse(Cli)' = InUse(Cli)
      BY <1>3, SerialTypes
    <3>3. /\ issued' # <<>> => CALoads' /\ stage'[Server] \notin Generating
          /\ InUse(Server)' /\ stage'[Server] \notin Generating => CALoads'
          /\ InUse(Cli)' => CALoads'
          /\ stage'[Server] = "off" \/ stage'[Cli] = "off"
      BY <1>1, <2>2, <3>2 DEF SafeInv, SerialInv
    <3>4. /\ stage'[Server] \in {"ca_key", "ca_serial", "ca_key_again"} =>
                Readable(disk'[<<"ca_cert", Server>>])
          /\ stage'[Server] \in {"ca_serial", "ca_cert_again"} => Readable(disk'[<<"ca_key", Server>>])
          /\ stage'[Server] = "ca_cert" => disk'[<<"ca_key", Server>>] = Missing
          /\ disk'[<<"ca_cert", Server>>] = Missing => disk'[<<"ca_key", Server>>] = Missing
      BY <1>1, <2>2 DEF SafeInv, SerialInv
    <3>5. ~Readable(SerialFile')
      BY <2>2, ReadableValues
    <3> QED
      BY <1>1, <2>3, <3>1, <3>3, <3>4, <3>5 DEF SerialInv, Readable
  <2>5. PersistedAhead'
    BY <2>2 DEF PersistedAhead, SerialFile
  <2> QED
    BY <1>3, <2>4, <2>5 DEF SafeInv
<1>6. CASE stage[p] \notin Generating \cup {"tls_serial", "serial"}
  <2>1. CAFilesKept({})
    BY <1>1, <1>2, <1>6, OtherFiles, CAFiles DEF CAFilesKept
  <2> QED
    BY <1>1, <2>1, SerialFrame
<1> QED
  BY <1>4, <1>5, <1>6

\* Going on after a save, or without one that is not of the serial file.
LEMMA GoOnSafe ==
    ASSUME ~Concurrent, ~LoseSerial, TypeInv, SafeInv, NEW p \in Processes,
           WriteFile(p) \/ CannotOpen(p)
    PROVE  SafeInv'
<1> DEFINE next == IF WriteFile(p) THEN Follows[stage[p]] ELSE Otherwise[stage[p]]
<1>1. /\ stage[p] \in Saves /\ GoOn(p, next) /\ next \in {Follows[stage[p]], Otherwise[stage[p]]}
      /\ serial_number' = serial_number
  BY DEF WriteFile, CannotOpen
<1>2. /\ stage'[p] = next /\ \A q \in Processes : q # p => stage'[q] = stage[q]
      /\ stage[p] \in {"serial", "tls_serial"} => issued' = Append(issued, NewCertificate(p))
      /\ stage[p] \notin {"serial", "tls_serial"} => issued' = issued
  <2> HIDE DEF next
  <2> QED
    BY <1>1, GoOnStep
<1>3. \/ WriteFile(p) /\ ca_ctx' = ca_ctx /\ disk'[Target(p)] = Value(p)
         /\ \A g \in Files : g # Target(p) => disk'[g] = disk[g]
      \/ ~WriteFile(p) /\ CannotOpen(p) /\ disk' = disk
  <2>1. CASE WriteFile(p)
    <3>1. TypedAs(Target(p), Value(p)) /\ disk' = [disk EXCEPT ![Target(p)] = Value(p)]
      BY <1>1, <2>1, SavedTyped DEF WriteFile, TypeInv
    <3>2. ca_ctx' = ca_ctx
      BY <2>1 DEF WriteFile
    <3> QED
      BY <2>1, <3>1, <3>2, FileChange DEF TypeInv
  <2>2. CASE ~WriteFile(p)
    BY <2>2 DEF CannotOpen
  <2> QED
    BY <2>1, <2>2
<1>4. CASE p \notin Authorities
  <2>1. stage[p] \notin Generating \cup {"tls_serial", "serial"}
    BY <1>1, <1>4, WhatIsSaved, SerialTypes DEF TypeInv, Generating, Certifying, Serving
  <2>2. CAFilesKept({})
    BY <1>1, <1>3, <2>1, OtherFiles, CAFiles DEF CAFilesKept
  <2>3. ca_ctx' = ca_ctx
    BY <1>1, <1>3, <2>1, SaveTable DEF CannotOpen, Generating, TypeInv, TypeOK
  <2> QED
    BY <1>1, <1>2, <1>4, <2>1, <2>2, <2>3, SerialTypes, SerialFrame
<1>5. CASE p \in Authorities /\ stage[p] \notin Generating \cup {"tls_serial", "serial"}
  <2>1. CAFilesKept({})
    BY <1>1, <1>3, <1>5, OtherFiles, CAFiles DEF CAFilesKept
  <2>2. ca_ctx' = ca_ctx
    BY <1>1, <1>3, <1>5, SaveTable DEF CannotOpen, Generating, TypeInv, TypeOK
  <2>3. next \notin Generating \cup {"off", "tls_serial", "serial"} /\ stage[p] # "off"
    <3>1. stage[p] \in {"tls_cert", "tls_key", "signed", "request"}
      BY <1>1, <1>5, WhatIsSaved, ProcessAssumption DEF Generating, TypeInv
    <3> QED
      BY <1>1, <3>1, FollowsTable, OtherwiseTable DEF Generating
  <2> HIDE DEF next
  <2>4. InUse(p)' => InUse(p)
    BY <2>2, <2>3 DEF InUse
  <2>5. /\ \A r \in Authorities : r # p => stage'[r] = stage[r]
        /\ issued' = issued /\ serial_number'[p] = serial_number[p]
    BY <1>1, <1>2, <1>5, SerialTypes
  <2>6. /\ stage[p] \notin Generating \cup {"off", "serial", "tls_serial"}
        /\ stage'[p] \notin Generating /\ stage'[p] \notin {"serial", "tls_serial"}
    BY <1>2, <1>5, <2>3
  <2>7. p \in Authorities
    BY <1>5
  <2> HIDE <1>1, <1>2, <1>3
  <2> QED
    BY <2>1, <2>2, <2>4, <2>5, <2>6, <2>7, GoesOn
<1>6. CASE stage[p] \in Generating /\ ~WriteFile(p)
  <2>1. /\ p = Server /\ p \in Authorities /\ Cli \in Authorities /\ stage[Cli] = "off"
        /\ stage'[Cli] = "off" /\ Server # Cli
    BY <1>1, <1>2, <1>6, WhatIsSaved, SerialTypes DEF TypeInv, SafeInv, SerialInv, Generating
  <2>2. stage[p] \in Generating \ {"ca_serial"} /\ ca_ctx' = FALSE /\ next = "start"
    <3>1. CannotOpen(p) /\ stage[p] \in Generating /\ next = Otherwise[stage[p]]
      BY <1>3, <1>6
    <3> HIDE DEF next
    <3>2. stage[p] \in {"ca_cert", "ca_key", "ca_cert_again", "ca_key_again"}
      BY <3>1, SaveTable DEF CannotOpen, Generating
    <3>3. SaveKind[stage[p]] \in {"ca_cert", "ca_key"} /\ Otherwise[stage[p]] = "start"
      BY <3>2, SaveTable, OtherwiseTable
    <3> QED
      BY <3>1, <3>2, <3>3 DEF CannotOpen, Generating
  <2>3. CALoads => Readable(SerialFile)
    BY <2>1, <2>2 DEF SafeInv, SerialInv, Generating
  <2> HIDE DEF next
  <2>4. CAFilesKept({}) /\ issued' = issued
    BY <1>2, <1>3, <1>6, <2>2 DEF CAFilesKept, Generating
  <2>5. stage'[Server] \notin Generating /\ ~InUse(Server)'
    BY <1>2, <2>1, <2>2 DEF InUse, Generating
  <2> QED
    BY <2>1, <2>3, <2>4, <2>5, AuthorityMoves
<1>7. CASE stage[p] \in Generating /\ WriteFile(p)
  <2>1. /\ p = Server /\ Server \in Authorities /\ stage[Cli] = "off" /\ stage'[Cli] = "off"
        /\ issued = <<>> /\ issued' = <<>> /\ ca_ctx' /\ Authorities = {Server, Cli}
        /\ serial_number[Server] \in Nat /\ serial_number[Server] > 1
    <3>1. p = Server /\ Server \in Authorities /\ Cli \in Processes /\ Server # Cli
          /\ Authorities = {Server, Cli} /\ serial_number[Server] \in Nat
      BY <1>1, <1>7, WhatIsSaved, SerialTypes DEF TypeInv, Authorities
    <3>2. stage[Cli] = "off" /\ issued = <<>> /\ ca_ctx /\ InUse(Server)
      BY <1>7, <3>1 DEF TypeInv, StageInv, SafeInv, SerialInv, Generating, InUse
    <3>3. issued' = <<>> /\ stage'[Cli] = "off" /\ ca_ctx'
      BY <1>2, <1>3, <1>7, <3>1, <3>2 DEF Generating
    <3> QED
      BY <3>1, <3>2, <3>3 DEF SafeInv, SerialInv
  <2>2. /\ UniqueSerials' /\ PersistedAhead' /\ \A n : (\A i \in DOMAIN issued' : issued'[i].serial < n)
    BY <2>1 DEF UniqueSerials, PersistedAhead
  <2>3. /\ ~InUse(Cli)' /\ serial_number'[Server] > 1 /\ (Below(serial_number[Server]))'
    BY <1>1, <2>1, <2>2 DEF InUse, Below
  <2>4. CASE stage[p] \in {"ca_cert", "ca_cert_again"}
    <3>1. /\ disk'[<<"ca_cert", Server>>] = [key |-> 0] /\ SerialFile' = SerialFile
          /\ disk'[<<"ca_key", Server>>] = disk[<<"ca_key", Server>>]
      BY <1>1, <1>3, <1>7, <2>4, WhatIsSaved, CAFiles DEF TypeInv, Saving, SerialFile
    <3>2. \/ stage[Server] = "ca_cert" /\ stage'[Server] = "ca_key"
          \/ stage[Server] = "ca_cert_again" /\ stage'[Server] = "ca_key_again"
      BY <1>2, <1>7, <2>1, <2>4, FollowsTable
    <3>3. /\ stage[Server] = "ca_cert" => ~CALoads'
          /\ stage[Server] = "ca_cert_again" => Readable(SerialFile')
      BY <3>1 DEF SafeInv, SerialInv, CALoads
    <3>4. Readable(SerialFile') => SerialFile'.serial > 1
      BY <3>1 DEF SafeInv, SerialInv
    <3>5. SerialInv'
      BY <2>1, <2>3, <3>1, <3>2, <3>3, <3>4, ReadableValues DEF SerialInv, Readable, Generating
    <3> QED
      BY <2>2, <3>5 DEF SafeInv
  <2>5. CASE stage[p] \in {"ca_key", "ca_key_again"}
    <3>1. /\ disk'[<<"ca_key", Server>>] = [key |-> 0] /\ SerialFile' = SerialFile
          /\ disk'[<<"ca_cert", Server>>] = disk[<<"ca_cert", Server>>]
      BY <1>1, <1>3, <1>7, <2>5, WhatIsSaved, CAFiles DEF TypeInv, Saving, SerialFile
    <3>2. \/ stage[Server] = "ca_key" /\ stage'[Server] = "ca_serial"
          \/ stage[Server] = "ca_key_again" /\ stage'[Server] = "tls"
      BY <1>2, <1>7, <2>1, <2>5, FollowsTable
    <3>3. /\ Readable(disk'[<<"ca_cert", Server>>]) /\ Readable(disk'[<<"ca_key", Server>>])
          /\ stage[Server] = "ca_key_again" => Readable(SerialFile')
      BY <2>1, <2>5, <3>1, ReadableValues DEF SafeInv, SerialInv, Readable
    <3>4. Readable(SerialFile') => SerialFile'.serial > 1
      BY <3>1 DEF SafeInv, SerialInv
    <3>5. CALoads'
      BY <3>3 DEF CALoads, Readable
    <3>6. SerialInv'
      BY <2>1, <2>3, <3>1, <3>2, <3>3, <3>4, <3>5 DEF SerialInv, Readable, Generating
    <3> QED
      BY <2>2, <3>6 DEF SafeInv
  <2>6. CASE stage[p] = "ca_serial"
    <3>1. /\ SerialFile' = [serial |-> serial_number[Server]]
          /\ disk'[<<"ca_cert", Server>>] = disk[<<"ca_cert", Server>>]
          /\ disk'[<<"ca_key", Server>>] = disk[<<"ca_key", Server>>]
      BY <1>1, <1>3, <1>7, <2>1, <2>6, WhatIsSaved, CAFiles DEF TypeInv, Saving, SerialFile
    <3>2. stage[Server] = "ca_serial" /\ stage'[Server] = "ca_cert_again"
      BY <1>2, <1>7, <2>1, <2>6, FollowsTable
    <3>3. /\ Readable(disk'[<<"ca_cert", Server>>]) /\ Readable(disk'[<<"ca_key", Server>>])
          /\ Readable(SerialFile') /\ SerialFile'.serial > 1
      BY <2>1, <3>1, <3>2, ReadableValues DEF SafeInv, SerialInv, Readable
    <3>4. SerialInv'
      BY <2>1, <2>3, <3>2, <3>3, ReadableValues DEF SerialInv, Readable, Generating
    <3> QED
      BY <2>2, <3>4 DEF SafeInv
  <2> QED
    BY <1>7, <2>4, <2>5, <2>6 DEF Generating
<1>8. CASE p \in Authorities /\ stage[p] \in {"tls_serial", "serial"}
  <2> DEFINE n == serial_number[p]
             new == NewCertificate(p)
  <2>1. WriteFile(p) /\ ca_ctx' = ca_ctx
    BY <1>1, <1>3, <1>8, SaveTable DEF CannotOpen
  <2>2. /\ SerialFile' = [serial |-> n]
        /\ disk'[<<"ca_cert", Server>>] = disk[<<"ca_cert", Server>>]
        /\ disk'[<<"ca_key", Server>>] = disk[<<"ca_key", Server>>]
    BY <1>1, <1>3, <1>8, <2>1, WhatIsSaved, CAFiles DEF TypeInv, Saving, SerialFile
  <2>3. PICK q \in Authorities : p # q /\ Authorities = {p, q} /\ stage[q] = "off"
    BY <1>8, RunsAlone
  <2>4. /\ stage'[q] = "off" /\ stage'[p] \in {"tls_cert", "signed"}
    <3>1. next \in {"tls_cert", "signed"}
      BY <1>8, <2>1, FollowsTable
    <3> HIDE DEF next
    <3> QED
      BY <1>2, <2>3, <3>1, SerialTypes
  <2>5. InUse(p) /\ InUse(p)' /\ ~InUse(q)' /\ stage[Server] \notin Generating
    BY <1>8, <2>1, <2>3, <2>4, SerialTypes DEF InUse, TypeInv, TypeOK, StageInv, Certifying, Generating
  <2>6. CALoads /\ CALoads' /\ n > 2 /\ Below(n - 1) /\ n \in Nat
    BY <1>8, <2>2, <2>5, SerialTypes DEF SafeInv, SerialInv, CALoads, Authorities
  <2>7. /\ issued' = Append(issued, new) /\ new.serial = n - 1
    BY <1>2, <1>8, NewCertificateType
  <2>8. /\ Len(issued) \in Nat /\ DOMAIN issued = 1..Len(issued)
        /\ DOMAIN issued' = 1..(Len(issued) + 1)
        /\ issued'[Len(issued) + 1] = new
        /\ \A i \in DOMAIN issued : issued'[i] = issued[i] /\ issued[i].serial \in Nat
    <3>1. issued \in Seq(Certificates)
      BY DEF TypeInv, TypeOK
    <3> HIDE DEF new
    <3> QED
      BY <2>7, <3>1, SerialTypes
  <2>9. UniqueSerials'
    <3>1. \A i \in DOMAIN issued' : i \in DOMAIN issued \/ i = Len(issued) + 1
      BY <2>8
    <3>2. \A i \in DOMAIN issued : issued'[i].serial > 1 /\ issued'[i].serial < n - 1
      BY <2>6, <2>8 DEF SafeInv, UniqueSerials, Below
    <3>3. issued'[Len(issued) + 1].serial = n - 1 /\ n - 1 > 1
      BY <2>6, <2>7, <2>8
    <3>4. \A i, j \in DOMAIN issued : issued'[i].serial = issued'[j].serial => i = j
      BY <2>8 DEF SafeInv, UniqueSerials
    <3> HIDE DEF n, new
    <3> QED
      BY <2>6, <2>8, <3>1, <3>2, <3>3, <3>4 DEF UniqueSerials
  <2>10. \A i \in DOMAIN issued' : issued'[i].serial < n
    <3>1. \A i \in DOMAIN issued' : i \in DOMAIN issued \/ i = Len(issued) + 1
      BY <2>8
    <3> QED
      BY <2>6, <2>7, <2>8, <3>1 DEF Below
  <2>11. PersistedAhead'
    BY <2>2, <2>10 DEF PersistedAhead, puppet_ca_load_serial, SerialFile
  <2>12. /\ Readable(SerialFile') /\ SerialFile'.serial > 1
    BY <2>2, <2>6, ReadableValues
  <2>13. serial_number'[p] > 1 /\ (Below(serial_number[p]))'
    BY <1>1, <2>6, <2>10 DEF Below
  <2>14. stage'[Server] \in {"off", "tls_cert", "signed"} /\ (stage'[Server] = "off" \/ stage'[Cli] = "off")
         /\ disk'[<<"ca_cert", Server>>] # Missing
    BY <2>3, <2>4, <2>6, SerialTypes DEF CALoads
  <2>15. SerialInv'
    <3>1. \A a \in Authorities : InUse(a)' => a = p
      BY <2>3, <2>5
    <3> HIDE DEF n, new
    <3> QED
      BY <2>4, <2>6, <2>12, <2>13, <2>14, <3>1 DEF SerialInv, Readable, Generating
  <2> QED
    BY <2>9, <2>11, <2>15 DEF SafeInv
<1> QED
  BY <1>4, <1>5, <1>6, <1>7, <1>8, WhatIsSaved, SerialTypes
     DEF TypeInv, Generating

LEMMA InitSafeInv == Init => SafeInv
<1> SUFFICES ASSUME Init PROVE SafeInv
  OBVIOUS
<1>1. /\ \A f \in Files : disk[f] = Missing
      /\ \A p \in Processes : stage[p] = "off"
      /\ issued = <<>> /\ Authorities \subseteq Processes
  BY DEF Init, Processes
<1>2. ~CALoads /\ ~Readable(SerialFile)
  BY <1>1, CAFiles DEF CALoads, Readable, SerialFile
<1>3. stage[Server] = "off" /\ stage[Cli] = "off" /\ \A p \in Authorities : ~InUse(p)
  BY <1>1 DEF Authorities, InUse
<1>4. disk[<<"ca_cert", Server>>] = Missing /\ disk[<<"ca_key", Server>>] = Missing
  BY <1>1, CAFiles
<1>5. SerialInv
  <2>1. \A s : s # "off" => stage[Server] # s
    BY <1>3
  <2>2. /\ stage[Server] \notin {"ca_key", "ca_serial", "ca_key_again"}
        /\ stage[Server] \notin {"ca_serial", "ca_cert_again"} /\ stage[Server] # "ca_cert"
        /\ stage[Server] \notin {"ca_cert_again", "ca_key_again"}
    BY <2>1
  <2>3. ~InUse(Server) /\ ~InUse(Cli)
    BY <1>3 DEF Authorities
  <2> QED
    BY <1>1, <1>2, <1>3, <1>4, <2>2, <2>3, Zenon DEF SerialInv
<1> QED
  BY <1>1, <1>5 DEF SafeInv, UniqueSerials, PersistedAhead

LEMMA StepSafeInv ==
    ASSUME ~Concurrent, ~LoseSerial
    PROVE  KeepInv /\ SafeInv /\ [Next]_vars => SafeInv'
<1> SUFFICES ASSUME KeepInv, SafeInv, [Next]_vars PROVE SafeInv'
  OBVIOUS
<1>0. TypeInv
  BY DEF KeepInv, TypeInv
<1>1. CASE StartServer
  BY <1>0, <1>1, StartServerSafe
<1>2. CASE \/ CheckServerCertificate \/ StartDaemon \/ Answer
           \/ \E a \in Agents : handle_certificate_request(a)
  BY <1>0, <1>2, ServerSafe
<1>3. CASE cmd_sign \/ cmd_revoke \/ cmd_clean \/ SignNext \/ DeleteSigned
  BY <1>0, <1>3, CliSafe
<1>4. ASSUME NEW a \in Agents,
             \/ ensure_certificate(a) \/ submit_certificate_request(a)
             \/ Disconnected(a) \/ Timeout(a)
      PROVE  SafeInv'
  BY <1>0, <1>4, AgentSafe
<1>5. ASSUME NEW p \in Processes, OpenFile(p) PROVE SafeInv'
  BY <1>0, <1>5, OpenFileSafe
<1>6. ASSUME NEW p \in Processes, WriteFile(p) \/ CannotOpen(p) PROVE SafeInv'
  BY <1>0, <1>6, GoOnSafe
<1>7. ASSUME NEW p \in Processes, Crash(p) PROVE SafeInv'
  BY <1>0, <1>7, CrashSafe
<1>8. CASE UNCHANGED vars
  BY <1>8, SerialFrame DEF vars, localVars, CAFilesKept
<1> QED
  BY <1>1, <1>2, <1>3, <1>4, <1>5, <1>6, <1>7, <1>8, Steps

\* While puppetc-ca signs only when the server is down, and no save of the serial
\* file is lost, no two certificates the authority ever signs have the same serial
\* number (puppet_ca_get_next_serial, puppet_ca_sign_csr), the number on disk is
\* ahead of all of them, and an agent keeps a certificate of its own key only.
THEOREM AuthorityIsSafe == ~Concurrent /\ ~LoseSerial => (Spec => []CertificatesSafe)
<1> SUFFICES ASSUME ~Concurrent, ~LoseSerial PROVE Spec => []CertificatesSafe
  OBVIOUS
<1>1. Init => KeepInv /\ SafeInv
  BY InitKeepInv, InitSafeInv
<1>2. KeepInv /\ SafeInv /\ [Next]_vars => (KeepInv /\ SafeInv)'
  BY StepKeepInv, StepSafeInv
<1>3. KeepInv /\ SafeInv => CertificatesSafe
  BY DEF KeepInv, SafeInv, KeyInv, Held, KeyMatches, CertificatesSafe
<1> QED
  BY <1>1, <1>2, <1>3, PTL DEF Spec
=============================================================================
