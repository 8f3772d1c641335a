----------------------------- MODULE Providers -----------------------------
(***************************************************************************)
(* The agent applies a catalog with its own providers, run after run, to a *)
(* machine that also changes under it.  CatalogApply models how the        *)
(* resources of a run are ordered and takes any answer from a provider;    *)
(* here the order is given, and the answers and the changes are those of   *)
(* the providers (TextProviders, SystemProviders).                         *)
(***************************************************************************)
EXTENDS SystemProviders

CONSTANTS
    Scenarios,      \* [catalog, machine] records: the catalogs in the order of application
    Edits(_),       \* the machines that somebody else may make of a machine
    MaxFaults,      \* how many provider calls may go wrong
    MaxEdits        \* how often somebody else changes the machine

ASSUME BoundsAssumption == MaxFaults \in Nat /\ MaxEdits \in Nat

VARIABLES
    catalog,        \* the resources, in the order they are applied
    noop,           \* ctx->noop
    m,              \* the machine
    at,             \* the resource to apply next, 0 between two runs
    answers,        \* what the resources of this run answered so far
    needs_refresh,  \* entries[i].needs_refresh
    faults, edits   \* how many happened

vars == <<catalog, noop, m, at, answers, needs_refresh, faults, edits>>

Idx == 1 .. Len(catalog)

Init ==
    /\ \E s \in Scenarios : catalog = s.catalog /\ m = s.machine
    /\ noop \in BOOLEAN
    /\ at = 0
    /\ answers = <<>>
    /\ needs_refresh = {}
    /\ faults = 0
    /\ edits = 0

\* provider_get and resource_apply: the provider of the type and the system
resource_apply(r, machine, dry) ==
    CASE r.type = "file"     -> file_apply(r, machine, dry)
      [] r.type = "package"  -> IF machine.os = "debian" THEN apt_apply(r, machine, dry)
                                                         ELSE dnf_apply(r, machine, dry)
      [] r.type = "service"  -> systemd_apply(r, machine, dry)
      [] r.type = "user"     -> user_apply(r, machine, dry)
      [] r.type = "group"    -> group_apply(r, machine, dry)
      [] r.type = "sysctl"   -> sysctl_apply(r, machine, dry)
      [] r.type = "exec"     -> exec_apply(r, machine, dry)
      [] r.type = "host"     -> host_apply(r, machine, dry)
      [] r.type = "cron"     -> cron_apply(r, machine, dry)
      [] r.type = "mount"    -> mount_apply(r, machine, dry)
      [] r.type = "ssh_authorized_key" -> ssh_authorized_key_apply(r, machine, dry)
      [] r.type = "notify"   -> notify_apply(machine, dry)
      [] OTHER               -> anchor_apply(machine)

resource_refresh(r, machine, dry) ==
    CASE r.type = "service" -> systemd_refresh(r, machine, dry)
      [] r.type = "exec"    -> exec_refresh(r, machine, dry)
      [] OTHER              -> {Outcome("NOOP", machine)}

\* The entries that the entry i notifies
Notified(i) == {j \in Idx : i \in catalog[j].subscribes}

Changed(answer) == answer \in {"CHANGED", "SKIPPED"}

(* What one entry of the loop may come to: the resource is applied, and
   refreshed after that when an entry before it asked for it and the first did
   not fail.  A refresh that fails does not change the answer. *)
Entry(i) ==
    LET r == catalog[i]
        Second(o) ==
          IF i \notin needs_refresh \/ o.answer \in {"FAILED", "KILLED"}
            THEN {o}
            ELSE {[x EXCEPT !.answer = CASE @ = "KILLED" -> "KILLED"
                                         [] Changed(@)   -> @
                                         [] OTHER        -> o.answer,
                            !.fault = @ \/ o.fault] :
                    x \in resource_refresh(r, o.m, noop)}
    IN  UNION {Second(o) : o \in resource_apply(r, m, noop)}

StartRun ==
    /\ at = 0
    /\ at' = 1
    /\ answers' = <<>>
    /\ needs_refresh' = {}
    /\ UNCHANGED <<catalog, noop, m, faults, edits>>

\* A killed agent starts a new run later
ApplyEntry ==
    /\ at \in Idx
    /\ \E o \in Entry(at) :
         /\ o.fault => faults < MaxFaults
         /\ faults' = IF o.fault THEN faults + 1 ELSE faults
         /\ m' = o.m
         /\ answers' = Append(answers, o.answer)
         /\ at' = IF o.answer = "KILLED" \/ at = Len(catalog) THEN 0 ELSE at + 1
         /\ needs_refresh' = IF Changed(o.answer) THEN needs_refresh \cup Notified(at)
                                                  ELSE needs_refresh
    /\ UNCHANGED <<catalog, noop, edits>>

\* An administrator, a package or a new release changes the machine between
\* runs; the answers of the last one say nothing about it any more.
EditMachine ==
    /\ at = 0
    /\ edits < MaxEdits
    /\ edits' = edits + 1
    /\ m' \in Edits(m)
    /\ answers' = <<>>
    /\ UNCHANGED <<catalog, noop, at, needs_refresh, faults>>

Next == StartRun \/ ApplyEntry \/ EditMachine

\* The agent is started again and again (a timer or a daemon), and a run goes on
Spec == Init /\ [][Next]_vars /\ WF_vars(StartRun) /\ WF_vars(ApplyEntry)
-----------------------------------------------------------------------------
(* What a resource asks for, said without the provider *)

\* The line that decides: the first that carries the name
Deciding(lines, Named(_)) == lines[FirstLine(lines, Named)]

Names(line) == {w.name : w \in Range(line.words)}

FileDesired(r, x) ==
    LET node == x.files[r.title]
        owned == /\ r.owner # none => node.owner = x.users[r.owner].uid
                 /\ r.mode # none => node.mode = r.mode
    IN  CASE r.ensure = "absent"    -> node = none
          [] r.ensure = "directory" -> node # none /\ node.kind = "dir" /\ owned
          [] r.ensure = "link"      -> node # none /\ node.kind = "link" /\ node.target = r.target
          [] OTHER -> /\ node # none /\ node.kind = "file" /\ owned
                      /\ r.content # none => node.content = r.content
                      /\ r.content = none /\ r.source # none => node.content = x.published[r.source]

HostDesired(r, x) ==
    IF r.ensure = "absent" THEN \A l \in Range(x.hosts) : r.title \notin Names(l)
    ELSE /\ \E l \in Range(x.hosts) : r.title \in Names(l)
         /\ LET l == Deciding(x.hosts, LAMBDA k : r.title \in Names(k))
            IN  l.ip = r.ip /\ Range(r.aliases) \subseteq Names(l)

CronDesired(r, x) ==
    LET job == [kind |-> "job", text |-> r.job]
    IN  IF r.ensure = "absent"
          THEN [kind |-> "marker", text |-> r.title] \notin Range(x.crontab[r.user])
          ELSE Cardinality({i \in DOMAIN x.crontab[r.user] : x.crontab[r.user][i] = job}) = 1

KeyDesired(r, x) ==
    LET here == {l \in Range(x.keys[r.user]) : l.key = r.key \/ (l.key # "#" /\ l.name = r.title)}
    IN  IF r.ensure = "absent" THEN here = {}
        ELSE [key |-> r.key, name |-> r.title, spec |-> r.spec] \in here

MountDesired(r, x) ==
    LET entry == [mountpoint |-> r.title, spec |-> r.spec]
    IN  CASE r.ensure = "absent"    -> /\ r.title \notin x.mounted
                                       /\ \A l \in Range(x.fstab) : l.mountpoint # r.title
          [] r.ensure = "unmounted" -> r.title \notin x.mounted
          [] OTHER -> /\ entry \in Range(x.fstab)
                      /\ r.ensure = "mounted" => r.title \in x.mounted

PackageDesired(r, x) ==
    CASE r.ensure \in {"absent", "purged"} -> x.pkgs[r.title] = none
      [] r.ensure = "version" -> x.pkgs[r.title] = r.version
      [] r.ensure = "latest"  -> x.pkgs[r.title] = x.repo[r.title]
      [] OTHER -> x.pkgs[r.title] # none

UserDesired(r, x) ==
    LET u == x.users[r.title]
    IN  IF r.ensure # "present" THEN u = none
        ELSE /\ u # none
             /\ r.uid # none => u.uid = r.uid
             /\ r.gid # none => u.gid = x.groups[r.gid]
             /\ r.groups # none => u.groups = r.groups.names

Desired(r, x) ==
    CASE r.type = "file"    -> FileDesired(r, x)
      [] r.type = "package" -> PackageDesired(r, x)
      [] r.type = "service" -> /\ x.services[r.title] # none
                               /\ x.services[r.title].running = (r.ensure = "running")
                               /\ r.enable # none => x.services[r.title].enabled = r.enable
      [] r.type = "user"    -> UserDesired(r, x)
      [] r.type = "group"   -> /\ (x.groups[r.title] # none) = (r.ensure = "present")
                               /\ r.ensure = "present" /\ r.gid # none => x.groups[r.title] = r.gid
      [] r.type = "sysctl"  -> IF r.ensure = "absent" THEN r.permanent => x.sysctl.file = none
                               ELSE x.sysctl.runtime = r.value /\ (r.permanent => x.sysctl.file = r.value)
      [] r.type = "host"    -> HostDesired(r, x)
      [] r.type = "cron"    -> CronDesired(r, x)
      [] r.type = "mount"   -> MountDesired(r, x)
      [] r.type = "ssh_authorized_key" -> KeyDesired(r, x)
      [] OTHER -> TRUE
-----------------------------------------------------------------------------
(* Where the providers are known not to do what is asked: each is a hazard of
   its own and is left out of the properties below by name *)

\* The lines of a file that carry the name of the resource
Carriers(r, x) ==
    CASE r.type = "host"  -> {i \in DOMAIN x.hosts : r.title \in Names(x.hosts[i])}
      [] r.type = "ssh_authorized_key" ->
           {i \in DOMAIN x.keys[r.user] : x.keys[r.user][i].key = r.key
                                            \/ x.keys[r.user][i].name = r.title}
      [] r.type = "mount" -> {i \in DOMAIN x.fstab : x.fstab[i].mountpoint = r.title}
      [] r.type = "cron"  -> {i \in DOMAIN x.crontab[r.user] :
                                x.crontab[r.user][i] = [kind |-> "marker", text |-> r.title]}
      [] OTHER -> {}

\* The file is read whole, and still is with the lines one provider may add
Fits(r, x) ==
    LET lines == CASE r.type = "host"  -> Len(x.hosts)
                   [] r.type = "ssh_authorized_key" -> Len(x.keys[r.user])
                   [] r.type = "cron"  -> Len(x.crontab[r.user]) + 1
                   [] OTHER -> 0
    IN  lines < MaxLines

\* Every marker of the crontab is followed by a job
IntactCron(r, x) ==
    r.type = "cron" =>
      LET tab == x.crontab[r.user]
      IN  \A i \in DOMAIN tab : tab[i].kind = "marker" => i < Len(tab) /\ tab[i + 1].kind = "job"

\* One line per name, files that fit
Tidy(r, x) == Cardinality(Carriers(r, x)) <= 1 /\ Fits(r, x) /\ IntactCron(r, x)

\* A file resource that meets a link or a directory where it wants a file, or
\* an owner that does not exist
FileGap(r, x) ==
    /\ r.type = "file"
    /\ \/ x.files[r.title] # none /\ x.files[r.title].kind = "link" /\ r.ensure # "link"
       \/ r.ensure \in {"file", "present"} /\ x.files[r.title] # none
            /\ x.files[r.title].kind = "dir"
       \/ r.owner # none /\ x.users[r.owner] = none
       \/ r.mode = "0000"

\* A primary group that does not exist when the user is there already
UserGap(r, x) == r.type = "user" /\ r.gid # none /\ x.groups[r.gid] = none

\* What is done again in every run, whatever the machine is like
Restless(r, x) ==
    \/ r.type = "exec" /\ {r.creates, r.unless} \cap {r.makes} \subseteq {none} /\ ~r.refreshonly
    \/ r.type = "user" /\ r.groups # none
    \/ r.type = "package" /\ r.ensure = "latest" /\ x.os = "debian"
    \/ r.type = "cron" /\ r.environment # none
-----------------------------------------------------------------------------
(* Properties *)

\* The answers of this run, one per entry applied so far, and the type of the
\* bookkeeping around them.
TypeOK ==
    /\ at \in 0 .. Len(catalog)
    /\ answers \in Seq(Answers)
    /\ Len(answers) = IF at = 0 THEN Len(answers) ELSE at - 1
    /\ needs_refresh \subseteq Idx
    /\ faults \in 0 .. MaxFaults
    /\ edits \in 0 .. MaxEdits
    /\ noop \in BOOLEAN

\* What a resource comes to on machine x when nothing goes wrong under it
Clean(r, x, dry) == {o \in resource_apply(r, x, dry) : ~o.fault}

\* A provider that says the resource is in order or was brought in order leaves
\* the machine as the resource asks: whatever line, node, unit or account was
\* there before, including what an interrupted run left behind.
DeclaredStateHolds ==
    \A i \in Idx : LET r == catalog[i] IN
      \A o \in Clean(r, m, FALSE) :
        o.answer \in Quiet \cup {"CHANGED"} /\ Tidy(r, m) /\ ~FileGap(r, m) /\ ~UserGap(r, m)
          => Desired(r, o.m) \/ (r.type = "cron" /\ r.environment # none)

\* A resource that was just brought in order has nothing to do when it is applied
\* again: the same code finds the entry, the node or the account it wrote.
Idempotent ==
    \A i \in Idx : LET r == catalog[i] IN
      ~Restless(r, m) /\ Tidy(r, m) =>
        \A o \in Clean(r, m, FALSE) : o.answer = "CHANGED" =>
          \A again \in Clean(r, o.m, FALSE) : again.answer \in Quiet /\ again.m = o.m

\* A run in noop mode changes nothing, except that .ssh is made for a key.
NoopIsHarmless ==
    \A i \in Idx : \A o \in resource_apply(catalog[i], m, TRUE) :
      [o.m EXCEPT !.sshdirs = m.sshdirs] = m

\* What noop mode announces really happens: a resource it would change is not
\* found in order by a real run.
NoopSaysSo ==
    \A i \in Idx : LET r == catalog[i] IN
      (r.type # "notify" /\ \E o \in Clean(r, m, TRUE) : o.answer = "SKIPPED")
        => \A o \in Clean(r, m, FALSE) : o.answer \notin Quiet

\* The lines of others in the files the providers rewrite
Others(r, x) ==
    CASE r.type = "host"  -> SelectSeq(x.hosts, LAMBDA l : r.title \notin Names(l))
      [] r.type = "ssh_authorized_key" ->
           SelectSeq(x.keys[r.user], LAMBDA l : l.key # r.key /\ l.name # r.title)
      [] r.type = "mount" ->
           SelectSeq(x.fstab, LAMBDA l : l.mountpoint # r.title /\ l # Header)
      [] r.type = "cron"  ->
           LET tab  == x.crontab[r.user]
               mine == {i \in DOMAIN tab :
                          \/ tab[i] = [kind |-> "marker", text |-> r.title]
                          \/ i > 1 /\ tab[i - 1] = [kind |-> "marker", text |-> r.title]}
           IN  [k \in 1 .. Cardinality(DOMAIN tab \ mine) |->
                  tab[CHOOSE i \in DOMAIN tab \ mine :
                        Cardinality({j \in DOMAIN tab \ mine : j <= i}) = k]]
      [] OTHER -> <<>>

\* A provider that rewrites a file keeps the lines of everybody else in it, in
\* their order, as long as the file is read whole.
ForeignLinesKept ==
    \A i \in Idx : LET r == catalog[i] IN
      Tidy(r, m) /\ ~Restless(r, m) =>
        \A o \in Clean(r, m, FALSE) : Others(r, o.m) = Others(r, m)

\* At the end of a run a service that subscribes to its configuration file runs
\* with what the file says, when no call failed and no run was killed.
ServicesCurrent ==
    at = 0 /\ ~noop /\ faults = 0 /\ answers # <<>> /\ "FAILED" \notin Range(answers) =>
      \A i \in Idx : LET r == catalog[i] IN
        r.type = "service" /\ r.ensure = "running"
          /\ (\E j \in r.subscribes : catalog[j].title = confOf[r.title])
          => m.services[r.title].loaded = read_file_contents(m, confOf[r.title])

Calm == \A k \in DOMAIN answers : answers[k] \in Quiet

\* Faults and other hands are few; after the last of them the runs of the agent
\* reach a machine they find in order, and it stays so.  Files that outgrow the
\* buffer are left out: their last entry is not seen and is added by every run.
Converges ==
    (/\ ~noop
     /\ \A i \in Idx : ~Restless(catalog[i], m)
     /\ [](\A i \in Idx : Fits(catalog[i], m))) => <>[]Calm

\* A provider does what it answers, finds what it did, and leaves the rest alone.
RepairsRight == TypeOK /\ DeclaredStateHolds /\ Idempotent /\ ForeignLinesKept

\* Noop mode changes nothing and announces what a real run does.
NoopRight == NoopIsHarmless /\ NoopSaysSo
=============================================================================
