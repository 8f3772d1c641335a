--------------------------- MODULE TextProviders ---------------------------
(***************************************************************************)
(* The providers of the agent that edit text files line by line: host      *)
(* (/etc/hosts), cron (a user's crontab), ssh_authorized_key (a user's     *)
(* authorized_keys) and mount (/etc/fstab and the mounted file systems).   *)
(*                                                                         *)
(* A provider is an operator that takes a resource, the machine and the    *)
(* noop flag and returns the set of its outcomes.  An outcome is the       *)
(* answer of the provider, the machine it leaves, and whether something    *)
(* failed under the provider (a full disk, a command that fails, a kill).  *)
(* A file is a sequence of lines; what a line says is a record of the      *)
(* fields the provider reads, its spacing is left out.                     *)
(***************************************************************************)
EXTENDS Naturals, Sequences, FiniteSets, SequencesExt

CONSTANTS
    MaxLines,       \* MAX_HOSTS_SIZE, MAX_CRONTAB_SIZE, MAX_FILE_SIZE: what one read returns
    none            \* a parameter that is not set, a thing that is not there

ASSUME MaxLinesAssumption == MaxLines \in Nat \ {0}

-----------------------------------------------------------------------------
(* Outcomes *)

Outcome(answer, m)  == [answer |-> answer, m |-> m, fault |-> FALSE]
Fault(answer, m)    == [answer |-> answer, m |-> m, fault |-> TRUE]

\* APPLY_NOOP and APPLY_SUCCESS: nothing had to be done
Quiet == {"SUCCESS", "NOOP"}

Answers == Quiet \cup {"CHANGED", "FAILED", "SKIPPED", "KILLED"}

(* A whole file is read into a buffer of fixed size; the rest of a longer
   file is not seen, and is not there any more after the file was written. *)
Read(file) == SubSeq(file, 1, IF Len(file) < MaxLines THEN Len(file) ELSE MaxLines)

\* What fopen(.., "w") and a write that did not finish leave of new
Torn(new) == {SubSeq(new, 1, k) : k \in 0 .. (Len(new) - 1)}

(* The outcomes of writing new to a file, where Put(f) is the machine with f
   as the contents of that file: written; not opened; cut short, which is
   noticed when fwrite says so and not when only fclose does; or the agent is
   killed in between. *)
Written(m, new, Put(_)) ==
    {Outcome("CHANGED", Put(new)), Fault("FAILED", m)}
      \cup {Fault(a, Put(t)) : a \in {"FAILED", "CHANGED", "KILLED"}, t \in Torn(new)}

(* The outcomes of a first step, each that went well followed by a second.  A
   second step that finds nothing to do leaves the answer of the first; the
   agent may be killed between the two. *)
Then(first, Second(_)) ==
    UNION {IF o.answer \in {"CHANGED", "NOOP"}
             THEN {[s EXCEPT !.answer = IF @ = "NOOP" THEN o.answer ELSE @,
                             !.fault  = @ \/ o.fault] : s \in Second(o.m)}
                    \cup (IF o.answer = "CHANGED" THEN {Fault("KILLED", o.m)} ELSE {})
             ELSE {o} : o \in first}

\* The first line that satisfies P, 0 if there is none
FirstLine(file, P(_)) ==
    IF \E i \in 1 .. Len(file) : P(file[i])
      THEN CHOOSE i \in 1 .. Len(file) :
             P(file[i]) /\ \A j \in 1 .. (i - 1) : ~P(file[j])
      ELSE 0

-----------------------------------------------------------------------------
(* host: lines are [ip, words]; ip "#" marks a comment *)

\* A name on a line.  An array of aliases is written the way the catalog
\* prints it, with a comma glued to every alias but the last.
Word(name, comma) == [name |-> name, comma |-> comma]

build_host_entry(r) ==
    [ip    |-> r.ip,
     words |-> <<Word(r.title, FALSE)>>
                 \o [i \in 1 .. Len(r.aliases) |->
                       Word(r.aliases[i], i < Len(r.aliases))]]

\* One of the words of the line is the name, whichever position it has
NamesHost(line, name) ==
    line.ip # "#" /\ Word(name, FALSE) \in Range(line.words)

\* Mutant: only the canonical name of a line is looked at.
find_host_entry_Canonical(hosts, name) ==
    FirstLine(hosts, LAMBDA l : l.ip # "#" /\ Head(l.words).name = name)

find_host_entry(hosts, name) == FirstLine(hosts, LAMBDA l : NamesHost(l, name))

\* The lines with the one at i removed or replaced, or the entry added (i = 0)
Rewritten(r, lines, i, entry) ==
    CASE r.ensure # "present"          -> RemoveAt(lines, i)
      [] r.ensure = "present" /\ i # 0 -> ReplaceAt(lines, i, entry)
      [] OTHER                         -> Append(lines, entry)

host_apply(r, m, noop) ==
    LET hosts == Read(m.hosts)
        i     == find_host_entry(hosts, r.title)
        entry == build_host_entry(r)
        Put(f) == [m EXCEPT !.hosts = f]
    IN  CASE r.ensure = "present" /\ r.ip = none     -> {Outcome("FAILED", m)}
          [] r.ensure # "present" /\ i = 0           -> {Outcome("SUCCESS", m)}
          [] r.ensure = "present" /\ r.ip # none /\ i # 0 /\ hosts[i] = entry
                                                    -> {Outcome("SUCCESS", m)}
          [] OTHER ->
               IF noop THEN {Outcome("SKIPPED", m)}
               ELSE Written(m, Rewritten(r, hosts, i, entry), Put)

-----------------------------------------------------------------------------
(* cron: lines are [kind, text], kind "marker", "env", "job" or "other" *)

\* The marker, the environment if there is one, and the job
build_cron_entry(r) ==
    <<[kind |-> "marker", text |-> r.title]>>
      \o (IF r.environment = none THEN <<>>
                                  ELSE <<[kind |-> "env", text |-> r.environment]>>)
      \o <<[kind |-> "job", text |-> r.job]>>

find_cron_entry(crontab, name) ==
    FirstLine(crontab, LAMBDA l : l = [kind |-> "marker", text |-> name])

\* The entry found ends after the line that follows the marker
EntryEnd(crontab, i) == IF i < Len(crontab) THEN i + 1 ELSE i

\* The lines of the entry without the marker
extract_cron_line(crontab, i) == SubSeq(crontab, i + 1, EntryEnd(crontab, i))

\* crontab with the lines of the entry at i replaced
Splice(crontab, i, lines) ==
    SubSeq(crontab, 1, i - 1) \o lines
      \o SubSeq(crontab, EntryEnd(crontab, i) + 1, Len(crontab))

(* crontab(1) installs what it is given as a whole or not at all, and refuses
   an unknown user. *)
write_crontab(m, user, new) ==
    IF m.users[user] = none
      THEN {Outcome("FAILED", m)}
      ELSE {Outcome("CHANGED", [m EXCEPT !.crontab[user] = new]), Fault("FAILED", m)}

\* The crontab without the entry at i, with it replaced, or with the entry added
RewrittenTab(r, crontab, i, entry) ==
    CASE r.ensure # "present"          -> Splice(crontab, i, <<>>)
      [] r.ensure = "present" /\ i # 0 -> Splice(crontab, i, entry)
      [] OTHER                         -> crontab \o entry

cron_apply(r, m, noop) ==
    LET crontab == Read(m.crontab[r.user])
        i       == find_cron_entry(crontab, r.title)
        entry   == build_cron_entry(r)
    IN  CASE r.ensure = "present" /\ r.job = none -> {Outcome("FAILED", m)}
          [] r.ensure # "present" /\ i = 0        -> {Outcome("SUCCESS", m)}
          [] r.ensure = "present" /\ r.job # none /\ i # 0
               /\ extract_cron_line(crontab, i) = Tail(entry)
                                                 -> {Outcome("SUCCESS", m)}
          [] OTHER ->
               IF noop THEN {Outcome("SKIPPED", m)}
               ELSE write_crontab(m, r.user, RewrittenTab(r, crontab, i, entry))

-----------------------------------------------------------------------------
(* ssh_authorized_key: lines are [key, name, spec], key "#" marks a comment;
   spec stands for the key type and the options *)

build_key_entry(r) == [key |-> r.key, name |-> r.title, spec |-> r.spec]

find_key_entry(keys, key) ==
    FirstLine(keys, LAMBDA l : l.key # "#" /\ l.key = key)

find_key_by_name(keys, name) ==
    FirstLine(keys, LAMBDA l : l.key # "#" /\ l.name = name)

\* By key, and for a key that must go by its name too
FoundKey(r, keys) ==
    LET byKey == IF r.key = none THEN 0 ELSE find_key_entry(keys, r.key)
    IN  IF byKey = 0 /\ r.ensure # "present" THEN find_key_by_name(keys, r.title) ELSE byKey

(* .ssh is made in the home directory of the user, in noop mode as well; a
   home directory that is not there only matters when not in noop mode. *)
ensure_ssh_dir(r, m) ==
    IF r.ensure = "present" /\ r.user \in m.homes
      THEN [m EXCEPT !.sshdirs = @ \cup {r.user}]
      ELSE m

\* As for hosts
RewrittenKeys(r, keys, i, entry) == Rewritten(r, keys, i, entry)

ssh_authorized_key_apply(r, m0, noop) ==
    LET m     == ensure_ssh_dir(r, m0)
        keys  == Read(m.keys[r.user])
        i     == FoundKey(r, keys)
        entry == build_key_entry(r)
        Put(f) == [m EXCEPT !.keys[r.user] = f]
    IN  CASE r.ensure = "present" /\ r.key = none -> {Outcome("FAILED", m0)}
          [] m0.users[r.user] = none             -> {Outcome("FAILED", m0)}
          [] r.ensure = "present" /\ r.user \notin m.sshdirs /\ ~noop
                                                 -> {Outcome("FAILED", m)}
          [] r.ensure # "present" /\ i = 0        -> {Outcome("SUCCESS", m)}
          [] r.ensure = "present" /\ i # 0 /\ keys[i] = entry
                                                 -> {Outcome("SUCCESS", m)}
          [] OTHER ->
               IF noop THEN {Outcome("SKIPPED", m)}
               ELSE Written(m, RewrittenKeys(r, keys, i, entry), Put)

-----------------------------------------------------------------------------
(* mount: lines of fstab are [mountpoint, spec], mountpoint "#" marks a comment
   or a blank line; spec stands for device, type, options, dump and pass *)

IsEntry(line) == line.mountpoint # "#"

\* The entries, as getmntent reads them
read_fstab(file) == SelectSeq(file, IsEntry)

find_fstab_entry(entries, mountpoint) ==
    FirstLine(entries, LAMBDA e : e.mountpoint = mountpoint)

fstab_add_or_update(entries, e) ==
    LET i == find_fstab_entry(entries, e.mountpoint)
    IN  IF i # 0 THEN ReplaceAt(entries, i, e) ELSE Append(entries, e)

fstab_remove(entries, mountpoint) ==
    RemoveAt(entries, find_fstab_entry(entries, mountpoint))

\* How many of the first i lines are entries
EntriesUpTo(file, i) == Cardinality({j \in 1 .. i : IsEntry(file[j])})

Header == [mountpoint |-> "#", spec |-> "header"]

(* The file as it is written again: comments stay where they were, the lines
   that were entries take the entries in order, what is left over is added at
   the end.  An empty file gets a header. *)
write_fstab(file, entries) ==
    LET slot(i) == IF IsEntry(file[i])
                     THEN IF EntriesUpTo(file, i) <= Len(entries)
                            THEN <<entries[EntriesUpTo(file, i)]>> ELSE <<>>
                     ELSE <<file[i]>>
        old == EntriesUpTo(file, Len(file))
    IN  (IF file = <<>> THEN <<Header>> ELSE <<>>)
          \o FlattenSeq([i \in 1 .. Len(file) |-> slot(i)])
          \o SubSeq(entries, old + 1, Len(entries))

\* The file is written with fprintf and no result is looked at
FstabWritten(m, entries) ==
    LET new == write_fstab(m.fstab, entries)
    IN  {Outcome("CHANGED", [m EXCEPT !.fstab = new]), Fault("FAILED", m)}
          \cup {Fault(a, [m EXCEPT !.fstab = t]) : a \in {"CHANGED", "KILLED"}, t \in Torn(new)}

do_mount(m, p)  == {Outcome("CHANGED", [m EXCEPT !.mounted = @ \cup {p}]), Fault("FAILED", m)}
do_umount(m, p) == {Outcome("CHANGED", [m EXCEPT !.mounted = @ \ {p}]), Fault("FAILED", m)}

mount_absent(r, m, noop) ==
    LET entries == read_fstab(m.fstab)
        current == find_fstab_entry(entries, r.title) # 0
        mounted == r.title \in m.mounted
        Forget(n) == IF current THEN FstabWritten(n, fstab_remove(entries, r.title))
                                ELSE {Outcome("CHANGED", n)}
    IN  CASE ~current /\ ~mounted -> {Outcome("SUCCESS", m)}
          [] (current \/ mounted) /\ noop -> {Outcome("SKIPPED", m)}
          [] mounted /\ ~noop -> Then(do_umount(m, r.title), Forget)
          [] OTHER -> Forget(m)

mount_unmounted(r, m, noop) ==
    CASE r.title \notin m.mounted -> {Outcome("SUCCESS", m)}
      [] r.title \in m.mounted /\ noop -> {Outcome("SKIPPED", m)}
      [] OTHER -> do_umount(m, r.title)

MountEntry(r) == [mountpoint |-> r.title, spec |-> r.spec]

NeedsUpdate(r, entries) ==
    LET i == find_fstab_entry(entries, r.title)
    IN  i = 0 \/ entries[i] # MountEntry(r)

mount_defined(r, m, noop) ==
    LET entries == read_fstab(m.fstab)
    IN  CASE ~NeedsUpdate(r, entries) -> {Outcome("SUCCESS", m)}
          [] NeedsUpdate(r, entries) /\ noop -> {Outcome("SKIPPED", m)}
          [] OTHER -> FstabWritten(m, fstab_add_or_update(entries, MountEntry(r)))

\* In noop mode an entry that would be updated does not show in the answer
mount_mounted(r, m, noop) ==
    LET entries == read_fstab(m.fstab)
        mounted == r.title \in m.mounted
        update  == NeedsUpdate(r, entries)
        Attach(n) == IF mounted THEN {Outcome("CHANGED", n)} ELSE do_mount(n, r.title)
    IN  CASE noop -> {Outcome(IF mounted THEN "SUCCESS" ELSE "SKIPPED", m)}
          [] ~noop /\ ~update /\ mounted -> {Outcome("SUCCESS", m)}
          [] ~noop /\ update ->
               Then(FstabWritten(m, fstab_add_or_update(entries, MountEntry(r))), Attach)
          [] OTHER -> Attach(m)

mount_apply(r, m, noop) ==
    CASE r.ensure = "absent"    -> mount_absent(r, m, noop)
      [] r.ensure = "unmounted" -> mount_unmounted(r, m, noop)
      [] r.ensure \in {"mounted", "defined", "present"} /\ r.spec = none
                                -> {Outcome("FAILED", m)}
      [] r.ensure \in {"defined", "present"} /\ r.spec # none -> mount_defined(r, m, noop)
      [] OTHER                  -> mount_mounted(r, m, noop)
=============================================================================
