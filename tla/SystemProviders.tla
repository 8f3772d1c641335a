-------------------------- MODULE SystemProviders --------------------------
(***************************************************************************)
(* The providers of the agent that work on the machine itself: file,       *)
(* package (apt and dnf), service, user, group, sysctl, exec, notify and   *)
(* anchor, in the form TextProviders gives the others.  The tools they     *)
(* call (useradd, apt-get, systemctl, ...) are modelled by what the        *)
(* providers rely on.                                                      *)
(***************************************************************************)
EXTENDS TextProviders

CONSTANTS
    parent,     \* the directory of a path, none for a path of the root
    confOf,     \* the configuration file a service reads when it starts
    Ids         \* the numeric ids useradd and groupadd choose from

ASSUME IdsAssumption == Ids \subseteq Nat /\ IsFiniteSet(Ids)

\* A command that changes the machine to new, or fails and changes nothing
Command(m, new) == {Outcome("CHANGED", new), Fault("FAILED", m)}

\* Several would-be changes that a provider only prints in noop mode
Printed(m) == {Outcome("NOOP", m)}
-----------------------------------------------------------------------------
(* file: a node is [kind, content, owner, mode, target].  The contents are a
   sequence of pieces; the piece "NUL" ends what a C string shows of it.  An
   owner stands for the owner and the group. *)

CString(contents) ==
    LET nul == FirstLine(contents, LAMBDA p : p = "NUL")
    IN  IF nul = 0 THEN contents ELSE SubSeq(contents, 1, nul - 1)

\* Where stat and fopen arrive (a link to a link is not modelled)
Follow(m, path) ==
    LET node == m.files[path]
    IN  IF node # none /\ node.kind = "link" THEN node.target ELSE path

path_exists(m, path)  == m.files[path] # none
file_exists(m, path)  == m.files[Follow(m, path)] # none
is_directory(m, path) == file_exists(m, path) /\ m.files[Follow(m, path)].kind = "dir"
is_symlink(m, path)   == path_exists(m, path) /\ m.files[path].kind = "link"

\* The directory a new node goes to is there
HasParent(m, path) == parent[path] = none \/ is_directory(m, parent[path])

Node(kind, contents, mode, target) ==
    [kind |-> kind, content |-> contents, owner |-> 0, mode |-> mode, target |-> target]

\* The contents as a C string, none (NULL) for a directory or for nothing
read_file_contents(m, path) ==
    IF file_exists(m, path) /\ ~is_directory(m, path)
      THEN CString(m.files[Follow(m, path)].content) ELSE none

write_file_contents(m, path, contents) ==
    LET p == Follow(m, path)
        Put(c) == [m EXCEPT !.files[p] = IF @ = none THEN Node("file", c, "0644", none)
                                                     ELSE [@ EXCEPT !.content = c]]
    IN  IF is_directory(m, path) \/ ~HasParent(m, p)
          THEN {Outcome("FAILED", m)}
          ELSE Written(m, contents, Put)

file_absent(r, m, noop) ==
    LET children == {c \in DOMAIN m.files : parent[c] = r.title /\ m.files[c] # none}
        refused  == is_directory(m, r.title) /\ (is_symlink(m, r.title) \/ children # {})
    IN  CASE ~file_exists(m, r.title) -> {Outcome("NOOP", m)}
          [] file_exists(m, r.title) /\ noop -> {Outcome("SKIPPED", m)}
          [] file_exists(m, r.title) /\ ~noop /\ refused -> {Outcome("FAILED", m)}
          [] OTHER -> Command(m, [m EXCEPT !.files[r.title] = none])

file_directory(r, m, noop) ==
    CASE is_directory(m, r.title) -> {Outcome("NOOP", m)}
      [] file_exists(m, r.title) /\ ~is_directory(m, r.title) -> {Outcome("FAILED", m)}
      [] ~file_exists(m, r.title) /\ noop -> {Outcome("SKIPPED", m)}
      [] OTHER ->
           IF path_exists(m, r.title) \/ ~HasParent(m, r.title)
             THEN {Outcome("FAILED", m)}
             ELSE Command(m, [m EXCEPT !.files[r.title] = Node("dir", <<>>, "0755", none)])

\* Mutant: the unlink of a link to somewhere else is not kept from noop mode.
file_link_Unlinked(r, m, noop) ==
    {Outcome("SKIPPED", [m EXCEPT !.files[r.title] = none])}

\* A link to somewhere else is removed before the new one is made
file_link(r, m, noop) ==
    LET here == m.files[r.title]
        Make(n) == IF HasParent(n, r.title)
                     THEN Command(n, [n EXCEPT !.files[r.title] =
                                                   Node("link", <<>>, "0777", r.target)])
                     ELSE {Outcome("FAILED", n)}
    IN  CASE r.target = none -> {Outcome("FAILED", m)}
          [] r.target # none /\ here # none /\ here.kind # "link" -> {Outcome("FAILED", m)}
          [] r.target # none /\ is_symlink(m, r.title) /\ here.target = r.target
               -> {Outcome("NOOP", m)}
          [] OTHER ->
               IF noop THEN {Outcome("SKIPPED", m)}
               ELSE IF here = none THEN Make(m)
               ELSE Then({Outcome("CHANGED", [m EXCEPT !.files[r.title] = none])}, Make)

\* A missing file is made with the contents or empty; a file that is there is
\* compared with the contents, if any.  What cannot be read is left alone.
file_content(r, m, noop) ==
    LET wanted  == IF r.content = none THEN <<>> ELSE r.content
        current == read_file_contents(m, r.title)
        update  == \/ ~file_exists(m, r.title)
                   \/ r.content # none /\ current # none /\ current # r.content
    IN  CASE ~update -> {Outcome("NOOP", m)}
          [] update /\ noop -> {Outcome("SKIPPED", m)}
          [] OTHER -> write_file_contents(m, r.title, wanted)

\* What the server answers for a puppet:/// URL; nothing at all is taken for an
\* error, so an empty file cannot be fetched.
fetch_puppet_url(m, url) == IF m.published[url] = <<>> THEN none ELSE m.published[url]

\* The source is fetched from the server or read from the disk after the file
\* was made, and counts only without contents.
file_source(r, m, noop) ==
    LET url     == r.source \in DOMAIN m.published
        fetched == IF url THEN fetch_puppet_url(m, r.source) ELSE read_file_contents(m, r.source)
    IN  CASE r.source = none \/ r.content # none -> {Outcome("NOOP", m)}
          [] r.source # none /\ r.content = none /\ fetched = none -> {Outcome("FAILED", m)}
          [] OTHER ->
               {Fault("FAILED", m)} \cup
               (IF read_file_contents(m, r.title) = CString(fetched) THEN {Outcome("NOOP", m)}
                ELSE IF noop THEN {Outcome("SKIPPED", m)}
                ELSE write_file_contents(m, r.title, CString(fetched)))

get_uid(m, owner) ==
    IF owner = none \/ m.users[owner] = none THEN none ELSE m.users[owner].uid

\* fchown, on what open with O_NOFOLLOW accepts; an unknown owner is skipped
file_owner(r, m, noop) ==
    LET uid  == get_uid(m, r.owner)
        here == m.files[r.title]
    IN  IF uid = none \/ here = none \/ is_symlink(m, r.title) \/ here.owner = uid
          THEN {Outcome("NOOP", m)}
          ELSE IF noop THEN Printed(m)
          ELSE Command(m, [m EXCEPT !.files[r.title].owner = uid])

\* fchmod; a mode that parses as 0 is skipped
file_mode(r, m, noop) ==
    LET here == m.files[r.title]
    IN  IF r.mode \in {none, "0000"} \/ here = none \/ is_symlink(m, r.title) \/ here.mode = r.mode
          THEN {Outcome("NOOP", m)}
          ELSE IF noop THEN Printed(m)
          ELSE Command(m, [m EXCEPT !.files[r.title].mode = r.mode])

file_apply(r, m, noop) ==
    LET Ensure == CASE r.ensure = "directory" -> file_directory(r, m, noop)
                    [] r.ensure = "link"      -> file_link(r, m, noop)
                    [] OTHER -> Then(file_content(r, m, noop),
                                     LAMBDA n : file_source(r, n, noop))
    IN  IF r.ensure = "absent" THEN file_absent(r, m, noop)
        ELSE Then(Then(Ensure, LAMBDA n : file_owner(r, n, noop)),
                  LAMBDA n : file_mode(r, n, noop))
-----------------------------------------------------------------------------
(* package: pkgs gives the version installed, repo the newest one the package
   source offers.  A package ships the service of its name. *)

\* What a package operation leaves: version none removes the package
Installed(m, p, version) ==
    [m EXCEPT !.pkgs[p] = version,
              !.services[p] = IF version = none THEN none
                              ELSE IF @ = none
                                THEN [running |-> FALSE, enabled |-> FALSE, loaded |-> none]
                                ELSE @]

(* Both providers remove a package that is installed and install one that is
   not or that has another version; outdated says whether the one installed
   must be upgraded for ensure => latest. *)
PackageApply(r, m, noop, outdated) ==
    LET now     == m.pkgs[r.title]
        gone    == r.ensure \in {"absent", "purged"}
        install == now = none \/ (r.ensure = "version" /\ now # r.version)
        upgrade == r.ensure = "latest" /\ now # none /\ outdated
        version == IF r.ensure = "version" THEN r.version ELSE m.repo[r.title]
    IN  CASE gone /\ now = none -> {Outcome("NOOP", m)}
          [] ~gone /\ ~install /\ ~upgrade -> {Outcome("NOOP", m)}
          [] OTHER ->
               IF noop THEN {Outcome("SKIPPED", m)}
               ELSE IF gone THEN Command(m, Installed(m, r.title, none))
               ELSE IF version > m.repo[r.title] THEN {Outcome("FAILED", m)}
               ELSE Command(m, Installed(m, r.title, version))

\* apt-cache policy prints Installed and Candidate on lines of their own, so the
\* grep for both on one line never matches: latest always upgrades.
apt_apply(r, m, noop) == PackageApply(r, m, noop, TRUE)

\* dnf check-update ends with 100 exactly when there is a newer version
dnf_apply(r, m, noop) == PackageApply(r, m, noop, m.pkgs[r.title] # m.repo[r.title])
-----------------------------------------------------------------------------
(* service: a unit is [running, enabled, loaded], loaded the configuration the
   process read when it was started *)

Started(m, s) ==
    [m EXCEPT !.services[s].running = TRUE,
              !.services[s].loaded  = read_file_contents(m, confOf[s])]

Stopped(m, s) == [m EXCEPT !.services[s].running = FALSE, !.services[s].loaded = none]

\* In noop mode both parts only print, so the answer is NOOP all the same
systemd_apply(r, m, noop) ==
    LET s    == r.title
        unit == m.services[s]
        Run  == CASE r.ensure = "running" /\ ~unit.running -> Command(m, Started(m, s))
                  [] r.ensure = "stopped" /\ unit.running  -> Command(m, Stopped(m, s))
                  [] OTHER -> {Outcome("NOOP", m)}
        Enable(n) == IF r.enable = none \/ r.enable = unit.enabled
                       THEN {Outcome("NOOP", n)}
                       ELSE Command(n, [n EXCEPT !.services[s].enabled = r.enable])
    IN  IF unit = none THEN {Outcome("FAILED", m)}
        ELSE IF noop THEN Printed(m)
        ELSE Then(Run, Enable)

\* Mutant: a refresh starts a service that is stopped and leaves one that runs.
systemd_refresh_Start(r, m, noop) ==
    IF m.services[r.title].running \/ noop THEN {Outcome("NOOP", m)}
                                          ELSE Command(m, Started(m, r.title))

systemd_refresh(r, m, noop) ==
    IF m.services[r.title] = none THEN {Outcome("FAILED", m)}
    ELSE IF noop THEN {Outcome("SKIPPED", m)}
    ELSE Command(m, Started(m, r.title))
-----------------------------------------------------------------------------
(* group and user: groups gives the gid of a group; a user is
   [uid, gid, attrs, groups], attrs its home, shell and comment *)

GidsUsed(m) == {m.groups[g] : g \in {x \in DOMAIN m.groups : m.groups[x] # none}}
UidsUsed(m) == {m.users[u].uid : u \in {x \in DOMAIN m.users : m.users[x] # none}}

\* The id asked for, or one that is free
NewId(asked, used) ==
    IF asked # none THEN asked
    ELSE CHOOSE i \in Ids \ used : \A j \in Ids \ used : i <= j

\* An id is refused when somebody has it, and when none is left
IdRefused(asked, used) == IF asked # none THEN asked \in used ELSE Ids \subseteq used

group_apply(r, m, noop) ==
    LET now == m.groups[r.title]
        Set(gid)  == [m EXCEPT !.groups[r.title] = gid]
        primary   == \E u \in DOMAIN m.users : m.users[u] # none /\ m.users[u].gid = now
    IN  CASE r.ensure # "present" /\ now = none -> {Outcome("SUCCESS", m)}
          [] r.ensure = "present" /\ now # none /\ r.gid \in {none, now} -> {Outcome("SUCCESS", m)}
          [] OTHER ->
               IF noop THEN {Outcome("SKIPPED", m)}
               ELSE IF r.ensure # "present"
                 THEN IF primary THEN {Outcome("FAILED", m)} ELSE Command(m, Set(none))
               ELSE IF IdRefused(r.gid, GidsUsed(m)) THEN {Outcome("FAILED", m)}
               ELSE Command(m, Set(NewId(r.gid, GidsUsed(m))))

\* The groups parameter is given to -G as it stands: an array is printed with
\* brackets, and no group has such a name.
GroupsRefused(r, m) ==
    r.groups # none /\ (r.groups.array \/ \E g \in r.groups.names : m.groups[g] = none)

\* useradd; without -g it makes a group of the user's name, which must be free
useradd(r, m) ==
    LET refused == \/ IdRefused(r.uid, UidsUsed(m))
                   \/ GroupsRefused(r, m)
                   \/ IF r.gid = none
                        THEN m.groups[r.title] # none \/ Ids \subseteq GidsUsed(m)
                        ELSE m.groups[r.gid] = none
        own == IF r.gid = none THEN [m EXCEPT !.groups[r.title] = NewId(none, GidsUsed(m))] ELSE m
        new == [uid    |-> NewId(r.uid, UidsUsed(m)),
                gid    |-> own.groups[IF r.gid = none THEN r.title ELSE r.gid],
                attrs  |-> r.attrs,
                groups |-> IF r.groups = none THEN {} ELSE r.groups.names]
    IN  IF refused THEN {Outcome("FAILED", m)}
        ELSE Command(m, [own EXCEPT !.users[r.title] = new,
                                    !.homes = IF r.managehome THEN @ \cup {r.title} ELSE @])

\* userdel; with -r the home directory goes too, and what is in it
userdel(r, m) ==
    LET gone == [m EXCEPT !.users[r.title] = none]
    IN  Command(m, IF r.managehome
                     THEN [gone EXCEPT !.homes = @ \ {r.title}, !.sshdirs = @ \ {r.title},
                                       !.keys[r.title] = <<>>]
                     ELSE gone)

\* A group that is not known stands for the one the user has
DesiredGid(r, m) ==
    IF r.gid = none \/ m.groups[r.gid] = none THEN m.users[r.title].gid ELSE m.groups[r.gid]

usermod(r, m) ==
    LET now == m.users[r.title]
        new == [uid    |-> IF r.uid = none THEN now.uid ELSE r.uid,
                gid    |-> DesiredGid(r, m),
                attrs  |-> IF r.attrs = none THEN now.attrs ELSE r.attrs,
                groups |-> IF r.groups = none THEN now.groups ELSE r.groups.names]
    IN  IF (r.uid \notin {none, now.uid} /\ r.uid \in UidsUsed(m)) \/ GroupsRefused(r, m)
          THEN {Outcome("FAILED", m)}
          ELSE Command(m, [m EXCEPT !.users[r.title] = new])

\* groups are always set when they are given, the rest when it differs
user_apply(r, m, noop) ==
    LET now == m.users[r.title]
        modify == \/ r.uid \notin {none, now.uid}
                  \/ DesiredGid(r, m) # now.gid
                  \/ r.attrs \notin {none, now.attrs}
                  \/ r.groups # none
        idle == IF r.ensure = "present" THEN now # none /\ ~modify ELSE now = none
    IN  CASE idle -> {Outcome("SUCCESS", m)}
          [] ~idle /\ noop -> {Outcome("SKIPPED", m)}
          [] ~idle /\ ~noop /\ r.ensure # "present" -> userdel(r, m)
          [] OTHER -> IF now = none THEN useradd(r, m) ELSE usermod(r, m)
-----------------------------------------------------------------------------
(* sysctl: the kernel's value and the file under /etc/sysctl.d *)

\* The value is written with fprintf, which a kernel that refuses it does not
\* make fail: only fclose would, and its result is not looked at.
set_sysctl_value(m, value) ==
    {Outcome("CHANGED", [m EXCEPT !.sysctl.runtime = value]), Fault("FAILED", m),
     Fault("CHANGED", m)}

\* Mutant: what is written is not what is looked for in the next run.
set_sysctl_permanent_Comment(m, value) == {Outcome("CHANGED", [m EXCEPT !.sysctl.file = none])}

set_sysctl_permanent(m, value) ==
    {Outcome("CHANGED", [m EXCEPT !.sysctl.file = value]), Fault("FAILED", m)}
      \cup {Fault(a, [m EXCEPT !.sysctl.file = none]) : a \in {"CHANGED", "KILLED"}}

sysctl_apply(r, m, noop) ==
    LET runtime   == m.sysctl.runtime # r.value
        permanent == r.permanent /\ m.sysctl.file # r.value
        Keep(n)   == IF permanent THEN set_sysctl_permanent(n, r.value) ELSE {Outcome("NOOP", n)}
    IN  CASE r.ensure = "absent" /\ (~r.permanent \/ m.sysctl.file = none) -> {Outcome("SUCCESS", m)}
          [] r.ensure # "absent" /\ (r.value = none \/ m.sysctl.runtime = none) -> {Outcome("FAILED", m)}
          [] r.ensure # "absent" /\ r.value # none /\ m.sysctl.runtime # none
               /\ ~runtime /\ ~permanent -> {Outcome("SUCCESS", m)}
          [] OTHER ->
               IF noop THEN {Outcome("SKIPPED", m)}
               ELSE IF r.ensure = "absent" THEN Command(m, [m EXCEPT !.sysctl.file = none])
               ELSE IF runtime THEN Then(set_sysctl_value(m, r.value), Keep) ELSE Keep(m)
-----------------------------------------------------------------------------
(* exec: the command makes the path r.makes (none: nothing the model sees) and
   ends with r.code; conditions look at paths *)

run_as_user(r, m) ==
    LET ran == IF r.makes = none THEN m
               ELSE [m EXCEPT !.files[r.makes] =
                                 IF @ = none THEN Node("file", <<>>, "0644", none) ELSE @]
    IN  {Outcome(IF r.code = r.returns THEN "CHANGED" ELSE "FAILED", ran),
         Fault("FAILED", m), Fault("FAILED", ran), Fault("KILLED", ran)}

exec_apply(r, m, noop) ==
    CASE \/ r.refreshonly
         \/ r.creates # none /\ file_exists(m, r.creates)
         \/ r.unless # none /\ file_exists(m, r.unless)
         \/ r.onlyif # none /\ ~file_exists(m, r.onlyif) -> {Outcome("NOOP", m)}
      [] OTHER -> IF noop THEN {Outcome("SKIPPED", m)} ELSE run_as_user(r, m)

\* On a refresh no condition is looked at
exec_refresh(r, m, noop) ==
    IF noop THEN {Outcome("SKIPPED", m)} ELSE run_as_user(r, m)

notify_apply(m, noop) == {Outcome(IF noop THEN "SKIPPED" ELSE "SUCCESS", m)}

anchor_apply(m) == {Outcome("SUCCESS", m)}
=============================================================================
