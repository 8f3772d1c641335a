---------------------------- MODULE MCProviders ----------------------------
(***************************************************************************)
(* Machines and catalogs for Providers: each scenario is a small catalog   *)
(* on a machine that has something in its way.                             *)
(***************************************************************************)
EXTENDS Providers

MCparent == [p \in {"/conf", "/d", "/d/f", "/l", "/src"} |-> IF p = "/d/f" THEN "/d" ELSE none]

MCconfOf == [s \in {"web", "old"} |-> "/conf"]

People == {"root", "app", "ops"}

Job(text)    == [kind |-> "job", text |-> text]
Marker(name) == [kind |-> "marker", text |-> name]
Line(ip, names) == [ip |-> ip, words |-> [i \in 1 .. Len(names) |-> Word(names[i], FALSE)]]
Account(uid, gid) == [uid |-> uid, gid |-> gid, attrs |-> none, groups |-> {}]

Base ==
    [os        |-> "redhat",
     files     |-> [p \in DOMAIN MCparent |-> none],
     published |-> [u \in {"url"} |-> <<"new">>],
     pkgs      |-> [p \in {"web", "old"} |-> IF p = "old" THEN 1 ELSE none],
     repo      |-> [p \in {"web", "old"} |-> 2],
     services  |-> [s \in {"web", "old"} |->
                      IF s = "old" THEN [running |-> TRUE, enabled |-> TRUE, loaded |-> none] ELSE none],
     users     |-> [u \in People |-> CASE u = "root" -> Account(0, 0)
                                       [] u = "ops"  -> Account(1, 1)
                                       [] OTHER      -> none],
     groups    |-> [g \in People |-> CASE g = "root" -> 0 [] g = "ops" -> 1 [] OTHER -> none],
     homes     |-> {"ops"},
     sshdirs   |-> {},
     sysctl    |-> [runtime |-> 0, file |-> none],
     hosts     |-> <<Line("#", <<>>), Line("ip9", <<"a", "c">>), Line("ip8", <<"x">>)>>,
     crontab   |-> [u \in People |-> IF u = "ops" THEN <<Marker("bak"), Job("j0"), Job("j9")>> ELSE <<>>],
     keys      |-> [u \in People |-> IF u = "ops"
                      THEN <<[key |-> "k1", name |-> "me", spec |-> "s0"],
                             [key |-> "k2", name |-> "you", spec |-> "s0"]>> ELSE <<>>],
     fstab     |-> <<[mountpoint |-> "#", spec |-> "note"], [mountpoint |-> "/", spec |-> "s"],
                     [mountpoint |-> "/mnt", spec |-> "s0"]>>,
     mounted   |-> {"/", "/old"}]

\* Resources, by type; subs are the entries they subscribe to
FileRes(title, ensure, content, source, owner, mode, target) ==
    [type |-> "file", title |-> title, ensure |-> ensure, content |-> content, source |-> source,
     owner |-> owner, mode |-> mode, target |-> target, subscribes |-> {}]
HostRes(title, ensure, ip, aliases) ==
    [type |-> "host", title |-> title, ensure |-> ensure, ip |-> ip, aliases |-> aliases, subscribes |-> {}]
CronRes(title, ensure, user, job) ==
    [type |-> "cron", title |-> title, ensure |-> ensure, user |-> user, job |-> job,
     environment |-> none, subscribes |-> {}]
KeyRes(title, ensure, user, key) ==
    [type |-> "ssh_authorized_key", title |-> title, ensure |-> ensure, user |-> user, key |-> key,
     spec |-> "s1", subscribes |-> {}]
MountRes(title, ensure, spec) ==
    [type |-> "mount", title |-> title, ensure |-> ensure, spec |-> spec, subscribes |-> {}]
PackageRes(title, ensure, version) ==
    [type |-> "package", title |-> title, ensure |-> ensure, version |-> version, subscribes |-> {}]
ServiceRes(title, ensure, enable, subs) ==
    [type |-> "service", title |-> title, ensure |-> ensure, enable |-> enable, subscribes |-> subs]
GroupRes(title, ensure, gid) ==
    [type |-> "group", title |-> title, ensure |-> ensure, gid |-> gid, subscribes |-> {}]
UserRes(title, ensure, uid, gid, groups, home) ==
    [type |-> "user", title |-> title, ensure |-> ensure, uid |-> uid, gid |-> gid, groups |-> groups,
     attrs |-> none, managehome |-> home, subscribes |-> {}]
SysctlRes(ensure, value, permanent) ==
    [type |-> "sysctl", title |-> "key", ensure |-> ensure, value |-> value, permanent |-> permanent,
     subscribes |-> {}]
ExecRes(title, makes, creates, refreshonly, subs) ==
    [type |-> "exec", title |-> title, makes |-> makes, creates |-> creates, unless |-> none,
     onlyif |-> none, refreshonly |-> refreshonly, code |-> 0, returns |-> 0, subscribes |-> subs]
Plain(type) == [type |-> type, title |-> "t", subscribes |-> {}]

Catalogs == {
    <<HostRes("a", "present", "ip1", <<"b">>), HostRes("b", "present", "ip2", <<>>)>>,
    <<HostRes("c", "absent", none, <<>>), HostRes("y", "present", "ip3", <<"y2", "y3">>)>>,
    <<CronRes("bak", "present", "ops", "j1"), CronRes("run", "present", "ops", "j2")>>,
    <<CronRes("bak", "absent", "ops", none)>>,
    <<KeyRes("me", "present", "ops", "k1"), KeyRes("new", "present", "ops", "k3"),
      KeyRes("you", "absent", "ops", none)>>,
    <<MountRes("/mnt", "mounted", "s1"), MountRes("/old", "absent", none)>>,
    <<MountRes("/new", "defined", "s1"), MountRes("/mnt", "absent", none)>>,
    <<MountRes("/old", "unmounted", none), MountRes("/mnt", "present", "s1")>>,
    <<FileRes("/d", "directory", none, none, none, none, none),
      FileRes("/d/f", "present", <<"a", "b">>, none, "ops", "0600", none),
      FileRes("/l", "link", none, none, none, none, "/d/f")>>,
    <<FileRes("/d/f", "absent", none, none, none, none, none),
      FileRes("/conf", "file", none, "url", none, "0600", none),
      FileRes("/l", "link", none, none, none, none, "/conf")>>,
    <<PackageRes("web", "latest", none), FileRes("/conf", "file", <<"a", "b">>, none, none, none, none),
      ServiceRes("web", "running", TRUE, {1, 2})>>,
    <<ServiceRes("old", "stopped", FALSE, {}), PackageRes("web", "version", 1)>>,
    <<PackageRes("old", "purged", none), Plain("anchor")>>,
    <<GroupRes("app", "present", 3), UserRes("app", "present", 2, "app", none, TRUE),
      KeyRes("new", "present", "app", "k3")>>,
    <<UserRes("ops", "absent", none, none, none, TRUE), GroupRes("ops", "absent", none)>>,
    <<UserRes("app", "present", none, none, none, FALSE)>>,
    <<SysctlRes("present", 1, TRUE)>>,
    <<SysctlRes("absent", none, TRUE), Plain("notify")>>,
    <<FileRes("/conf", "file", <<"a">>, none, none, none, none),
      ExecRes("once", "/src", "/src", FALSE, {}), ExecRes("again", none, none, TRUE, {1})>>}

\* Catalogs that are never at rest
RestlessCatalogs == {
    <<PackageRes("web", "latest", none), ServiceRes("web", "running", none, {1})>>,
    <<[CronRes("bak", "present", "ops", "j1") EXCEPT !.environment = "e"]>>,
    <<GroupRes("app", "present", none),
      UserRes("ops", "present", none, none, [array |-> FALSE, names |-> {"app"}], FALSE),
      UserRes("app", "present", 2, "app", [array |-> TRUE, names |-> {"ops"}], FALSE)>>,
    <<ExecRes("always", "/src", none, FALSE, {}), FileRes("/conf", "file", none, "/src", "app", none, none)>>}

MCScenarios ==
    {[catalog |-> c, machine |-> Base] : c \in Catalogs}
      \cup {[catalog |-> c, machine |-> [Base EXCEPT !.os = "debian"]] : c \in RestlessCatalogs}

\* Entries edited by hand, a configuration changed and loaded, a stopped service, a new release, nodes in the way
MCEdits(x) ==
    {[x EXCEPT !.hosts = Append(@, Line("ip7", <<"z", "a">>))],
     [x EXCEPT !.hosts = IF @ = <<>> THEN @ ELSE Tail(@)],
     [x EXCEPT !.crontab["ops"] = Append(@, Job("j8"))],
     [x EXCEPT !.keys["ops"] = Append(@, [key |-> "k1", name |-> "me", spec |-> "s2"])],
     [x EXCEPT !.fstab = SelectSeq(@, LAMBDA l : l.mountpoint # "/mnt")],
     [x EXCEPT !.mounted = @ \cup {"/mnt"}],
     [x EXCEPT !.files["/l"] = Node("link", <<>>, "0777", "/src")],
     [x EXCEPT !.files["/conf"] = Node("file", <<"x">>, "0644", none),
               !.services["web"] = IF @ = none THEN @ ELSE [@ EXCEPT !.running = TRUE, !.loaded = <<"x">>]],
     [x EXCEPT !.published["url"] = <<"newer", "still">>],
     [x EXCEPT !.repo["web"] = 3],
     [x EXCEPT !.services["web"] = IF @ = none THEN @ ELSE [@ EXCEPT !.running = FALSE, !.enabled = FALSE]],
     [x EXCEPT !.groups["app"] = IF @ = none THEN @ ELSE 2],
     [x EXCEPT !.sysctl.runtime = 5]}
=============================================================================
