--------------------------- MODULE MCHieraLookup ---------------------------
(***************************************************************************)
(* Two nodes in two domains and two modules, a and b; the hiera.yaml of    *)
(* the documentation in both formats, with -D and without any; every       *)
(* choice of up to MaxFiles data files.                                    *)
(***************************************************************************)
EXTENDS HieraLookup

CONSTANT MaxFiles

TwoNodes == <<"n1", "n2">>

NodeFacts == [n1 |-> [domain |-> "d1"], n2 |-> [domain |-> "d2"]]

Role  == [module |-> "", name |-> "role"]
ARole == [module |-> "a", name |-> "role"]

Request(kind, key, caller) == [kind |-> kind, key |-> key, caller |-> caller]

AllRequests == {
    Request("hiera", Role, "a"), Request("lookup", Role, "b"), Request("variable", Role, ""),
    Request("apl", ARole, "")}

Level(datadir, path) == [backend |-> "yaml_data", datadir |-> datadir, path |-> path]
Secrets == [backend |-> "eyaml_lookup_key", datadir |-> None, path |-> <<<<"text", "global">>>>]

Global   == <<<<"text", "global">>>>
ByModule == <<<<"module", "">>, <<"fact", "domain">>>>
ByRole   == <<<<"var", "role">>>>

Hiera5 == [version |-> "5", datadir |-> None,
           levels |-> <<Secrets, Level(None, ByModule), Level("local", ByRole), Level(None, Global)>>]
Hiera3 == [version |-> "3", datadir |-> "hieralocal",
           levels |-> <<Level(None, ByModule), Level(None, Global)>>]

Modules == [a |-> [version |-> "5", datadir |-> None,
                   levels |-> <<Level(None, <<<<"fact", "domain">>>>), Level("more", ByRole),
                                Level(None, Global)>>],
            b |-> [Hiera3 EXCEPT !.datadir = None]]

Starts == {
    [datadir |-> None, hiera |-> Hiera5, modules |-> <<>>],
    [datadir |-> None, hiera |-> Hiera3, modules |-> <<>>],
    [datadir |-> "hieralocal", hiera |-> Hiera5, modules |-> <<>>],
    [datadir |-> "extra", hiera |-> None, modules |-> Modules],
    [datadir |-> None, hiera |-> [Hiera5 EXCEPT !.version = "4"], modules |-> <<>>]}

Paths == {<<"data", "common">>, <<"data", "a", "d1">>, <<"local", "web">>,
          <<"data", "global">>, <<"hieralocal", "a", "d1">>, <<"extra", "common">>,
          <<"modules", "a", "data", "d1">>, <<"modules", "a", "data", "global">>}

InDirectory(start) ==
    {path \in Paths :
        \/ path[1] \in {"data", "local"} /\ start.datadir = None /\ start.hiera = Hiera5
        \/ path[1] = "hieralocal" /\ (start.hiera = Hiera3 \/ start.datadir = "hieralocal")
        \/ path[1] = "extra" /\ start.datadir = "extra"
        \/ path[1] = "modules" /\ start.modules # <<>>
        \/ path = <<"data", "common">>}

Data(path) == [keys |-> IF path[1] = "modules" THEN {ARole} ELSE {Role, ARole}, version |-> 1]

Started(start, paths) ==
    [datadir |-> start.datadir, hiera |-> start.hiera, modules |-> start.modules,
     files |-> [path \in paths |-> Data(path)]]

AllSites ==
    UNION {{Started(start, paths) :
              paths \in {ps \in SUBSET InDirectory(start) : Cardinality(ps) <= MaxFiles}} :
           start \in Starts}

=============================================================================
