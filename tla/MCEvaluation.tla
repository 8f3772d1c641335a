---------------------------- MODULE MCEvaluation ---------------------------
(***************************************************************************)
(* All node manifests of up to MaxTop of the statements below, over a few  *)
(* classes that include and inherit from each other and two defined types, *)
(* one of which declares instances of the other.                           *)
(***************************************************************************)
EXTENDS Evaluation

CONSTANTS MaxTop, Statements

Var(name) == <<"var", name>>
Val(v)    == <<"value", v>>

Assign(name, value)          == [op |-> "assign", name |-> name, value |-> value]
Include(class)               == [op |-> "include", class |-> class]
Class(class, args)           == [op |-> "class", class |-> class, args |-> args]
Declare(op, type, title, v)  == [op |-> op, type |-> type, title |-> title, value |-> v]
Resource(type, title, v)     == Declare("resource", type, title, v)
Branch(body)                 == [op |-> "branch", body |-> body]
Call(function)               == [op |-> "call", function |-> function]
RealizeOf(type, title)       == [op |-> "realize", id |-> <<type, title>>]
OverrideOf(type, title, v)   == [op |-> "override", id |-> <<type, title>>, value |-> v]
CollectOf(type, filter, e)   == [op |-> "collect", type |-> type, filter |-> filter, exported |-> e]

Shared == {
    Assign("x", Val("1")),
    Include("a"),
    Class("a", Val("2")),
    Class("c", Val("2")),
    Resource("file", Val("f"), Var("x")),
    Resource("leaf", Val("l"), Var("x")),
    Resource("tree", Val("t"), Var("x")),
    OverrideOf("leaf", "l", Val("3"))}

Pools == [
    realize |-> Shared \cup {
        Declare("virtual", "file", Val("v"), Var("x")),
        Resource("file", Val("v"), Val("4")),
        OverrideOf("file", "v", Val("3")),
        RealizeOf("file", "v"),
        CollectOf("file", {}, FALSE),
        CollectOf("file", {"1"}, FALSE),
        Declare("virtual", "leaf", Val("vl"), Var("x")),
        CollectOf("leaf", {}, FALSE)},
    others |-> Shared \cup {
        Branch(<<Resource("leaf", Val("l"), Var("x")), Assign("x", Val("4"))>>),
        Declare("create", "leaf", Val("l"), Var("x")),
        Declare("create", "file", Val("f"), Val("4")),
        Call("f"),
        Include("c"),
        Declare("export", "file", Val("e"), Var("x")),
        OverrideOf("file", "e", Val("3")),
        CollectOf("file", {}, TRUE)},
    heirs |-> {
        Include("base"),
        Include("heir"),
        Class("heir", Val("2")),
        Resource("file", Val("f"), Var("x"))}]

Manifests(pool) == UNION {[1 .. n -> Pools[pool]] : n \in 1 .. MaxTop}

Classes == [
    a |-> [inherits |-> "NULL", default |-> Val("0"),
           body |-> <<Assign("y", Var("p")), Resource("leaf", Val("la"), Var("p")),
                      Resource("file", Val("fa"), Var("y")), Include("b"),
                      Resource("file", Val("fp"), Var("p"))>>],
    b |-> [inherits |-> "NULL", default |-> Val("0"),
           body |-> <<Include("a"), Resource("file", Val("fb"), Var("p"))>>],
    c |-> [inherits |-> "a", default |-> Var("y"),
           body |-> <<Resource("tree", Val("tc"), Var("p"))>>],
    base |-> [inherits |-> "NULL", default |-> Val("0"), body |-> <<Include("heir")>>],
    heir |-> [inherits |-> "base", default |-> Val("0"),
              body |-> <<Resource("file", Val("fh"), Var("p"))>>]]

Defines == [
    leaf |-> [default |-> Val("0"), body |-> <<Resource("file", Var("title"), Var("p"))>>],
    tree |-> [default |-> Val("0"),
              body |-> <<Resource("leaf", Var("title"), Var("x")), Include("b"),
                         Declare("virtual", "file", Val("v"), Var("p"))>>]]

Functions == [f |-> <<Resource("file", Val("ff"), Var("x"))>>]

Manifest(top, database) ==
    [top |-> top, classes |-> Classes, defines |-> Defines, functions |-> Functions,
     hiera |-> [b |-> "5"], database |-> database, certname |-> "n1",
     exported |-> {[certname |-> "n2", id |-> <<"file", "o">>, value |-> "6"],
                   [certname |-> "n1", id |-> <<"file", "e">>, value |-> "7"]}]

Elements(stmts) == {stmts[i] : i \in DOMAIN stmts}

\* What the manifests and the bodies above are made of
AllStmts ==
    LET listed == UNION {Pools[pool] : pool \in DOMAIN Pools}
        inside == UNION {Elements(Classes[class].body) : class \in DOMAIN Classes} \cup
                  UNION {Elements(Defines[type].body) : type \in DOMAIN Defines} \cup
                  UNION {Elements(Functions[function]) : function \in DOMAIN Functions}
    IN  listed \cup inside \cup
        UNION {Elements(stmt.body) : stmt \in {s \in listed : s.op = "branch"}}

AllPrograms == {Manifest(top, database) :
                   top \in UNION {Manifests(pool) : pool \in Statements}, database \in BOOLEAN}

\* The hypothesis of Evaluation_proofs about the manifests
ASSUME ManifestsAssumption == InstancesInLists

=============================================================================
