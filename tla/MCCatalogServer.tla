-------------------------- MODULE MCCatalogServer ---------------------------
(***************************************************************************)
(* Two nodes and three sites: the demo, where each node exports its own    *)
(* host entry and collects the other's; two nodes that use the same names, *)
(* exported, declared and collected in different orders; and a node whose  *)
(* compilation fails between two exports.                                  *)
(***************************************************************************)
EXTENDS CatalogServer

CONSTANTS web, db, hostA, hostB

export(r)  == [op |-> "export", res |-> r]
declare(r) == [op |-> "declare", res |-> r]
collect    == [op |-> "collect"]
fail(v)    == [op |-> "fail", when |-> v]

Site(w, d) == [n \in Nodes |-> IF n = web THEN w ELSE d]

Sites == {
    Site(<<export(hostA), collect>>, <<export(hostB), collect>>),
    Site(<<export(hostA)>>, <<declare(hostA), export(hostA), collect>>),
    Site(<<export(hostA), fail(1), export(hostB)>>, <<collect, declare(hostB)>>)}

=============================================================================
