---------------------------- MODULE OrderedApply ----------------------------
(***************************************************************************)
(* What catalog_apply promises the agent and the authors of manifests: the *)
(* resources of a catalog are applied once each, in some order that the    *)
(* declared relationships allow if any does; a resource is refreshed at    *)
(* its turn exactly if something it listens to changed before; and the     *)
(* number of failures is returned.  The bounded tables, the sort and the   *)
(* flags with which this is done are the business of CatalogApply.         *)
(***************************************************************************)
EXTENDS Integers, FiniteSets

VARIABLES
    readable,   \* whether there is a catalog to work on
    entries,    \* the entries that have a resource
    handled,    \* those with a provider for their type
    waits_for,  \* the entries each entry is declared to come after
    notifies,   \* the entries each entry is declared to refresh
    outcome,    \* the result of each entry, "none" before its turn
    changed,    \* the entries that changed, or would in noop mode
    refreshed,  \* the entries that were refreshed
    returned,   \* whether catalog_apply has returned
    ret         \* and what

catalogVars == <<readable, entries, handled, waits_for, notifies>>
vars == <<catalogVars, outcome, changed, refreshed, returned, ret>>

Applied == {i \in entries : outcome[i] # "none"}

\* Entries that all wait for one of themselves have no order.
Unordered == \E S \in SUBSET DOMAIN waits_for : S # {} /\ \A i \in S : waits_for[i] \cap S # {}

\* What an entry waits for has had its turn, itself and what that waits for.
Ready(i) == waits_for[i] \cap entries \subseteq Applied

Init ==
    /\ outcome = [i \in DOMAIN waits_for |-> "none"]
    /\ changed = {}
    /\ refreshed = {}
    /\ returned = FALSE
    /\ ret = 0

Effective == {"CHANGED", "SKIPPED"}

\* The turn of a resource, and of its refresh.
Apply(i) ==
    /\ ~returned /\ readable
    /\ i \in entries \ Applied
    /\ Unordered \/ Ready(i)
    /\ \E res \in {"SUCCESS", "NOOP", "CHANGED", "FAILED", "SKIPPED"} :
          LET asked == res # "FAILED" /\ \E j \in changed : i \in notifies[j]
          IN  /\ outcome' = [outcome EXCEPT ![i] = res]
              /\ refreshed' = IF asked THEN refreshed \cup {i} ELSE refreshed
              /\ \/ res \in Effective /\ changed' = changed \cup {i}
                 \/ res \notin Effective /\ changed' = changed
                 \/ asked /\ changed' = changed \cup {i}
    /\ UNCHANGED <<catalogVars, returned, ret>>

\* With a catalog it cannot work on catalog_apply returns at once.
Return ==
    /\ ~returned
    /\ returned' = TRUE
    /\ \/ /\ readable /\ Applied = entries
          /\ ret' = Cardinality({i \in handled : outcome[i] = "FAILED"})
       \/ /\ ~readable
          /\ ret' \in {-1, 0}
    /\ UNCHANGED <<catalogVars, outcome, changed, refreshed>>

Next == Return \/ \E i \in entries : Apply(i)

Spec == Init /\ [][Next]_vars
=============================================================================
