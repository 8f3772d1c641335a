--------------------------- MODULE RenderService ---------------------------
(***************************************************************************)
(* What puppet_erb_render promises the code that compiles a catalog: a     *)
(* worker hands over a template and gets back that template rendered with  *)
(* its own variables, or nothing, in which case its error counter has been *)
(* incremented.  How the native engine, its cache and the Ruby thread do   *)
(* it is the business of ErbRender.                                        *)
(***************************************************************************)
EXTENDS Naturals

CONSTANTS
    Workers,     \* threads that compile catalogs
    Names,       \* what templates are called: a path, or "inline_template"
    ContentsOf,  \* the texts a template of a given name may have
    Deprecated,  \* texts with a construct the erb_warn_* checks report
    Disabled,    \* the placeholder text of a run that skips ERB
    Failed       \* NULL

VARIABLES
    skip_erb,    \* prog->skip_erb
    strict_erb,  \* prog->strict_erb
    busy,        \* workers inside puppet_erb_render
    job,         \* what each worker asked for last
    reply,       \* what it got
    errors       \* its error counter

\* A template's text rendered with the variables of some workers' scopes.
Rendering(content, scopes) == [content |-> content, scopes |-> scopes]

\* Diagnostics of the erb_warn_* checks that count as errors.
Reported(content) == IF strict_erb /\ ~skip_erb /\ content \in Deprecated THEN 1 ELSE 0

Init ==
    /\ skip_erb \in BOOLEAN
    /\ strict_erb \in BOOLEAN
    /\ busy = {}
    /\ job = [w \in Workers |-> Failed]
    /\ reply = [w \in Workers |-> Failed]
    /\ errors = [w \in Workers |-> 0]

Ask(w) ==
    /\ w \notin busy
    /\ busy' = busy \cup {w}
    /\ \E n \in Names : \E t \in ContentsOf[n] :
          /\ job' = [job EXCEPT ![w] = [name |-> n, content |-> t]]
          /\ errors' = [errors EXCEPT ![w] = @ + Reported(t)]
    /\ UNCHANGED <<skip_erb, strict_erb, reply>>

Answer(w) ==
    /\ w \in busy
    /\ busy' = busy \ {w}
    /\ \/ /\ reply' = [reply EXCEPT ![w] =
                          IF skip_erb THEN Disabled ELSE Rendering(job[w].content, {w})]
          /\ UNCHANGED errors
       \/ /\ ~skip_erb
          /\ reply' = [reply EXCEPT ![w] = Failed]
          /\ errors' = [errors EXCEPT ![w] = @ + 1]
    /\ UNCHANGED <<skip_erb, strict_erb, job>>

Next == \E w \in Workers : Ask(w) \/ Answer(w)

vars == <<skip_erb, strict_erb, busy, job, reply, errors>>

Spec == Init /\ [][Next]_vars
=============================================================================
