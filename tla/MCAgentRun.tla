----------------------------- MODULE MCAgentRun ----------------------------
(***************************************************************************)
(* An agent with one custom fact, a Ruby type with one provider, and a     *)
(* helper file directly in the lib directory of its module.                *)
(***************************************************************************)
EXTENDS AgentRun

CONSTANTS fact, type, prov1

\* Nothing was copied, all but the provider, or all plugins.
NoneSomeAll == {{}, {fact, type}, {fact, type, prov1}}
=============================================================================
