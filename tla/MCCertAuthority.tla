-------------------------- MODULE MCCertAuthority --------------------------
(***************************************************************************)
(* Instances of CertAuthority: one certname the policy accepts, one that   *)
(* waits for the operator.                                                 *)
(***************************************************************************)
EXTENDS CertAuthority

CONSTANTS auto, manual

TwoAgents == {auto, manual}
=============================================================================
