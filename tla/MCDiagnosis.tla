---------------------------- MODULE MCDiagnosis ----------------------------
(* Instances of Diagnosis for TLC. *)
EXTENDS Diagnosis, TLC

CONSTANTS quota, noQuota

\* Scopes are only compared with each other.
ScopeSymmetry == Permutations({quota, noQuota})

=============================================================================
