----------------------------- MODULE MCResponse ------------------------------
(***************************************************************************)
(* Instances of Response for TLC.  "ext" is the remote party of alert al1   *)
(* (and of al2), "host" its internal host, "other" an unrelated external    *)
(* address.                                                                 *)
(***************************************************************************)
EXTENDS ResponseInvariant, TLC

CONSTANTS ext, host, other, al1, al2

MC_Attacker == [al \in Alerts |-> ext]

MC_Host == [al \in Alerts |-> host]

\* A handler's identity tells nothing apart, and neither does an id.
MC_Symmetry == Permutations(Rules) \cup Permutations(Approvals) \cup Permutations(Engine)

=============================================================================
