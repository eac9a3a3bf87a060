---------------------------- MODULE MCEnrollment ----------------------------
(* Enrollment with symmetric requests and device ids.                      *)
EXTENDS Enrollment, TLC

CONSTANTS e1, e2
MCEndpoints == {e1, e2}
MCScopes == {{e1}, {e1, e2}}
Symmetry == Permutations(Requests) \cup Permutations(Ids)
=============================================================================
