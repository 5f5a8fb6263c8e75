------------------------ MODULE MCSelfCorrectionLoop ------------------------
(* Small instances of SelfCorrectionLoop. *)
EXTENDS SelfCorrectionLoop, TLC

CONSTANTS u1, u2, f1, f2

Symmetric == Permutations({f1, f2}) \cup Permutations({u1, u2})
=============================================================================
