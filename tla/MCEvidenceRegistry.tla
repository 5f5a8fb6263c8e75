------------------------- MODULE MCEvidenceRegistry -------------------------
(* Small instances of EvidenceRegistry. *)
EXTENDS EvidenceRegistry, TLC

CONSTANTS a1, a2, f1, f2, f3

Symmetric == Permutations({a1, a2}) \cup Permutations({f1, f2})
=============================================================================
