---------------------------- MODULE MCExtractions ----------------------------
(* Small instances of Extractions. *)
EXTENDS Extractions

CONSTANTS w1, w2, e1, e2
=============================================================================
