--------------------------- MODULE MCEvidenceView ---------------------------
(* EvidenceView on small instances.                                        *)
EXTENDS EvidenceView
=============================================================================
