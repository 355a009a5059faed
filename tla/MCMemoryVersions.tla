------------------------- MODULE MCMemoryVersions -------------------------
(* MemoryVersions on small instances.                                      *)
EXTENDS MemoryVersions
=============================================================================
