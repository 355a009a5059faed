------------------------ MODULE MCWorkspaceErasure ------------------------
(* WorkspaceErasure on small instances.                                    *)
EXTENDS WorkspaceErasure
=============================================================================
