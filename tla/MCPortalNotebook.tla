-------------------------- MODULE MCPortalNotebook --------------------------
(* Small instances of PortalNotebook for TLC.                               *)
EXTENDS PortalNotebook

=============================================================================
