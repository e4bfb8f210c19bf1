--------------------------- MODULE MCPortalSession ---------------------------
(* Instances of PortalSession for TLC.                                          *)
EXTENDS PortalSession
===============================================================================
