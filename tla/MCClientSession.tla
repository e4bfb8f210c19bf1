---------------------------- MODULE MCClientSession ----------------------------
(* Instances of ClientSession for TLC.                                          *)
EXTENDS ClientSession

CONSTANTS a, b

(* The workspace of the last launch: a virtual screen, if it is there.          *)
OneSaved == <<3>>
================================================================================
