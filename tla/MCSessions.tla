------------------------------ MODULE MCSessions ------------------------------
(* The instance of Sessions for TLC: several connections from one headset of    *)
(* the LAN, and one place for a paired client.                                  *)
EXTENDS Sessions
===============================================================================
