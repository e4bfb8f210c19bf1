--------------------------- MODULE MCVideoDelivery ---------------------------
(* Instances of VideoDelivery for TLC.                                          *)
EXTENDS VideoDelivery

(* By number: three chunks in two parity groups with a short last chunk; two    *)
(* chunks, the last of one byte; a byte.                                         *)
Sizes == <<<<0>>, <<1, 0, 1, 1, 1>>, <<0, 1, 1>>, <<1>>, <<0>>>>
===============================================================================
