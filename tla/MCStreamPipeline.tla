--------------------------- MODULE MCStreamPipeline ---------------------------
(* Instances of StreamPipeline for TLC.                                         *)
EXTENDS StreamPipeline

(* Two rates, two frame rates: with half the share, a rate of one again.         *)
Modest == [kbps |-> 2, fps |-> 1]
SettingsChosen == {Modest, [kbps |-> 4, fps |-> 2]}
===============================================================================
