------------------------------ MODULE MCServer ------------------------------
(***************************************************************************)
(* Server for model checking: the feature with a threshold, two of which   *)
(* the path of one is in the uri of the other, a statistic of the data     *)
(* plane, and fewer alarms than can be asked for.                          *)
(***************************************************************************)
EXTENDS Server

\* Below and above LONG_MIN and LONG_MAX, and in the range.
MCThresholds == {-5, 1, 4}
=============================================================================
