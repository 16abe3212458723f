------------------------- MODULE MCReputationWindow -------------------------
(***************************************************************************)
(* ReputationWindow for model checking, with four devices and an array of  *)
(* three entries, so that it fills up.                                     *)
(*   MCReputationWindow.cfg       what holds of the window;                *)
(*   MCReputationWindowFull.cfg   the write past a full array.             *)
(***************************************************************************)
EXTENDS ReputationWindow
=============================================================================
