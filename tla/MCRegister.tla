----------------------------- MODULE MCRegister -----------------------------
(***************************************************************************)
(* Register for model checking.  The constants come from the cfg files:    *)
(*   MCRegister.cfg         nothing is refused, the loop is prompt and     *)
(*                          fair;                                          *)
(*   MCRegisterFaults.cfg   requests and alarms may be refused, and the    *)
(*                          loop may stall, so that keepalives overlap.    *)
(***************************************************************************)
EXTENDS Register
=============================================================================
