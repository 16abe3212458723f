----------------------------- MODULE MCIdentity -----------------------------
(***************************************************************************)
(* Identity for model checking, with every fault and four generated        *)
(* values: two pairs.                                                      *)
(***************************************************************************)
EXTENDS Identity
=============================================================================
