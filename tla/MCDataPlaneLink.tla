-------------------------- MODULE MCDataPlaneLink ---------------------------
(***************************************************************************)
(* DataPlaneLink for model checking.  The constants come from the cfg      *)
(* files:                                                                  *)
(*   MCDataPlaneLinkPolicy.cfg    connections and policies, two crashes of *)
(*                                the client, every fault of the gateway;  *)
(*   MCDataPlaneLinkReply.cfg     identity and reputation requests of two  *)
(*                                processes of the application, answered   *)
(*                                once, several times or not at all;       *)
(*   MCDataPlaneLinkPipe.cfg      writes to an application that is gone.   *)
(***************************************************************************)
EXTENDS DataPlaneLink
=============================================================================
