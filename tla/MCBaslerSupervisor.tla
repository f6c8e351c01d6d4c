------------------------ MODULE MCBaslerSupervisor --------------------------
(***************************************************************************)
(* Instances of BaslerSupervisor for TLC: a lone camera, and a pair whose  *)
(* mono camera is the master.                                              *)
(***************************************************************************)
EXTENDS BaslerSupervisor

CONSTANTS mono, rgb
=============================================================================
