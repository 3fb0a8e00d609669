---------------------------- MODULE MCAddrManager ----------------------------
(***************************************************************************)
(* Finite instances of AddrManager.  The durations are scaled so that all  *)
(* the orderings between them that the policy can tell apart occur within  *)
(* a few clock units; see the .cfg files.                                  *)
(***************************************************************************)
EXTENDS AddrManager
=============================================================================
